-------------------------- MODULE QueueTopicProofs --------------------------
(***************************************************************************)
(* Proofs about QueueTopic and ZmqSockets, for every finite set of         *)
(* clients: composing the queue with sockets, monitors and clients takes   *)
(* nothing away from what BrokerQueueProofs shows about the queue alone;   *)
(* the count of clients follows the events of libzmq; and what consumers   *)
(* are handed is in order and, of a PUSH socket, each message once.        *)
(***************************************************************************)
EXTENDS QueueTopic, BrokerQueueProofs, FiniteSetTheorems, FunctionTheorems

-----------------------------------------------------------------------------
(***************************************************************************)
(* The topic implements the queue.                                         *)
(***************************************************************************)

\* Whatever the send phase does with a message, for the queue it is one step,
\* Sent, taken when both sockets are done.
LEMMA StageIsSentOrStutter ==
    ASSUME \/ NextMessage
           \/ \E st \in Stages : GoTo(st)
    PROVE  [QueueNext]_queueVars
<1>1. CASE NextMessage
  BY <1>1 DEF NextMessage, QueueNext
<1>2. CASE \E st \in Stages : GoTo(st)
  BY <1>2 DEF GoTo
<1>3. QED
  BY <1>1, <1>2

\* Every step of the composed topic is a step of the queue or leaves it alone.
LEMMA TopicStepIsQueueStep == [TopicNext]_topicVars => [QueueNext]_queueVars
<1> SUFFICES ASSUME [TopicNext]_topicVars PROVE [QueueNext]_queueVars
  OBVIOUS
<1>1. CASE QueueStep
  BY <1>1 DEF QueueStep, QueueNext
<1>2. CASE Send
  <2>1. NextMessage \/ \E st \in Stages : GoTo(st)
    BY <1>2 DEF Send, CheckPush, SkipPush, SendPush, CheckPub, SkipPub, SendPub,
                Stages
  <2>2. QED
    BY <2>1, StageIsSentOrStutter
<1>3. CASE FailPush \/ FailPub
  <2>1. NextMessage \/ \E st \in Stages : GoTo(st)
    BY <1>3 DEF FailPush, FailPub, Stages
  <2>2. QED
    BY <2>1, StageIsSentOrStutter
<1>4. CASE Environment /\ UNCHANGED <<queueVars, stage>>
  BY <1>4
<1>5. CASE UNCHANGED topicVars
  BY <1>5 DEF topicVars
<1>6. QED
  BY <1>1, <1>2, <1>3, <1>4, <1>5 DEF TopicNext

\* The composed topic implements the queue it is composed from.
THEOREM TopicImplementsQueue == TopicSpec => QueueSpec
<1>1. TopicInit => QueueInit
  BY DEF TopicInit
<1>2. QED
  BY <1>1, TopicStepIsQueueStep, PTL DEF TopicSpec, QueueSpec

\* So a topic with pullers and subscribers that come, go and block it loses,
\* duplicates and reorders nothing on the way to its sockets, and its consumer
\* thread sees no wrapped size.
THEOREM TopicKeepsQueueInvariant == TopicSpec => []QueueInv
<1>1. QED
  BY TopicImplementsQueue, QueueInvariant, PTL

-----------------------------------------------------------------------------
(***************************************************************************)
(* Queues of events.                                                       *)
(***************************************************************************)

\* The events an event queue may hold.
EventNames == {"accepted", "disconnected"}

\* Where an event is in a queue.
Places(evs, e) == {i \in DOMAIN evs : evs[i] = e}

\* A queue of events has finitely many of each kind.
LEMMA PlacesFinite ==
    ASSUME NEW evs \in Seq(EventNames), NEW e
    PROVE  /\ IsFiniteSet(Places(evs, e))
           /\ Cardinality(Places(evs, e)) \in Nat
<1>1. DOMAIN evs = 1..Len(evs) /\ Len(evs) \in Nat
  BY LenProperties
<1>2. IsFiniteSet(1..Len(evs))
  BY <1>1, FS_Interval
<1>3. Places(evs, e) \in SUBSET (1..Len(evs))
  BY <1>1 DEF Places
<1> QED
  BY <1>2, <1>3, FS_Subset, FS_CardinalityType

\* Appending an event adds one place to its kind, and none to the other.
LEMMA PlacesAppend ==
    ASSUME NEW evs \in Seq(EventNames), NEW e \in EventNames, NEW f \in EventNames
    PROVE  Cardinality(Places(Append(evs, f), e)) =
             Cardinality(Places(evs, e)) + (IF e = f THEN 1 ELSE 0)
<1>1. /\ DOMAIN evs = 1..Len(evs) /\ Len(evs) \in Nat
      /\ DOMAIN Append(evs, f) = 1..Len(evs) + 1
      /\ \A i \in 1..Len(evs) : Append(evs, f)[i] = evs[i]
      /\ Append(evs, f)[Len(evs) + 1] = f
  <2>1. Append(evs, f) \in Seq(EventNames) /\ Len(Append(evs, f)) = Len(evs) + 1
    BY AppendProperties
  <2> QED
    BY <2>1, AppendProperties, LenProperties
<1>2. CASE e = f
  <2>1. Places(Append(evs, f), e) = Places(evs, e) \cup {Len(evs) + 1}
    BY <1>1, <1>2 DEF Places
  <2>2. Len(evs) + 1 \notin Places(evs, e)
    BY <1>1 DEF Places
  <2> QED
    BY <1>2, <2>1, <2>2, PlacesFinite, FS_AddElement
<1>3. CASE e # f
  <2>1. Places(Append(evs, f), e) = Places(evs, e)
    BY <1>1, <1>3 DEF Places
  <2> QED
    BY <1>3, <2>1, PlacesFinite
<1> QED
  BY <1>2, <1>3

\* Taking the first event out removes one place of its kind, and none of the other.
LEMMA PlacesTail ==
    ASSUME NEW evs \in Seq(EventNames), evs # <<>>, NEW e \in EventNames
    PROVE  Cardinality(Places(Tail(evs), e)) =
             Cardinality(Places(evs, e)) - (IF e = Head(evs) THEN 1 ELSE 0)
<1>1. /\ DOMAIN evs = 1..Len(evs) /\ Len(evs) \in Nat \ {0}
      /\ DOMAIN Tail(evs) = 1..Len(evs) - 1
      /\ \A i \in 1..Len(evs) - 1 : Tail(evs)[i] = evs[i + 1]
      /\ Head(evs) = evs[1]
      /\ Tail(evs) \in Seq(EventNames)
  <2>1. Tail(evs) \in Seq(EventNames) /\ Len(Tail(evs)) = Len(evs) - 1
    BY HeadTailProperties
  <2>2. Len(evs) \in Nat \ {0}
    BY EmptySeq
  <2>3. Head(evs) = evs[1]
    OBVIOUS
  <2> QED
    BY <2>1, <2>2, <2>3, HeadTailProperties, LenProperties
<1> DEFINE S == Places(Tail(evs), e)
           T == Places(evs, e) \ {1}
           shift == [i \in S |-> i + 1]
<1>2. shift \in Bijection(S, T)
  <2>1. \A i \in S : i \in 1..Len(evs) - 1 /\ evs[i + 1] = e
    BY <1>1 DEF Places
  <2>2. \A i \in S : i + 1 \in T
    BY <1>1, <2>1 DEF Places
  <2>3. \A j \in T : j - 1 \in S /\ (j - 1) + 1 = j
    BY <1>1 DEF Places
  <2>4. \A i, j \in S : i + 1 = j + 1 => i = j
    BY <2>1
  <2> HIDE DEF S, T
  <2>5. shift \in [S -> T]
    BY <2>2
  <2>6. shift \in Injection(S, T)
    BY <2>4, <2>5 DEF Injection, IsInjective
  <2>7. shift \in Surjection(S, T)
    BY <2>3, <2>5 DEF Surjection
  <2> QED
    BY <2>6, <2>7 DEF Bijection
<1>3. IsFiniteSet(S) /\ IsFiniteSet(Places(evs, e))
  BY <1>1, PlacesFinite
<1>4. Cardinality(T) = Cardinality(S)
  BY <1>2, <1>3, FS_Bijection DEF ExistsBijection
<1>5. 1 \in Places(evs, e) <=> e = Head(evs)
  BY <1>1 DEF Places
<1>6. Cardinality(T) = IF 1 \in Places(evs, e) THEN Cardinality(Places(evs, e)) - 1
                                               ELSE Cardinality(Places(evs, e))
  BY <1>3, FS_RemoveElement
<1> QED
  BY <1>3, <1>4, <1>5, <1>6, PlacesFinite

\* So an event counts in Net until it is handled.
LEMMA NetAppend ==
    ASSUME NEW evs \in Seq(EventNames), NEW f \in EventNames
    PROVE  /\ Net(evs) \in Int
           /\ Net(Append(evs, f)) = Net(evs) + (IF f = "accepted" THEN 1 ELSE -1)
<1>1. Net(evs) = Cardinality(Places(evs, "accepted")) - Cardinality(Places(evs, "disconnected"))
  BY DEF Net, Places
<1>2. Net(Append(evs, f)) = Cardinality(Places(Append(evs, f), "accepted"))
                              - Cardinality(Places(Append(evs, f), "disconnected"))
  BY DEF Net, Places
<1>3. /\ Cardinality(Places(evs, "accepted")) \in Nat
      /\ Cardinality(Places(evs, "disconnected")) \in Nat
  BY PlacesFinite
<1>4. /\ Cardinality(Places(Append(evs, f), "accepted")) =
           Cardinality(Places(evs, "accepted")) + (IF "accepted" = f THEN 1 ELSE 0)
      /\ Cardinality(Places(Append(evs, f), "disconnected")) =
           Cardinality(Places(evs, "disconnected")) + (IF "disconnected" = f THEN 1 ELSE 0)
  BY PlacesAppend DEF EventNames
<1> QED
  BY <1>1, <1>2, <1>3, <1>4 DEF EventNames

\* It does not count any more when it is taken out of the queue to be handled.
LEMMA NetTail ==
    ASSUME NEW evs \in Seq(EventNames), evs # <<>>
    PROVE  /\ Net(evs) \in Int
           /\ Net(Tail(evs)) = Net(evs) - (IF Head(evs) = "accepted" THEN 1 ELSE -1)
<1>1. Net(evs) = Cardinality(Places(evs, "accepted")) - Cardinality(Places(evs, "disconnected"))
  BY DEF Net, Places
<1>2. Net(Tail(evs)) = Cardinality(Places(Tail(evs), "accepted"))
                         - Cardinality(Places(Tail(evs), "disconnected"))
  BY DEF Net, Places
<1>3. /\ Cardinality(Places(evs, "accepted")) \in Nat
      /\ Cardinality(Places(evs, "disconnected")) \in Nat
  BY PlacesFinite
<1>4. /\ Cardinality(Places(Tail(evs), "accepted")) =
           Cardinality(Places(evs, "accepted")) - (IF "accepted" = Head(evs) THEN 1 ELSE 0)
      /\ Cardinality(Places(Tail(evs), "disconnected")) =
           Cardinality(Places(evs, "disconnected")) - (IF "disconnected" = Head(evs) THEN 1 ELSE 0)
  BY PlacesTail DEF EventNames
<1>5. Head(evs) \in EventNames
  BY HeadTailProperties
<1> QED
  BY <1>1, <1>2, <1>3, <1>4, <1>5 DEF EventNames

\* No events count for nothing.
LEMMA NetEmpty == Net(<<>>) = 0
<1>1. /\ {i \in DOMAIN <<>> : <<>>[i] = "accepted"} = {}
      /\ {i \in DOMAIN <<>> : <<>>[i] = "disconnected"} = {}
  OBVIOUS
<1> QED
  BY <1>1, FS_EmptySet DEF Net

-----------------------------------------------------------------------------
(***************************************************************************)
(* The sockets and their monitors.                                         *)
(***************************************************************************)

\* The invariant of the sockets: CountFollowsEvents, with what the queues of
\* events and the counts of missed ones are.
ZmqInv ==
    /\ ZmqTypeOK
    /\ events \in [Sockets -> Seq(EventNames)]
    /\ missed \in [Sockets -> Int]
    /\ CountFollowsEvents

\* The connected clients of a socket are finitely many, at most all of them.
LEMMA ConnectedFinite ==
    ASSUME NEW s
    PROVE  /\ IsFiniteSet(Connected(s))
           /\ Cardinality(Connected(s)) \in Nat
           /\ Cardinality(Connected(s)) <= Cardinality(Clients)
<1>1. Connected(s) \subseteq Clients
  BY DEF Connected, Of
<1> QED
  BY <1>1, ClientsAssumption, FS_Subset, FS_CardinalityType

\* An event that says what happened to the number of clients of one socket keeps
\* the counts right.
LEMMA ReportKeepsInv ==
    ASSUME ZmqInv, NEW s \in Sockets, NEW e \in EventNames, NEW by \in Int,
           by = (IF e = "accepted" THEN 1 ELSE -1),
           Report(s, e, by), num_clients' = num_clients,
           Cardinality(Connected(s)') = Cardinality(Connected(s)) + by,
           \A t \in Sockets : t # s => Connected(t)' = Connected(t)
    PROVE  /\ events' \in [Sockets -> Seq(EventNames)]
           /\ missed' \in [Sockets -> Int]
           /\ CountFollowsEvents'
<1>1. \A t \in Sockets : /\ events[t] \in Seq(EventNames) /\ Net(events[t]) \in Int
                         /\ missed[t] \in Int /\ num_clients[t] \in Int
                         /\ Cardinality(Connected(t)) \in Nat
  BY ConnectedFinite, NetAppend DEF ZmqInv, ZmqTypeOK, EventNames
<1>2. \A t \in Sockets :
        num_clients[t] + Net(events[t]) + missed[t] = Cardinality(Connected(t))
  BY DEF ZmqInv, CountFollowsEvents
<1>3. CASE monitoring[s]
  <2>1. events' = [events EXCEPT ![s] = Append(@, e)] /\ missed' = missed
    BY <1>3 DEF Report
  <2>2. Append(events[s], e) \in Seq(EventNames)
    BY <1>1, AppendProperties
  <2>3. events'[s] = Append(events[s], e) /\ \A t \in Sockets : t # s => events'[t] = events[t]
    BY <2>1 DEF ZmqInv
  <2>4. Net(events'[s]) = Net(events[s]) + by
    BY <1>1, <2>3, NetAppend
  <2>5. num_clients'[s] + Net(events'[s]) + missed'[s] = Cardinality(Connected(s)')
    BY <1>1, <1>2, <2>1, <2>4
  <2>6. ASSUME NEW t \in Sockets, t # s
        PROVE  num_clients'[t] + Net(events'[t]) + missed'[t] = Cardinality(Connected(t)')
    BY <1>2, <2>1, <2>3, <2>6
  <2>7. CountFollowsEvents'
    BY <2>5, <2>6 DEF CountFollowsEvents
  <2> QED
    BY <2>1, <2>2, <2>7 DEF ZmqInv
<1>4. CASE ~monitoring[s]
  <2>1. missed' = [missed EXCEPT ![s] = @ + by] /\ events' = events
    BY <1>4 DEF Report
  <2>2. missed'[s] = missed[s] + by /\ \A t \in Sockets : t # s => missed'[t] = missed[t]
    BY <2>1 DEF ZmqInv
  <2>3. num_clients'[s] + Net(events'[s]) + missed'[s] = Cardinality(Connected(s)')
    BY <1>1, <1>2, <2>1, <2>2
  <2>4. ASSUME NEW t \in Sockets, t # s
        PROVE  num_clients'[t] + Net(events'[t]) + missed'[t] = Cardinality(Connected(t)')
    BY <1>2, <2>1, <2>2, <2>4
  <2>5. CountFollowsEvents'
    BY <2>3, <2>4 DEF CountFollowsEvents
  <2> QED
    BY <1>1, <2>1, <2>5 DEF ZmqInv
<1> QED
  BY <1>3, <1>4

\* A client that is accepted is one more.
LEMMA AcceptKeepsInv ==
    ASSUME ZmqInv, NEW c \in Clients, Accept(c)
    PROVE  ZmqInv'
<1> DEFINE s == SocketOf[c]
<1>1. s \in Sockets /\ peer \in [Clients -> {"off", "accepted", "attached"}]
  BY SocketOfAssumption DEF ZmqInv, ZmqTypeOK
<1>2. Connected(s)' = Connected(s) \cup {c} /\ c \notin Connected(s)
  BY <1>1 DEF Accept, Connected, Of
<1>3. \A t \in Sockets : t # s => Connected(t)' = Connected(t)
  BY <1>1 DEF Accept, Connected, Of
<1>4. Cardinality(Connected(s)') = Cardinality(Connected(s)) + 1
  BY <1>2, ConnectedFinite, FS_AddElement
<1> HIDE DEF s
<1>5. Report(s, "accepted", 1) /\ num_clients' = num_clients
  BY DEF Accept, s
<1>6. /\ events' \in [Sockets -> Seq(EventNames)]
      /\ missed' \in [Sockets -> Int]
      /\ CountFollowsEvents'
  BY <1>1, <1>3, <1>4, <1>5, ReportKeepsInv DEF EventNames
<1>7. ZmqTypeOK'
  <2>1. \A t \in Sockets : \A i \in DOMAIN events'[t] : events'[t][i] \in {"accepted", "disconnected"}
    BY <1>6, LenProperties DEF EventNames
  <2> QED
    BY <1>1, <2>1 DEF ZmqInv, ZmqTypeOK, Accept
<1> QED
  BY <1>6, <1>7 DEF ZmqInv

\* A client that disconnects is one less.
LEMMA DisconnectKeepsInv ==
    ASSUME ZmqInv, NEW c \in Clients, Disconnect(c)
    PROVE  ZmqInv'
<1> DEFINE s == SocketOf[c]
<1>1. s \in Sockets /\ peer \in [Clients -> {"off", "accepted", "attached"}]
  BY SocketOfAssumption DEF ZmqInv, ZmqTypeOK
<1>2. Connected(s)' = Connected(s) \ {c} /\ c \in Connected(s)
  BY <1>1 DEF Disconnect, Connected, Of
<1>3. \A t \in Sockets : t # s => Connected(t)' = Connected(t)
  BY <1>1 DEF Disconnect, Connected, Of
<1>4. Cardinality(Connected(s)') = Cardinality(Connected(s)) + (-1)
  <2>1. Cardinality(Connected(s) \ {c}) = Cardinality(Connected(s)) - 1
    BY <1>2, ConnectedFinite, FS_RemoveElement
  <2> QED
    BY <1>2, <2>1, ConnectedFinite
<1> HIDE DEF s
<1>5. Report(s, "disconnected", -1) /\ num_clients' = num_clients
  BY DEF Disconnect, s
<1>6. /\ events' \in [Sockets -> Seq(EventNames)]
      /\ missed' \in [Sockets -> Int]
      /\ CountFollowsEvents'
  BY <1>1, <1>3, <1>4, <1>5, ReportKeepsInv DEF EventNames
<1>7. ZmqTypeOK'
  <2>1. \A t \in Sockets : \A i \in DOMAIN events'[t] : events'[t][i] \in {"accepted", "disconnected"}
    BY <1>6, LenProperties DEF EventNames
  <2> QED
    BY <1>1, <2>1, HwmAssumption DEF ZmqInv, ZmqTypeOK, Disconnect
<1> QED
  BY <1>6, <1>7 DEF ZmqInv

\* Handling an event moves it from the queue into the count.
LEMMA HandleKeepsInv ==
    ASSUME ZmqInv, NEW s \in Sockets, NEW e \in EventNames, NEW by \in Int,
           by = (IF e = "accepted" THEN 1 ELSE -1), HandleEvent(s, e, by)
    PROVE  ZmqInv'
<1>1. \A t \in Sockets : /\ events[t] \in Seq(EventNames) /\ Net(events[t]) \in Int
                         /\ missed[t] \in Int /\ num_clients[t] \in Int
                         /\ num_clients[t] + Net(events[t]) + missed[t]
                              = Cardinality(Connected(t))
  BY NetAppend DEF ZmqInv, ZmqTypeOK, EventNames, CountFollowsEvents
<1>2. /\ events[s] # <<>> /\ Head(events[s]) = e
      /\ events'[s] = Tail(events[s]) /\ num_clients'[s] = num_clients[s] + by
      /\ \A t \in Sockets : t # s => events'[t] = events[t] /\ num_clients'[t] = num_clients[t]
      /\ events' = [events EXCEPT ![s] = Tail(@)]
      /\ num_clients' = [num_clients EXCEPT ![s] = @ + by]
      /\ missed' = missed /\ peer' = peer
  BY DEF HandleEvent, ZmqInv, ZmqTypeOK
<1>3. Tail(events[s]) \in Seq(EventNames) /\ Net(Tail(events[s])) = Net(events[s]) - by
  BY <1>1, <1>2, NetTail, HeadTailProperties
<1>4. \A t \in Sockets : Connected(t)' = Connected(t)
  BY <1>2 DEF Connected, Of
<1>5. num_clients'[s] + Net(events'[s]) + missed'[s] = Cardinality(Connected(s)')
  BY <1>1, <1>2, <1>3, <1>4
<1>6. CountFollowsEvents'
  BY <1>1, <1>2, <1>4, <1>5 DEF CountFollowsEvents
<1>7. events' \in [Sockets -> Seq(EventNames)]
  BY <1>2, <1>3 DEF ZmqInv
<1>8. ZmqTypeOK'
  <2>1. \A t \in Sockets : \A i \in DOMAIN events'[t] : events'[t][i] \in {"accepted", "disconnected"}
    BY <1>7, LenProperties DEF EventNames
  <2>2. num_clients' \in [Sockets -> Int]
    BY <1>1, <1>2 DEF ZmqInv, ZmqTypeOK
  <2> QED
    BY <2>1, <2>2 DEF ZmqInv, ZmqTypeOK, HandleEvent
<1> QED
  BY <1>2, <1>6, <1>7, <1>8 DEF ZmqInv

\* A step that changes neither who is connected nor counts and events keeps the
\* rest of the invariant.
LEMMA CountsUnchanged ==
    ASSUME ZmqInv, UNCHANGED <<events, num_clients, missed>>,
           \A s \in Sockets : Connected(s)' = Connected(s)
    PROVE  /\ events' \in [Sockets -> Seq(EventNames)]
           /\ missed' \in [Sockets -> Int]
           /\ CountFollowsEvents'
BY DEF ZmqInv, CountFollowsEvents

\* What libzmq and the monitor threads do keeps the invariant.
LEMMA EnvironmentKeepsInv ==
    ASSUME ZmqInv, Environment
    PROVE  ZmqInv'
<1>1. ASSUME NEW c \in Clients, Accept(c) PROVE ZmqInv'
  BY <1>1, AcceptKeepsInv
<1>2. ASSUME NEW c \in Clients, Attach(c) PROVE ZmqInv'
  <2>1. \A s \in Sockets : Connected(s)' = Connected(s)
    BY <1>2 DEF Attach, Connected, Of, ZmqInv, ZmqTypeOK
  <2>2. ZmqTypeOK'
    BY <1>2 DEF Attach, ZmqInv, ZmqTypeOK
  <2> QED
    BY <1>2, <2>1, <2>2, CountsUnchanged DEF Attach, ZmqInv
<1>3. ASSUME NEW c \in Clients, Disconnect(c) PROVE ZmqInv'
  BY <1>3, DisconnectKeepsInv
<1>4. ASSUME NEW c \in Clients, Receive(c) PROVE ZmqInv'
  <2>1. \A s \in Sockets : Connected(s)' = Connected(s)
    BY <1>4 DEF Receive, Connected, Of
  <2>2. ZmqTypeOK'
    <3>1. pipe' \in [Clients -> 0..Hwm] /\ \A d \in Clients : pipe'[d] > 0 => pipe[d] > 0
      BY <1>4, HwmAssumption DEF Receive, ZmqInv, ZmqTypeOK
    <3> QED
      BY <1>4, <3>1 DEF Receive, ZmqInv, ZmqTypeOK
  <2> QED
    BY <1>4, <2>1, <2>2, CountsUnchanged DEF Receive, ZmqInv
<1>5. ASSUME NEW s \in Sockets, MonitorStarts(s) PROVE ZmqInv'
  <2>1. \A t \in Sockets : Connected(t)' = Connected(t)
    BY <1>5 DEF MonitorStarts, connectionVars, Connected, Of
  <2>2. ZmqTypeOK'
    BY <1>5 DEF MonitorStarts, connectionVars, ZmqInv, ZmqTypeOK
  <2> QED
    BY <1>5, <2>1, <2>2, CountsUnchanged DEF MonitorStarts, connectionVars, ZmqInv
<1>6. ASSUME NEW s \in Sockets, on_event_accepted(s) PROVE ZmqInv'
  BY <1>6, HandleKeepsInv DEF on_event_accepted, EventNames
<1>7. ASSUME NEW s \in Sockets, on_event_disconnected(s) PROVE ZmqInv'
  BY <1>7, HandleKeepsInv DEF on_event_disconnected, EventNames
<1> QED
  BY <1>1, <1>2, <1>3, <1>4, <1>5, <1>6, <1>7 DEF Environment, Network, Monitor

\* So does handing a message to clients that have room.
LEMMA HandKeepsInv ==
    ASSUME ZmqInv, NEW cs, \A c \in cs : HasRoom(c), NEW m, HandTo(cs, m)
    PROVE  ZmqInv'
<1>1. \A s \in Sockets : Connected(s)' = Connected(s)
  BY DEF HandTo, Connected, Of
<1>2. ZmqTypeOK'
  <2>1. pipe' \in [Clients -> 0..Hwm]
    BY HwmAssumption DEF HandTo, HasRoom, ZmqInv, ZmqTypeOK
  <2>2. \A d \in Clients : pipe'[d] > 0 => peer[d] = "attached"
    BY HwmAssumption DEF HandTo, HasRoom, ZmqInv, ZmqTypeOK
  <2> QED
    BY <2>1, <2>2 DEF HandTo, ZmqInv, ZmqTypeOK
<1> QED
  BY <1>1, <1>2, CountsUnchanged DEF HandTo, ZmqInv

\* At the start nobody is connected.
LEMMA ZmqInitInv == ZmqInit => ZmqInv
<1> SUFFICES ASSUME ZmqInit PROVE ZmqInv
  OBVIOUS
<1>1. \A s \in Sockets : Connected(s) = {}
  BY DEF ZmqInit, Connected, Of
<1>2. Cardinality({}) = 0
  BY FS_EmptySet
<1>3. CountFollowsEvents
  <2> SUFFICES ASSUME NEW s \in Sockets
               PROVE  num_clients[s] + Net(events[s]) + missed[s] = Cardinality(Connected(s))
    BY DEF CountFollowsEvents
  <2>1. num_clients[s] = 0 /\ events[s] = <<>> /\ missed[s] = 0
    BY DEF ZmqInit
  <2>2. Net(events[s]) = 0 /\ Cardinality(Connected(s)) = 0
    BY <1>1, <1>2, <2>1, NetEmpty
  <2> QED
    BY <2>1, <2>2
<1> QED
  BY <1>3, HwmAssumption DEF ZmqInit, ZmqInv, ZmqTypeOK

\* A count of no clients is the truth about a socket whose monitor thread is not
\* behind: fewer than 2^32 clients cannot be taken for none.
LEMMA SeesNobody ==
    ASSUME ZmqInv, NEW s \in Sockets, ~SeesClients(s), events[s] = <<>>, missed[s] = 0
    PROVE  Attached(s) = {}
<1>1. num_clients[s] \in Int /\ num_clients[s] + 0 + 0 = Cardinality(Connected(s))
  BY NetEmpty DEF ZmqInv, ZmqTypeOK, CountFollowsEvents
<1>2. num_clients[s] \in 0..(Uint32 - 1)
  BY <1>1, ConnectedFinite, Uint32Assumption, ClientsAssumption, FS_CardinalityType
<1>3. (num_clients[s] % Uint32) = num_clients[s]
  BY <1>2, Uint32Assumption
<1>4. Cardinality(Connected(s)) = 0
  BY <1>1, <1>2, <1>3 DEF SeesClients, get_num_connected_clients
<1>5. Connected(s) = {}
  BY <1>4, ConnectedFinite, FS_EmptySet
<1> QED
  BY <1>5 DEF Connected, Attached

-----------------------------------------------------------------------------
(***************************************************************************)
(* What the consumers are handed.                                          *)
(***************************************************************************)

\* What the consumer thread has handed out: messages it took out of the queue, in
\* that order; and the message it is sending, the last it took, is not among what
\* it still has to hand it to.
HandedInv ==
    /\ stage \in Stages
    /\ cpc # "send" => stage = "push"
    /\ handed \in [Clients -> Seq(Messages)]
    /\ cpc = "send" => taken # <<>> /\ cmsg = taken[Len(taken)]
    /\ \A c \in Clients : \A i \in DOMAIN handed[c] :
          \E k \in DOMAIN taken : handed[c][i] = taken[k]
    /\ \A c \in Clients : \A i, j \in DOMAIN handed[c] : \A k, l \in DOMAIN taken :
          i < j /\ handed[c][i] = taken[k] /\ handed[c][j] = taken[l] => k < l
    /\ cpc = "send" =>
          \A c \in Clients : \A i \in DOMAIN handed[c] :
              SocketOf[c] = Pub \/ stage \in {"push", "pushing"} => handed[c][i] # cmsg
    /\ OneConsumerPerMessage

\* The invariant of the composed topic.
TopicInv == QueueInv /\ NumbersInv /\ ZmqInv /\ HandedInv

\* No message was taken out of the queue twice.
TakenOnce == \A i, j \in DOMAIN taken : taken[i] = taken[j] => i = j

\* The consumer thread takes no message twice.
LEMMA TakenDistinct ==
    QueueInv /\ NumbersInv => TakenOnce
<1> SUFFICES ASSUME QueueInv, NumbersInv,
                    NEW i \in DOMAIN taken, NEW j \in DOMAIN taken, taken[i] = taken[j]
             PROVE  i = j
  BY DEF TakenOnce
<1>1. /\ taken \in Seq(Messages) /\ queue \in Seq(Messages) /\ Pending \in Seq(Messages)
  <2>1. Holding => pmsg \in Messages
    BY DEF Holding, QueueInv, QueueTypeOK
  <2> QED
    BY <2>1 DEF Pending, QueueInv, QueueTypeOK
<1>2. /\ taken \o queue \in Seq(Messages) /\ Len(taken) \in Nat /\ Len(queue) \in Nat
      /\ DOMAIN taken = 1..Len(taken)
      /\ Len(taken \o queue) = Len(taken) + Len(queue)
      /\ \A k \in DOMAIN taken : (taken \o queue)[k] = taken[k]
  BY <1>1, ConcatProperties, LenProperties
<1>3. accepted = (taken \o queue) \o Pending
  BY DEF QueueInv, Fifo
<1>4. /\ Len(accepted) = Len(taken) + Len(queue) + Len(Pending) /\ Len(Pending) \in Nat
      /\ \A k \in DOMAIN taken : accepted[k] = taken[k]
  BY <1>1, <1>2, <1>3, ConcatProperties, LenProperties
<1>5. i \in DOMAIN accepted /\ j \in DOMAIN accepted
  BY <1>2, <1>4, AcceptedElements DEF QueueInv
<1> QED
  BY <1>4, <1>5, AcceptedDistinct DEF QueueInv

\* What was handed out are messages, in sequences.
LEMMA HandedElements ==
    ASSUME handed \in [Clients -> Seq(Messages)], NEW c \in Clients
    PROVE  /\ handed[c] \in Seq(Messages)
           /\ Len(handed[c]) \in Nat /\ DOMAIN handed[c] = 1..Len(handed[c])
BY LenProperties

\* Taking the next message out of the queue.
LEMMA DequeueKeepsHanded ==
    ASSUME TakenOnce', QueueTypeOK, HandedInv, Dequeue,
           UNCHANGED <<zmqVars, stage>>
    PROVE  HandedInv'
<1> DEFINE m == Head(queue)
           n == Len(taken)
<1>1. /\ taken \in Seq(Messages) /\ m \in Messages /\ n \in Nat
      /\ taken' = Append(taken, m) /\ taken' \in Seq(Messages)
      /\ cpc' = "send" /\ cmsg' = m /\ handed' = handed /\ stage' = stage /\ stage = "push"
  BY HeadTailProperties, AppendProperties, LenProperties
     DEF Dequeue, QueueTypeOK, HandedInv, zmqVars
<1>2. /\ DOMAIN taken = 1..n /\ Len(taken') = n + 1 /\ DOMAIN taken' = 1..n + 1
      /\ \A k \in 1..n : taken'[k] = taken[k]
      /\ taken'[n + 1] = m
  BY <1>1, AppendProperties, LenProperties
<1> HIDE DEF m, n
<1>3. \A k \in DOMAIN taken : taken[k] # m
  <2> SUFFICES ASSUME NEW k \in DOMAIN taken, taken[k] = m PROVE FALSE
    OBVIOUS
  <2>1. k \in 1..n /\ k \in DOMAIN taken' /\ n + 1 \in DOMAIN taken' /\ taken'[k] = taken'[n + 1]
    BY <1>1, <1>2
  <2>2. k = n + 1
    BY <2>1 DEF TakenOnce
  <2> QED
    BY <1>1, <2>1, <2>2
<1>4. \A c \in Clients : \A i \in DOMAIN handed[c] :
         \E k \in DOMAIN taken : handed[c][i] = taken[k]
  BY DEF HandedInv
<1>5. \A c \in Clients : \A i \in DOMAIN handed[c] : handed[c][i] # m
  BY <1>3, <1>4
<1>6. (\A c \in Clients : \A i, j \in DOMAIN handed[c] : \A k, l \in DOMAIN taken :
          i < j /\ handed[c][i] = taken[k] /\ handed[c][j] = taken[l] => k < l)'
  <2> SUFFICES ASSUME NEW c \in Clients, NEW i \in DOMAIN handed[c], NEW j \in DOMAIN handed[c],
                      NEW k \in DOMAIN taken', NEW l \in DOMAIN taken',
                      i < j, handed[c][i] = taken'[k], handed[c][j] = taken'[l]
               PROVE  k < l
    BY <1>1
  <2>1. k # n + 1 /\ l # n + 1
    BY <1>2, <1>5
  <2>2. k \in DOMAIN taken /\ l \in DOMAIN taken /\ taken'[k] = taken[k] /\ taken'[l] = taken[l]
    BY <1>1, <1>2, <2>1
  <2> QED
    BY <2>2 DEF HandedInv
<1>7. (\A c \in Clients : \A i \in DOMAIN handed[c] :
          \E k \in DOMAIN taken : handed[c][i] = taken[k])'
  BY <1>1, <1>2, <1>4
<1>8. taken' # <<>> /\ cmsg' = taken'[Len(taken')]
  BY <1>1, <1>2
<1>9. OneConsumerPerMessage'
  BY <1>1 DEF HandedInv, OneConsumerPerMessage, Of
<1> QED
  BY <1>1, <1>5, <1>6, <1>7, <1>8, <1>9, SMTT(30) DEF HandedInv

\* Handing the message being sent to clients that do not have it yet.
LEMMA HandKeepsOrder ==
    ASSUME QueueInv, NumbersInv, HandedInv, cpc = "send",
           NEW cs \in SUBSET Clients, HandTo(cs, cmsg), taken' = taken,
           \A c \in cs : \A i \in DOMAIN handed[c] : handed[c][i] # cmsg
    PROVE  /\ handed' \in [Clients -> Seq(Messages)]
           /\ \A c \in Clients \ cs : handed'[c] = handed[c]
           /\ \A c \in cs : /\ handed'[c] = Append(handed[c], cmsg)
                            /\ DOMAIN handed'[c] = 1..Len(handed[c]) + 1
                            /\ \A i \in 1..Len(handed[c]) : handed'[c][i] = handed[c][i]
                            /\ handed'[c][Len(handed[c]) + 1] = cmsg
           /\ \A c \in Clients : \A i \in DOMAIN handed'[c] :
                 \E k \in DOMAIN taken : handed'[c][i] = taken[k]
           /\ \A c \in Clients : \A i, j \in DOMAIN handed'[c] : \A k, l \in DOMAIN taken :
                 i < j /\ handed'[c][i] = taken[k] /\ handed'[c][j] = taken[l] => k < l
<1> DEFINE n == Len(taken)
<1>1. /\ n \in Nat \ {0} /\ DOMAIN taken = 1..n /\ cmsg = taken[n] /\ cmsg \in Messages
      /\ taken \in Seq(Messages)
  BY LenProperties, EmptySeq, NoMsgAssumption DEF HandedInv, QueueInv, QueueTypeOK
<1>2. handed' = [c \in Clients |-> IF c \in cs THEN Append(handed[c], cmsg) ELSE handed[c]]
  BY DEF HandTo
<1>3. handed \in [Clients -> Seq(Messages)]
  BY DEF HandedInv
<1>4. handed' \in [Clients -> Seq(Messages)]
  <2>1. \A c \in Clients : Append(handed[c], cmsg) \in Seq(Messages)
    BY <1>1, <1>3, AppendProperties
  <2> QED
    BY <1>2, <1>3, <2>1
<1>5. \A c \in Clients \ cs : handed'[c] = handed[c]
  BY <1>2
<1>6. ASSUME NEW c \in cs
      PROVE  /\ handed'[c] = Append(handed[c], cmsg)
             /\ DOMAIN handed'[c] = 1..Len(handed[c]) + 1
             /\ \A i \in 1..Len(handed[c]) : handed'[c][i] = handed[c][i]
             /\ handed'[c][Len(handed[c]) + 1] = cmsg
             /\ Len(handed[c]) \in Nat /\ DOMAIN handed[c] = 1..Len(handed[c])
  <2>1. handed[c] \in Seq(Messages) /\ handed'[c] = Append(handed[c], cmsg)
    BY <1>2, <1>3
  <2>2. handed'[c] \in Seq(Messages) /\ Len(handed'[c]) = Len(handed[c]) + 1
    BY <1>1, <2>1, AppendProperties
  <2> QED
    BY <1>1, <2>1, <2>2, AppendProperties, LenProperties
<1>7. ASSUME NEW c \in Clients, NEW i \in DOMAIN handed'[c]
      PROVE  \E k \in DOMAIN taken : handed'[c][i] = taken[k]
  <2>1. CASE c \notin cs
    BY <1>5, <2>1 DEF HandedInv
  <2>2. CASE c \in cs /\ i \in DOMAIN handed[c]
    BY <1>6, <2>2 DEF HandedInv
  <2>3. CASE c \in cs /\ i = Len(handed[c]) + 1
    BY <1>1, <1>6, <2>3
  <2> QED
    BY <1>6, <2>1, <2>2, <2>3
<1>8. ASSUME NEW c \in Clients, NEW i \in DOMAIN handed'[c], NEW j \in DOMAIN handed'[c],
             NEW k \in DOMAIN taken, NEW l \in DOMAIN taken,
             i < j, handed'[c][i] = taken[k], handed'[c][j] = taken[l]
      PROVE  k < l
  <2>1. CASE c \notin cs
    BY <1>5, <1>8, <2>1 DEF HandedInv
  <2>2. CASE c \in cs /\ j \in DOMAIN handed[c]
    <3>1. i \in DOMAIN handed[c]
      BY <1>6, <1>8, <2>2
    <3>2. handed'[c][i] = handed[c][i] /\ handed'[c][j] = handed[c][j]
      BY <1>6, <2>2, <3>1
    <3> QED
      BY <1>8, <2>2, <3>1, <3>2, ZenonT(30) DEF HandedInv
  <2>3. CASE c \in cs /\ j = Len(handed[c]) + 1
    <3>1. i \in DOMAIN handed[c] /\ handed'[c][i] = handed[c][i]
      BY <1>6, <1>8, <2>3
    <3>2. taken[k] # cmsg
      BY <1>8, <2>3, <3>1
    <3>3. k # n
      BY <1>1, <3>2
    <3>4. taken[l] = taken[n] /\ n \in DOMAIN taken
      BY <1>1, <1>6, <1>8, <2>3
    <3>5. l = n
      BY <3>4, TakenDistinct DEF TakenOnce
    <3> QED
      BY <1>1, <3>3, <3>5
  <2> QED
    BY <1>6, <2>1, <2>2, <2>3
<1> QED
  BY <1>4, <1>5, <1>6, <1>7, <1>8

\* Handing the message to one puller keeps HandedInv ...
LEMMA SendPushKeepsHanded ==
    ASSUME QueueInv, NumbersInv, HandedInv, SendPush
    PROVE  HandedInv'
<1>1. PICK c \in Attached(Push) : HandTo({c}, cmsg)
  BY DEF SendPush, PushTo
<1>2. /\ cpc = "send" /\ stage = "pushing" /\ stage' = "pub"
      /\ UNCHANGED <<cpc, cmsg, taken>>
  BY DEF SendPush, At, GoTo, queueVars
<1>3. c \in Clients /\ SocketOf[c] = Push
  BY DEF Attached, Of
<1>4. \A d \in Clients : \A i \in DOMAIN handed[d] : handed[d][i] # cmsg
  BY <1>2 DEF HandedInv
<1>5. /\ handed' \in [Clients -> Seq(Messages)]
      /\ \A d \in Clients \ {c} : handed'[d] = handed[d]
      /\ DOMAIN handed'[c] = 1..Len(handed[c]) + 1
      /\ \A i \in 1..Len(handed[c]) : handed'[c][i] = handed[c][i]
      /\ handed'[c][Len(handed[c]) + 1] = cmsg
      /\ \A d \in Clients : \A i \in DOMAIN handed'[d] :
            \E k \in DOMAIN taken : handed'[d][i] = taken[k]
      /\ \A d \in Clients : \A i, j \in DOMAIN handed'[d] : \A k, l \in DOMAIN taken :
            i < j /\ handed'[d][i] = taken[k] /\ handed'[d][j] = taken[l] => k < l
  BY <1>1, <1>2, <1>3, <1>4, HandKeepsOrder
<1>6. Len(handed[c]) \in Nat /\ DOMAIN handed[c] = 1..Len(handed[c])
  BY <1>3, HandedElements DEF HandedInv
<1>7. OneConsumerPerMessage'
  <2> SUFFICES ASSUME NEW d \in Of(Push), NEW e \in Of(Push),
                      NEW i \in DOMAIN handed'[d], NEW j \in DOMAIN handed'[e],
                      handed'[d][i] = handed'[e][j]
               PROVE  d = e /\ i = j
    BY DEF OneConsumerPerMessage, Of
  <2> DEFINE New(x, k) == x = c /\ k = Len(handed[c]) + 1
  <2>1. ASSUME NEW x \in Of(Push), NEW k \in DOMAIN handed'[x]
        PROVE  \/ New(x, k) /\ handed'[x][k] = cmsg
               \/ k \in DOMAIN handed[x] /\ handed'[x][k] = handed[x][k] /\ handed'[x][k] # cmsg
    <3>1. CASE x # c
      BY <1>4, <1>5, <3>1 DEF Of
    <3>2. CASE x = c /\ k \in DOMAIN handed[c]
      BY <1>3, <1>4, <1>5, <1>6, <3>2
    <3>3. CASE x = c /\ k = Len(handed[c]) + 1
      BY <1>5, <3>3
    <3> QED
      BY <1>5, <1>6, <3>1, <3>2, <3>3
  <2>2. CASE New(d, i)
    <3>1. handed'[d][i] = cmsg
      BY <1>5, <2>2
    <3>2. New(e, j)
      BY <2>1, <3>1
    <3> QED
      BY <2>2, <3>2
  <2>3. CASE ~New(d, i)
    <3>1. /\ i \in DOMAIN handed[d] /\ j \in DOMAIN handed[e]
          /\ handed[d][i] = handed[e][j]
      BY <2>1, <2>3
    <3> QED
      BY <3>1 DEF HandedInv, OneConsumerPerMessage
  <2> QED
    BY <2>2, <2>3
<1>8. \A d \in Clients : SocketOf[d] = Pub => d # c
  BY <1>3, SocketsAssumption
<1>9. (cpc = "send" =>
          \A d \in Clients : \A i \in DOMAIN handed[d] :
              SocketOf[d] = Pub \/ stage \in {"push", "pushing"} => handed[d][i] # cmsg)'
  <2>1. \A d \in Clients \ {c} : \A i \in DOMAIN handed'[d] : handed'[d][i] # cmsg
    BY <1>4, <1>5
  <2> QED
    BY <1>2, <1>8, <2>1
<1> QED
  BY <1>2, <1>5, <1>7, <1>9 DEF HandedInv, Stages

\* ... and publishing it to subscribers.
LEMMA SendPubKeepsHanded ==
    ASSUME QueueInv, NumbersInv, HandedInv, SendPub
    PROVE  HandedInv'
<1> DEFINE cs == {c \in Attached(Pub) : HasRoom(c)}
<1>1. HandTo(cs, cmsg)
  BY DEF SendPub, PubTo
<1>2. cpc = "send" /\ stage' = "push" /\ cpc' = "poll" /\ taken' = taken
  BY DEF SendPub, At, NextMessage, Sent
<1>3. cs \in SUBSET Clients /\ \A c \in cs : SocketOf[c] = Pub
  BY DEF Attached, Of
<1> HIDE DEF cs
<1>4. \A c \in cs : \A i \in DOMAIN handed[c] : handed[c][i] # cmsg
  BY <1>2, <1>3 DEF HandedInv
<1>5. /\ handed' \in [Clients -> Seq(Messages)]
      /\ \A d \in Clients \ cs : handed'[d] = handed[d]
      /\ \A d \in Clients : \A i \in DOMAIN handed'[d] :
            \E k \in DOMAIN taken : handed'[d][i] = taken[k]
      /\ \A d \in Clients : \A i, j \in DOMAIN handed'[d] : \A k, l \in DOMAIN taken :
            i < j /\ handed'[d][i] = taken[k] /\ handed'[d][j] = taken[l] => k < l
  BY <1>1, <1>2, <1>3, <1>4, HandKeepsOrder
<1>6. OneConsumerPerMessage'
  <2>1. \A d \in Of(Push) : d \in Clients \ cs
    BY <1>3, SocketsAssumption DEF Of
  <2> QED
    BY <1>5, <2>1 DEF HandedInv, OneConsumerPerMessage, Of
<1> QED
  BY <1>2, <1>5, <1>6 DEF HandedInv, Stages

\* A step that hands out nothing and leaves the consumer thread's message alone.
LEMMA OthersKeepHanded ==
    ASSUME HandedInv, UNCHANGED <<handed, taken>>, stage' \in Stages,
           \/ UNCHANGED <<cpc, cmsg>> /\ cpc = "send"
              /\ (stage' \in {"push", "pushing"} => stage \in {"push", "pushing"})
           \/ cpc' # "send" /\ stage' = "push"
    PROVE  HandedInv'
BY DEF HandedInv, OneConsumerPerMessage, Of

\* Every step keeps HandedInv.
LEMMA StepHanded ==
    ASSUME QueueInv, NumbersInv, TakenOnce', HandedInv, [TopicNext]_topicVars
    PROVE  HandedInv'
<1>1. CASE QueueStep
  <2>1. CASE Dequeue
    BY <1>1, <2>1, DequeueKeepsHanded DEF QueueStep, QueueInv
  <2>2. CASE \/ \E p \in Publishers : Publish(p)
             \/ Producer
    <3>1. UNCHANGED <<handed, taken, cpc, cmsg, stage>>
      BY <1>1, <2>2 DEF QueueStep, Publish, Producer, ReadEmpty, ReadMessage, ReadFails,
                        TryEnqueue, CountEnqueued, CountEarly, InsertLate, consumerVars,
                        zmqVars
    <3> QED
      BY <3>1, OthersKeepHanded DEF HandedInv
  <2>3. CASE Poll \/ DequeueEmpty
    <3>1. UNCHANGED <<handed, taken, cmsg, stage>> /\ cpc # "send" /\ cpc' # "send"
      BY <1>1, <2>3 DEF QueueStep, Poll, DequeueEmpty, zmqVars
    <3> QED
      BY <3>1, OthersKeepHanded DEF HandedInv
  <2> QED
    BY <1>1, <2>1, <2>2, <2>3 DEF QueueStep
<1>2. CASE CheckPush \/ SkipPush \/ FailPush \/ CheckPub
  <2>1. /\ UNCHANGED <<handed, taken, cpc, cmsg>> /\ cpc = "send" /\ stage' \in Stages
        /\ stage' \in {"push", "pushing"} => stage \in {"push", "pushing"}
    BY <1>2 DEF CheckPush, SkipPush, FailPush, CheckPub, At, GoTo, queueVars, zmqVars, Stages
  <2> QED
    BY <2>1, OthersKeepHanded
<1>3. CASE SendPush
  BY <1>3, SendPushKeepsHanded
<1>4. CASE SendPub
  BY <1>4, SendPubKeepsHanded
<1>5. CASE SkipPub \/ FailPub
  <2>1. UNCHANGED <<handed, taken>> /\ cpc' = "poll" /\ stage' = "push"
    BY <1>5 DEF SkipPub, FailPub, NextMessage, Sent, zmqVars
  <2> QED
    BY <2>1, OthersKeepHanded DEF Stages
<1>6. CASE Environment /\ UNCHANGED <<queueVars, stage>>
  <2>1. handed' = handed
    BY <1>6 DEF Environment, Network, Monitor, Accept, Attach, Disconnect, Receive,
                MonitorStarts, on_event_accepted, on_event_disconnected, HandleEvent
  <2>2. UNCHANGED <<taken, cpc, cmsg, stage>>
    BY <1>6 DEF queueVars
  <2> QED
    BY <2>1, <2>2, OthersKeepHanded DEF HandedInv
<1>7. CASE UNCHANGED topicVars
  <2>1. UNCHANGED <<handed, taken, cpc, cmsg, stage>>
    BY <1>7 DEF topicVars, queueVars, zmqVars
  <2> QED
    BY <2>1, OthersKeepHanded DEF HandedInv
<1> QED
  BY <1>1, <1>2, <1>3, <1>4, <1>5, <1>6, <1>7 DEF TopicNext, Send

\* Every step keeps ZmqInv.
LEMMA StepZmq ==
    ASSUME ZmqInv, [TopicNext]_topicVars
    PROVE  ZmqInv'
<1>1. CASE UNCHANGED zmqVars
  BY <1>1 DEF zmqVars, ZmqInv, ZmqTypeOK, CountFollowsEvents, Connected, Of
<1>2. CASE SendPush
  <2>1. PICK c \in Attached(Push) : HasRoom(c) /\ HandTo({c}, cmsg)
    BY <1>2 DEF SendPush, PushTo
  <2> QED
    BY <2>1, HandKeepsInv
<1>3. CASE SendPub
  BY <1>3, HandKeepsInv DEF SendPub, PubTo
<1>4. CASE Environment
  BY <1>4, EnvironmentKeepsInv
<1> QED
  BY <1>1, <1>2, <1>3, <1>4
     DEF TopicNext, QueueStep, Send, CheckPush, SkipPush, FailPush, CheckPub, SkipPub,
         FailPub, topicVars

\* At the start nothing has been handed out.
LEMMA TopicInitInv == TopicInit => TopicInv
<1> SUFFICES ASSUME TopicInit PROVE TopicInv
  OBVIOUS
<1>1. QueueInv /\ NumbersInv /\ ZmqInv
  BY InitQueueInv, InitNumbers, ZmqInitInv DEF TopicInit
<1>2. HandedInv
  BY DEF TopicInit, QueueInit, ZmqInit, HandedInv, Stages, OneConsumerPerMessage, Of
<1> QED
  BY <1>1, <1>2 DEF TopicInv

\* The invariant of the composed topic is inductive.
LEMMA StepTopicInv == TopicInv /\ [TopicNext]_topicVars => TopicInv'
<1>1. (QueueInv /\ NumbersInv)' => TakenOnce'
  BY TakenDistinct, PTL
<1> SUFFICES ASSUME TopicInv, [TopicNext]_topicVars PROVE TopicInv'
  OBVIOUS
<1>2. QueueInv' /\ NumbersInv'
  BY TopicStepIsQueueStep, StepQueueInv, StepNumbers DEF TopicInv, QueueInv
<1> QED
  BY <1>1, <1>2, StepZmq, StepHanded DEF TopicInv

\* The invariant holds of every run of the composed topic.
THEOREM TopicInvariant == TopicSpec => []TopicInv
<1>1. QED
  BY TopicInitInv, StepTopicInv, PTL DEF TopicSpec

\* Type correctness.
THEOREM TopicTypeCorrect == TopicSpec => []TopicTypeOK
<1>1. TopicInv => TopicTypeOK
  BY DEF TopicInv, TopicTypeOK, QueueInv, ZmqInv, HandedInv
<1> QED
  BY <1>1, TopicInvariant, PTL

\* However clients come and go and monitor threads lag, num_clients_ is off by
\* exactly what is in the queue of events and what came before the monitor thread
\* registered (monitor_zmq.h: on_event_accepted, on_event_disconnected).
THEOREM CountHolds == TopicSpec => []CountFollowsEvents
<1>1. TopicInv => CountFollowsEvents
  BY DEF TopicInv, ZmqInv
<1> QED
  BY <1>1, TopicInvariant, PTL

\* No message is handed to two pullers, or to one of them twice (consumer.h: the
\* broker_queue branch of process_consumers).
THEOREM OneConsumerHolds == TopicSpec => []OneConsumerPerMessage
<1>1. TopicInv => OneConsumerPerMessage
  BY DEF TopicInv, HandedInv
<1> QED
  BY <1>1, TopicInvariant, PTL

\* Every puller and every subscriber is handed messages in the order in which the
\* producer thread read them, and none twice.
THEOREM HandedInOrderHolds == TopicSpec => []HandedInOrder
<1>1. TopicInv => HandedInOrder
  <2> SUFFICES ASSUME TopicInv, NEW c \in Clients,
                      NEW i \in DOMAIN handed[c], NEW j \in DOMAIN handed[c], i < j
               PROVE  Position(handed[c][i]) < Position(handed[c][j])
    BY DEF HandedInOrder
  <2>1. \A n \in DOMAIN handed[c] :
          Position(handed[c][n]) \in DOMAIN taken
            /\ taken[Position(handed[c][n])] = handed[c][n]
    BY DEF TopicInv, HandedInv, Position
  <2> QED
    BY <2>1 DEF TopicInv, HandedInv
<1> QED
  BY <1>1, TopicInvariant, PTL

\* A message is withheld from an attached puller only if the monitor thread is
\* behind: the count the consumer thread read was right but for that, and no
\* number of clients is taken for none (get_num_connected_clients: an int32_t
\* returned as a uint32_t).
THEOREM SkipsOnlyIfMonitorBehindHolds == TopicSpec => SkipsOnlyIfMonitorBehind
<1>1. TopicInv /\ [TopicNext]_topicVars =>
        [SkipPush => \/ Attached(Push) = {}
                     \/ events[Push] # <<>>
                     \/ missed[Push] # 0]_topicVars
  BY SeesNobody, SocketsAssumption DEF TopicInv, SkipPush
<1> QED
  BY <1>1, TopicInvariant, PTL DEF TopicSpec, SkipsOnlyIfMonitorBehind
=============================================================================
