-------------------------- MODULE DirectTopicProofs --------------------------
(***************************************************************************)
(* Proofs about DirectTopic, for any number of consumers and messages: its *)
(* type invariant; when its thread may end; that a payload goes to one     *)
(* consumer; and, as long as no read of the vector met a push_back, that   *)
(* frames are whole and no healthy consumer is passed over.  What the two  *)
(* threads do to the vector is StreamSocketsProofs'.                       *)
(***************************************************************************)
EXTENDS DirectTopic, StreamSocketsProofs

Untouched == turns = <<>> /\ \A c \in Peers : stream[c] = <<>>

\* EndsOnlyBeforeConsumer is not inductive: it needs that a thread that writes
\* has found a consumer socket, and that nothing was written before there was one.
DirectInv ==
    /\ wpc \in {"read", "store", "length", "payload", "ended"}
    /\ wpc \in {"length", "payload"} => joined
    /\ ~joined => Untouched
    /\ wpc = "ended" => Untouched

\* The initial states satisfy DirectInv.
LEMMA DirectInitInv == DirectInit => DirectInv
BY DEF DirectInit, DirectInv, Untouched

\* Steps that leave the topic's variables alone keep DirectInv.
LEMMA TopicUnchanged == DirectInv /\ UNCHANGED topicVars => DirectInv'
BY DEF DirectInv, Untouched, topicVars

\* A thread that writes a message does not end, and has been given a socket.
LEMMA SenderKeepsInv ==
    ASSUME DirectInv, Sender
    PROVE  DirectInv'
<1>1. CASE Store
  BY <1>1 DEF Store, DirectInv, Untouched
<1>2. CASE NoConsumers
  BY <1>2 DEF NoConsumers, DirectInv, Untouched
<1>3. CASE WriteLength
  <2>1. wpc = "length" /\ wpc' = "payload" /\ joined' = joined
    BY <1>3 DEF WriteLength
  <2> QED
    BY <2>1 DEF DirectInv
<1>4. CASE WritePayload
  <2>1. wpc = "payload" /\ wpc' = "read" /\ joined' = joined
    BY <1>4 DEF WritePayload, Written
  <2> QED
    BY <2>1 DEF DirectInv
<1>5. CASE FailPayload
  <2>1. wpc = "payload" /\ wpc' = "length" /\ joined' = joined
    BY <1>5 DEF FailPayload
  <2> QED
    BY <2>1 DEF DirectInv
<1> QED
  BY <1>1, <1>2, <1>3, <1>4, <1>5 DEF Sender

\* Every step keeps DirectInv.
LEMMA DirectNextInv == DirectInv /\ [DirectNext]_directVars => DirectInv'
<1> SUFFICES ASSUME DirectInv, [DirectNext]_directVars
             PROVE  DirectInv'
  OBVIOUS
<1>1. CASE SetConsumerSocket
  BY <1>1 DEF SetConsumerSocket, DirectInv, Untouched
<1>2. CASE ReadMessage
  BY <1>2 DEF ReadMessage, DirectInv, Untouched
<1>3. CASE Sender
  BY <1>3, SenderKeepsInv
<1>4. CASE Acceptor
  BY <1>4, TopicUnchanged DEF Acceptor
<1>5. CASE \E c \in Peers : (Connect(c) \/ Close(c)) /\ UNCHANGED topicVars
  BY <1>5, TopicUnchanged
<1>6. CASE UNCHANGED directVars
  BY <1>6, TopicUnchanged DEF directVars
<1> QED
  BY <1>1, <1>2, <1>3, <1>4, <1>5, <1>6 DEF DirectNext

\* For any number of consumers and messages and any races on the vector: the
\* producer thread of a direct topic ends only over a message that came before
\* there was a consumer socket (broker_storage.h: direct_write_consumer), never
\* over a write that failed.
THEOREM EndsOnlyBeforeConsumerHolds == DirectSpec => []EndsOnlyBeforeConsumer
<1>1. DirectInv => EndsOnlyBeforeConsumer
  BY DEF DirectInv, EndsOnlyBeforeConsumer, Untouched
<1> QED
  BY <1>1, DirectInitInv, DirectNextInv, PTL DEF DirectSpec
-----------------------------------------------------------------------------
(***************************************************************************)
(* OnePayloadPerMessage.                                                   *)
(***************************************************************************)

Part == [msg : Nat, part : {"length", "payload"}]

InHand == wpc \in {"store", "length", "payload"}

StreamsTyped ==
    /\ accepted \in Seq(Peers)
    /\ stream \in [Peers -> Seq(Part)]
    /\ published \in Nat
    /\ \A c \in Peers : \A i \in DOMAIN stream[c] : stream[c][i].msg <= published

\* What the writer needs to know before it writes a payload: no part of it is a
\* payload of the message in its hands.
NotYetWritten ==
    InHand => \A c \in Peers : \A i \in DOMAIN stream[c] :
                 stream[c][i] # [msg |-> published, part |-> "payload"]

\* OnePayloadPerMessage, for every number.
PayloadsDiffer ==
    \A c, d \in Peers : \A i \in DOMAIN stream[c], j \in DOMAIN stream[d] :
        /\ stream[c][i].part = "payload"
        /\ stream[c][i] = stream[d][j]
        => c = d /\ i = j

OneInv == StreamsTyped /\ NotYetWritten /\ PayloadsDiffer

\* A descriptor is the connection of one consumer: a write reaches one at most.
LEMMA ReachesOne ==
    ASSUME accepted \in Seq(Peers), NEW fd, NEW c, NEW d, Reaches(fd, c), Reaches(fd, d)
    PROVE  c = d
<1> DEFINE i == CHOOSE k \in DOMAIN accepted : accepted[k] = c
           j == CHOOSE k \in DOMAIN accepted : accepted[k] = d
<1>1. i \in DOMAIN accepted /\ accepted[i] = c
  BY DEF Reaches, Accepted
<1>2. j \in DOMAIN accepted /\ accepted[j] = d
  BY DEF Reaches, Accepted
<1>3. FirstFd - 1 + i = FirstFd - 1 + j
  BY DEF Reaches, FdOf
<1>4. DOMAIN accepted \subseteq Nat
  OBVIOUS
<1>5. FirstFd \in Nat
  BY FirstFdAssumption
<1> HIDE DEF i, j
<1>6. i = j
  BY <1>1, <1>2, <1>3, <1>4, <1>5
<1> QED
  BY <1>1, <1>2, <1>6

\* What Carry does to a stream: it stays, or gets one part more.
LEMMA CarryOne ==
    ASSUME StreamsTyped, NEW fd, NEW part \in {"length", "payload"}, Carry(fd, part),
           NEW c \in Peers
    PROVE  /\ stream' \in [Peers -> Seq(Part)]
           /\ ~Reaches(fd, c) => stream'[c] = stream[c]
           /\ Reaches(fd, c) =>
                 stream'[c] = Append(stream[c], [msg |-> published, part |-> part])
<1>1. [msg |-> published, part |-> part] \in Part
  BY DEF StreamsTyped, Part
<1>2. \A d \in Peers : Append(stream[d], [msg |-> published, part |-> part]) \in Seq(Part)
  BY <1>1 DEF StreamsTyped
<1> QED
  BY <1>2 DEF Carry, StreamsTyped

\* Whatever it carries, the parts of a stream are of the messages so far.
LEMMA CarryTyped ==
    ASSUME StreamsTyped, NEW fd, NEW part \in {"length", "payload"}, Carry(fd, part),
           UNCHANGED <<accepted, published>>
    PROVE  StreamsTyped'
<1>1. ASSUME NEW c \in Peers, NEW i \in DOMAIN stream'[c]
      PROVE  stream'[c][i].msg <= published
  <2>1. CASE Reaches(fd, c)
    <3>1. stream'[c] = Append(stream[c], [msg |-> published, part |-> part])
      BY <2>1, CarryOne
    <3>2. stream[c] \in Seq(Part) /\ published \in Nat
      BY DEF StreamsTyped
    <3>3. CASE i \in DOMAIN stream[c]
      <4>1. stream'[c][i] = stream[c][i]
        BY <3>1, <3>2, <3>3
      <4> QED
        BY <4>1, <3>3 DEF StreamsTyped
    <3>4. CASE i \notin DOMAIN stream[c]
      <4>1. stream'[c][i] = [msg |-> published, part |-> part]
        BY <3>1, <3>2, <3>4
      <4> QED
        BY <4>1, <3>2
    <3> QED
      BY <3>3, <3>4
  <2>2. CASE ~Reaches(fd, c)
    BY <2>2, CarryOne DEF StreamsTyped
  <2> QED
    BY <2>1, <2>2
<1>2. stream' \in [Peers -> Seq(Part)]
  <2>1. CASE Peers = {}
    BY <2>1 DEF Carry
  <2>2. CASE Peers # {}
    BY <2>2, CarryOne
  <2> QED
    BY <2>1, <2>2
<1> QED
  BY <1>1, <1>2 DEF StreamsTyped

\* A length is no payload: WriteLength changes nothing about the payloads.
LEMMA LengthKeepsOne ==
    ASSUME OneInv, NEW fd, Carry(fd, "length"), InHand, UNCHANGED <<accepted, published>>
    PROVE  OneInv'
<1>1. StreamsTyped'
  BY CarryTyped DEF OneInv
<1>2. ASSUME NEW c \in Peers, NEW i \in DOMAIN stream'[c], stream'[c][i].part = "payload"
      PROVE  i \in DOMAIN stream[c] /\ stream'[c][i] = stream[c][i]
  <2>1. CASE Reaches(fd, c)
    <3>1. stream'[c] = Append(stream[c], [msg |-> published, part |-> "length"])
      BY <2>1, CarryOne DEF OneInv
    <3>2. stream[c] \in Seq(Part)
      BY DEF OneInv, StreamsTyped
    <3>3. i \in DOMAIN stream[c]
      <4> SUFFICES ASSUME i \notin DOMAIN stream[c] PROVE FALSE
        OBVIOUS
      <4>1. stream'[c][i] = [msg |-> published, part |-> "length"]
        BY <3>1, <3>2
      <4> QED
        BY <4>1, <1>2
    <3> QED
      BY <3>1, <3>2, <3>3
  <2>2. CASE ~Reaches(fd, c)
    BY <2>2, CarryOne DEF OneInv
  <2> QED
    BY <2>1, <2>2
<1>3. NotYetWritten'
  BY <1>2 DEF OneInv, NotYetWritten
<1>4. PayloadsDiffer'
  <2> SUFFICES ASSUME NEW c \in Peers, NEW d \in Peers,
                      NEW i \in DOMAIN stream'[c], NEW j \in DOMAIN stream'[d],
                      stream'[c][i].part = "payload", stream'[c][i] = stream'[d][j]
               PROVE  c = d /\ i = j
    BY DEF PayloadsDiffer
  <2>1. i \in DOMAIN stream[c] /\ stream'[c][i] = stream[c][i]
    BY <1>2
  <2>2. j \in DOMAIN stream[d] /\ stream'[d][j] = stream[d][j]
    BY <1>2
  <2>3. stream[c][i].part = "payload" /\ stream[c][i] = stream[d][j]
    BY <2>1, <2>2
  <2>4. PayloadsDiffer
    BY DEF OneInv
  <2> QED
    BY <2>1, <2>2, <2>3, <2>4 DEF PayloadsDiffer
<1> QED
  BY <1>1, <1>3, <1>4 DEF OneInv

\* The payload of the message in hand goes to one consumer at most, and nobody
\* had it before.
LEMMA PayloadKeepsOne ==
    ASSUME OneInv, NEW fd, Carry(fd, "payload"), InHand, wpc' = "read",
           UNCHANGED <<accepted, published>>
    PROVE  OneInv'
<1>1. StreamsTyped'
  BY CarryTyped DEF OneInv
<1>2. ASSUME NEW c \in Peers, NEW i \in DOMAIN stream'[c]
      PROVE  \/ i \in DOMAIN stream[c] /\ stream'[c][i] = stream[c][i]
             \/ /\ Reaches(fd, c)
                /\ i = Len(stream[c]) + 1
                /\ stream'[c][i] = [msg |-> published, part |-> "payload"]
  <2>1. CASE Reaches(fd, c)
    <3>1. stream'[c] = Append(stream[c], [msg |-> published, part |-> "payload"])
      BY <2>1, CarryOne DEF OneInv
    <3>2. stream[c] \in Seq(Part)
      BY DEF OneInv, StreamsTyped
    <3> QED
      BY <2>1, <3>1, <3>2
  <2>2. CASE ~Reaches(fd, c)
    BY <2>2, CarryOne DEF OneInv
  <2> QED
    BY <2>1, <2>2
<1>3. NotYetWritten'
  BY DEF NotYetWritten, InHand
<1>4. PayloadsDiffer'
  <2> SUFFICES ASSUME NEW c \in Peers, NEW d \in Peers,
                      NEW i \in DOMAIN stream'[c], NEW j \in DOMAIN stream'[d],
                      stream'[c][i].part = "payload", stream'[c][i] = stream'[d][j]
               PROVE  c = d /\ i = j
    BY DEF PayloadsDiffer
  <2>1. CASE /\ i \in DOMAIN stream[c] /\ stream'[c][i] = stream[c][i]
             /\ j \in DOMAIN stream[d] /\ stream'[d][j] = stream[d][j]
    <3>1. stream[c][i].part = "payload" /\ stream[c][i] = stream[d][j]
      BY <2>1
    <3>2. PayloadsDiffer
      BY DEF OneInv
    <3> QED
      BY <2>1, <3>1, <3>2 DEF PayloadsDiffer
  <2>2. CASE /\ i \in DOMAIN stream[c] /\ stream'[c][i] = stream[c][i]
             /\ stream'[d][j] = [msg |-> published, part |-> "payload"]
    <3>1. stream[c][i] = [msg |-> published, part |-> "payload"]
      BY <2>2
    <3> QED
      BY <3>1, <2>2 DEF OneInv, NotYetWritten
  <2>3. CASE /\ stream'[c][i] = [msg |-> published, part |-> "payload"]
             /\ j \in DOMAIN stream[d] /\ stream'[d][j] = stream[d][j]
    <3>1. stream[d][j] = [msg |-> published, part |-> "payload"]
      BY <2>3
    <3> QED
      BY <3>1, <2>3 DEF OneInv, NotYetWritten
  <2>4. CASE /\ Reaches(fd, c) /\ i = Len(stream[c]) + 1
             /\ Reaches(fd, d) /\ j = Len(stream[d]) + 1
    <3>1. c = d
      BY <2>4, ReachesOne DEF OneInv, StreamsTyped
    <3> QED
      BY <2>4, <3>1
  <2> QED
    BY <1>2, <2>1, <2>2, <2>3, <2>4
<1> QED
  BY <1>1, <1>3, <1>4 DEF OneInv

\* Steps that leave the streams and the message in hand alone.
LEMMA StreamsUnchanged ==
    ASSUME OneInv, UNCHANGED <<published, stream>>, InHand' => InHand,
           accepted' \in Seq(Peers)
    PROVE  OneInv'
BY DEF OneInv, StreamsTyped, NotYetWritten, PayloadsDiffer

\* Every step keeps OneInv.
LEMMA OneInvStep == OneInv /\ [DirectNext]_directVars => OneInv'
<1> SUFFICES ASSUME OneInv, [DirectNext]_directVars
             PROVE  OneInv'
  OBVIOUS
<1> accepted \in Seq(Peers)
  BY DEF OneInv, StreamsTyped
<1>1. CASE SetConsumerSocket
  BY <1>1, StreamsUnchanged DEF SetConsumerSocket, socketVars, InHand
<1>2. CASE ReadMessage
  <2>1. published' = published + 1 /\ UNCHANGED <<accepted, stream>>
    BY <1>2 DEF ReadMessage, socketVars
  <2>2. published \in Nat
    BY DEF OneInv, StreamsTyped
  <2>3. ASSUME NEW c \in Peers, NEW i \in DOMAIN stream[c]
        PROVE  stream[c][i].msg \in Nat /\ stream[c][i].msg <= published
    <3>1. stream[c] \in Seq(Part)
      BY DEF OneInv, StreamsTyped
    <3>2. stream[c][i] \in Part
      BY <3>1
    <3> QED
      BY <3>2 DEF OneInv, StreamsTyped, Part
  <2>4. StreamsTyped'
    <3>1. ASSUME NEW c \in Peers, NEW i \in DOMAIN stream[c]
          PROVE  stream[c][i].msg <= published + 1
      BY <2>2, <2>3
    <3> QED
      BY <2>1, <2>2, <3>1 DEF OneInv, StreamsTyped
  <2>5. NotYetWritten'
    <3> SUFFICES ASSUME NEW c \in Peers, NEW i \in DOMAIN stream[c]
                 PROVE  stream[c][i] # [msg |-> published + 1, part |-> "payload"]
      BY <2>1 DEF NotYetWritten
    <3> QED
      BY <2>2, <2>3
  <2> QED
    BY <2>1, <2>4, <2>5 DEF OneInv, PayloadsDiffer
<1>3. CASE Store
  BY <1>3, StreamsUnchanged DEF Store, socketVars, InHand
<1>4. CASE NoConsumers
  BY <1>4, StreamsUnchanged DEF NoConsumers, socketVars, InHand
<1>5. CASE WriteLength
  <2>1. PICK fd : Carry(fd, "length")
    BY <1>5 DEF WriteLength
  <2> QED
    BY <1>5, <2>1, LengthKeepsOne DEF WriteLength, InHand
<1>6. CASE WritePayload
  <2>1. PICK fd : Written(fd)
    BY <1>6 DEF WritePayload
  <2> QED
    BY <1>6, <2>1, PayloadKeepsOne DEF WritePayload, Written, InHand
<1>7. CASE FailPayload
  BY <1>7, StreamsUnchanged DEF FailPayload, InHand
<1>8. CASE Acceptor
  <2>1. accepted' \in Seq(Peers)
    BY <1>8 DEF Acceptor, Accepting, PushBack, AcceptFd
  <2> QED
    BY <1>8, <2>1, StreamsUnchanged DEF Acceptor, topicVars, InHand
<1>9. CASE \E c \in Peers : (Connect(c) \/ Close(c)) /\ UNCHANGED topicVars
  <2>1. UNCHANGED <<accepted, topicVars>>
    BY <1>9 DEF Connect, Close
  <2> QED
    BY <2>1, StreamsUnchanged DEF topicVars, InHand
<1>10. CASE UNCHANGED directVars
  BY <1>10, StreamsUnchanged DEF directVars, socketVars, topicVars, InHand
<1> QED
  BY <1>1, <1>2, <1>3, <1>4, <1>5, <1>6, <1>7, <1>8, <1>9, <1>10 DEF DirectNext, Sender

\* For any number of consumers and messages and any races on the vector: no
\* payload is written to two consumers, or twice to one of them, whatever fails
\* and is tried again (connection_socket.h: write_msg).
THEOREM OnePayloadPerMessageHolds == DirectSpec => []OnePayloadPerMessage
<1>1. DirectInit => OneInv
  <2> SUFFICES ASSUME DirectInit PROVE OneInv
    OBVIOUS
  <2>1. accepted = <<>> /\ published = 0 /\ stream = [c \in Peers |-> <<>>]
    BY DEF DirectInit, SocketInit
  <2> QED
    BY <2>1 DEF OneInv, StreamsTyped, NotYetWritten, PayloadsDiffer
<1>2. OneInv => OnePayloadPerMessage
  <2> SUFFICES ASSUME OneInv,
                      NEW m \in 1..MaxMsgs, NEW c \in Peers, NEW d \in Peers,
                      Got(c, m) # {}, Got(d, m) # {}
               PROVE  c = d /\ \E i \in Got(c, m) : Got(c, m) = {i}
    BY DEF OnePayloadPerMessage
  <2>1. PICK i \in DOMAIN stream[c] : stream[c][i] = [msg |-> m, part |-> "payload"]
    BY DEF Got
  <2>2. PICK j \in DOMAIN stream[d] : stream[d][j] = [msg |-> m, part |-> "payload"]
    BY DEF Got
  <2>3. c = d
    BY <2>1, <2>2 DEF OneInv, PayloadsDiffer
  <2>4. \A k \in Got(c, m) : k = i
    BY <2>1 DEF OneInv, PayloadsDiffer, Got
  <2>5. i \in Got(c, m)
    BY <2>1 DEF Got
  <2> QED
    BY <2>3, <2>4, <2>5
<1> QED
  BY <1>1, <1>2, OneInvStep, PTL DEF DirectSpec
-----------------------------------------------------------------------------
(***************************************************************************)
(* DirectTypeOK.                                                           *)
(***************************************************************************)

\* The index is in the vector, or just past its end: a failed write, at an index
\* in it, removes one element at most.
DirectTypeInv ==
    /\ SocketsInv
    /\ joined \in BOOLEAN
    /\ wpc \in {"read", "store", "length", "payload", "ended"}
    /\ published \in 0..MaxMsgs
    /\ current_fd \in 0..Len(socket_fds)
    /\ wpc = "payload" => current_fd < Len(socket_fds)
    /\ \A c \in Peers : stream[c] # <<>> => Accepted(c)

\* Carry writes to consumers that were accepted.
LEMMA CarryToAccepted ==
    ASSUME \A c \in Peers : stream[c] # <<>> => Accepted(c), NEW fd, NEW part,
           Carry(fd, part), accepted' = accepted
    PROVE  \A c \in Peers : stream'[c] # <<>> => Accepted(c)'
BY DEF Carry, Reaches, Accepted

\* The other thread's and the consumers' steps keep DirectTypeInv.
LEMMA OthersKeepType ==
    ASSUME DirectTypeInv, OthersStep, UNCHANGED <<current_fd, topicVars>>
    PROVE  DirectTypeInv'
<1>1. SocketsInv' /\ Len(socket_fds') >= Len(socket_fds)
  BY OthersInv DEF DirectTypeInv
<1>2. Len(socket_fds) \in Nat /\ Len(socket_fds') \in Nat
  BY <1>1 DEF DirectTypeInv, SocketsInv, Vector
<1>3. \A c \in Peers : Accepted(c) => Accepted(c)'
  <2> SUFFICES ASSUME NEW c \in Peers, Accepted(c)
               PROVE  Accepted(c)'
    OBVIOUS
  <2>1. CASE \E d \in Peers : AcceptFd(d)
    BY <2>1, FdOfStays DEF DirectTypeInv
  <2>2. CASE accepted' = accepted
    BY <2>2 DEF Accepted
  <2> QED
    BY <2>1, <2>2 DEF OthersStep, Accepting, PushBack, Connect, Close
<1> QED
  BY <1>1, <1>2, <1>3 DEF DirectTypeInv, topicVars

\* The steps of the producer thread keep DirectTypeInv.
LEMMA SenderKeepsType ==
    ASSUME DirectTypeInv, Sender
    PROVE  DirectTypeInv'
<1>0. SocketsInv /\ races \in Nat /\ Len(socket_fds) \in Nat /\ current_fd \in Nat
        /\ \A c \in Peers : stream[c] # <<>> => Accepted(c)
  BY DEF DirectTypeInv, SocketsInv, Vector
<1>1. CASE Store \/ NoConsumers
  <2>1. UNCHANGED <<vectorVars, peer, accepted, races, current_fd, joined, published, stream>>
          /\ wpc' \in {"length", "ended", "read"}
    BY <1>1 DEF Store, NoConsumers, socketVars
  <2>2. SocketsInv'
    BY <1>0, <2>1, SocketsKept
  <2> QED
    BY <2>1, <2>2 DEF DirectTypeInv, Accepted, vectorVars
<1>2. CASE WriteLength
  <2>1. PICK fd : ReadFd(Wrapped, fd) /\ Carry(fd, "length")
    BY <1>2 DEF WriteLength
  <2>2. /\ current_fd' = Wrapped /\ wpc' = "payload" /\ socket_fds # <<>>
        /\ UNCHANGED <<vectorVars, peer, accepted, joined, published>>
    BY <1>2 DEF WriteLength
  <2>3. races' \in Nat
    BY <1>0, <2>1, ReadFdRaces
  <2>4. SocketsInv'
    BY <1>0, <2>2, <2>3, SocketsKept
  <2>5. Len(socket_fds) # 0
    BY <2>2 DEF DirectTypeInv, SocketsInv, Vector
  <2>6. Wrapped \in 0..Len(socket_fds) /\ Wrapped < Len(socket_fds)
    BY <1>0, <2>5 DEF Wrapped
  <2>7. \A c \in Peers : stream'[c] # <<>> => Accepted(c)'
    BY <1>0, <2>1, <2>2, CarryToAccepted
  <2> QED
    BY <2>2, <2>4, <2>6, <2>7 DEF DirectTypeInv, vectorVars
<1>3. CASE WritePayload
  <2>1. PICK fd : ReadFd(current_fd, fd) /\ Written(fd)
    BY <1>3 DEF WritePayload
  <2>2. /\ current_fd' = current_fd + 1 /\ wpc = "payload" /\ wpc' = "read"
        /\ UNCHANGED <<vectorVars, peer, accepted, joined, published>>
    BY <1>3, <2>1 DEF WritePayload, Written
  <2>3. races' \in Nat
    BY <1>0, <2>1, ReadFdRaces
  <2>4. SocketsInv'
    BY <1>0, <2>2, <2>3, SocketsKept
  <2>5. current_fd' \in 0..Len(socket_fds)
    BY <1>0, <2>2 DEF DirectTypeInv
  <2>6. \A c \in Peers : stream'[c] # <<>> => Accepted(c)'
    BY <1>0, <2>1, <2>2, CarryToAccepted DEF Written
  <2> QED
    BY <2>2, <2>4, <2>5, <2>6 DEF DirectTypeInv, vectorVars
<1>4. CASE FailPayload
  <2>1. PICK fd : ReadFd(current_fd, fd)
    BY <1>4 DEF FailPayload
  <2>2. /\ wpc = "payload" /\ wpc' = "length" /\ remove_fd(current_fd)
        /\ UNCHANGED <<pushing, before, peer, accepted, current_fd, joined, published, stream>>
    BY <1>4 DEF FailPayload
  <2>3. races' \in Nat
    BY <1>0, <2>1, ReadFdRaces
  <2>4. SocketsInv'
    BY <1>0, <2>2, <2>3, RemoveStep
  <2>5. Len(socket_fds') >= Len(socket_fds) - 1 /\ Len(socket_fds') \in Nat
    <3>1. CASE UNCHANGED socket_fds
      BY <1>0, <3>1
    <3>2. CASE \E i \in DOMAIN socket_fds : socket_fds' = RemoveAt(socket_fds, i)
      <4>1. PICK i \in DOMAIN socket_fds : socket_fds' = RemoveAt(socket_fds, i)
        BY <3>2
      <4>2. socket_fds \in Seq(Int) /\ i \in 1..Len(socket_fds)
        BY <4>1 DEF DirectTypeInv, SocketsInv, Vector
      <4>3. Len(socket_fds') = Len(socket_fds) - 1
        BY <1>0, <4>1, <4>2, RemoveAtIs
      <4> QED
        BY <1>0, <4>2, <4>3
    <3> QED
      BY <2>2, <3>1, <3>2 DEF remove_fd
  <2>6. current_fd' \in 0..Len(socket_fds')
    BY <1>0, <2>2, <2>5 DEF DirectTypeInv
  <2> QED
    BY <2>2, <2>4, <2>6 DEF DirectTypeInv, Accepted
<1> QED
  BY <1>1, <1>2, <1>3, <1>4 DEF Sender

\* Every step keeps DirectTypeInv.
LEMMA DirectTypeStep == DirectTypeInv /\ [DirectNext]_directVars => DirectTypeInv'
<1> SUFFICES ASSUME DirectTypeInv, [DirectNext]_directVars
             PROVE  DirectTypeInv'
  OBVIOUS
<1>0. SocketsInv /\ races \in Nat
  BY DEF DirectTypeInv, SocketsInv
<1>1. CASE SetConsumerSocket \/ ReadMessage \/ UNCHANGED directVars
  <2>1. UNCHANGED <<vectorVars, peer, accepted, races, current_fd, stream>>
    BY <1>1 DEF SetConsumerSocket, ReadMessage, directVars, socketVars, topicVars
  <2>2. SocketsInv'
    BY <1>0, <2>1, SocketsKept
  <2>3. joined' \in BOOLEAN
    BY <1>1 DEF SetConsumerSocket, ReadMessage, directVars, topicVars, DirectTypeInv
  <2>4. wpc' \in {"read", "store", "length", "payload", "ended"}
          /\ (wpc' = "payload" => wpc = "payload")
    BY <1>1 DEF SetConsumerSocket, ReadMessage, directVars, topicVars, DirectTypeInv
  <2>5. published' \in 0..MaxMsgs
    BY <1>1, DirectAssumption DEF SetConsumerSocket, ReadMessage, directVars, topicVars,
                                  DirectTypeInv
  <2> QED
    BY <2>1, <2>2, <2>3, <2>4, <2>5 DEF DirectTypeInv, Accepted, vectorVars
<1>2. CASE Sender
  BY <1>2, SenderKeepsType
<1>3. CASE Acceptor
  BY <1>3, OthersKeepType DEF Acceptor, OthersStep, Accepting, PushBack, AcceptFd
<1>4. CASE \E c \in Peers : (Connect(c) \/ Close(c)) /\ UNCHANGED topicVars
  BY <1>4, OthersKeepType DEF OthersStep, Connect, Close
<1> QED
  BY <1>1, <1>2, <1>3, <1>4 DEF DirectNext

\* The invariant of the direct topic's vector and index.
THEOREM DirectTypeInvariant == DirectSpec => []DirectTypeInv
<1>1. DirectInit => DirectTypeInv
  <2> SUFFICES ASSUME DirectInit PROVE DirectTypeInv
    OBVIOUS
  <2>1. SocketsInv
    BY SocketInitInv DEF DirectInit
  <2> QED
    <3>1. socket_fds = <<>> /\ current_fd = 0 /\ published = 0 /\ joined = FALSE /\ wpc = "read"
      BY DEF DirectInit, SocketInit
    <3>2. \A c \in Peers : stream[c] = <<>>
      BY DEF DirectInit
    <3>3. current_fd \in 0..Len(socket_fds) /\ published \in 0..MaxMsgs
      BY <3>1, DirectAssumption
    <3> QED
      BY <2>1, <3>1, <3>2, <3>3 DEF DirectTypeInv
<1> QED
  BY <1>1, DirectTypeStep, PTL DEF DirectSpec

\* For any number of consumers and any races on the vector: the vector keeps the
\* descriptors of accepted consumers in their order, none twice, and the index is
\* one of it whenever the producer thread writes a payload (connection_socket.h:
\* write_msg), although the acceptor pushes to the vector with no lock.
THEOREM DirectTypeCorrect == DirectSpec => []DirectTypeOK
<1>1. DirectTypeInv => DirectTypeOK
  <2> SUFFICES ASSUME DirectTypeInv PROVE DirectTypeOK
    OBVIOUS
  <2>1. Len(socket_fds) <= Settled /\ Len(socket_fds) \in Nat
    BY DEF DirectTypeInv, SocketsInv, Vector
  <2>2. Settled <= Len(accepted) /\ Settled \in Nat /\ Len(accepted) \in Nat
    BY SettledIs DEF DirectTypeInv
  <2>3. current_fd \in 0..Len(accepted)
    BY <2>1, <2>2 DEF DirectTypeInv
  <2>4. SocketTypeOK
    BY <2>3, SocketsTyped DEF DirectTypeInv
  <2> QED
    BY <2>4 DEF DirectTypeInv, DirectTypeOK
<1> QED
  BY <1>1, DirectTypeInvariant, PTL
-----------------------------------------------------------------------------
(***************************************************************************)
(* WholeMessages.                                                          *)
(***************************************************************************)

\* The descriptor the producer thread is at.
Current == socket_fds[current_fd + 1]

\* A payload comes after its length.
HasLength(c, i) ==
    stream[c][i].part = "payload" =>
        /\ i - 1 \in DOMAIN stream[c]
        /\ stream[c][i - 1] = [msg |-> stream[c][i].msg, part |-> "length"]

\* A length is followed by its payload, or will be.
HasPayload(c, i) ==
    stream[c][i].part = "length" =>
        \/ /\ i + 1 \in DOMAIN stream[c]
           /\ stream[c][i + 1] = [msg |-> stream[c][i].msg, part |-> "payload"]
        \/ peer[c] = "closed"
        \/ /\ wpc = "payload" /\ FdOf(c) = Current
           /\ i = Len(stream[c]) /\ stream[c][i].msg = published

\* WholeMessages is not inductive: it needs that the one whose payload is missing
\* is the one whose turn it is, and that whoever's turn it is has the length.
WholeInv ==
    races = 0 =>
        /\ \A c \in Peers : \A i \in DOMAIN stream[c] : HasLength(c, i) /\ HasPayload(c, i)
        /\ wpc = "payload" =>
              \A c \in Peers : Reaches(Current, c) =>
                 /\ Len(stream[c]) \in DOMAIN stream[c]
                 /\ stream[c][Len(stream[c])] = [msg |-> published, part |-> "length"]

\* A consumer that has been sent something is reached, or gone.
LEMMA ReachedOrGone ==
    ASSUME DirectTypeInv, NEW c \in Peers, stream[c] # <<>>, NEW fd, FdOf(c) = fd,
           ~Reaches(fd, c)
    PROVE  peer[c] = "closed"
<1>1. Accepted(c)
  BY DEF DirectTypeInv
<1>2. peer[c] # "away"
  BY <1>1 DEF Accepted, DirectTypeInv, SocketsInv
<1>3. peer[c] \in {"away", "open", "closed"}
  BY DEF DirectTypeInv, SocketsInv
<1> QED
  BY <1>1, <1>2, <1>3 DEF Reaches

\* Where the thread writes no payload the message in its hands does not matter.
LEMMA QuietKeepsWhole ==
    ASSUME WholeInv, UNCHANGED <<races, peer, accepted, stream>>,
           wpc # "payload", wpc' # "payload"
    PROVE  WholeInv'
BY DEF WholeInv, HasLength, HasPayload

\* WriteLength: everything was whole, and now one length waits for its payload.
LEMMA WriteLengthWhole ==
    ASSUME OneInv, DirectTypeInv, WholeInv, WriteLength
    PROVE  WholeInv'
<1> SUFFICES ASSUME races' = 0
             PROVE  WholeInv'
  BY DEF WholeInv
<1>1. PICK fd : ReadFd(Wrapped, fd) /\ Carry(fd, "length")
  BY DEF WriteLength
<1>2. /\ wpc = "length" /\ wpc' = "payload" /\ current_fd' = Wrapped
      /\ UNCHANGED <<socket_fds, peer, accepted, published>>
  BY DEF WriteLength, vectorVars
<1>3. races = 0 /\ fd = socket_fds[Wrapped + 1]
  BY <1>1, ReadFdRaces DEF DirectTypeInv, SocketsInv, ReadFd
<1>4. Current' = fd
  BY <1>2, <1>3 DEF Current
<1>5. \A c \in Peers : (Reaches(fd, c)' <=> Reaches(fd, c)) /\ FdOf(c)' = FdOf(c)
  BY <1>2 DEF Reaches, Accepted, FdOf
<1> DEFINE L == [msg |-> published, part |-> "length"]
<1>6. ASSUME NEW c \in Peers, Reaches(fd, c)
      PROVE  /\ \A i \in DOMAIN stream'[c] : HasLength(c, i)' /\ HasPayload(c, i)'
             /\ Len(stream'[c]) \in DOMAIN stream'[c] /\ stream'[c][Len(stream'[c])] = L
  <2>1. stream'[c] = Append(stream[c], L)
    BY <1>1, <1>6, CarryOne DEF OneInv
  <2>2. PICK n : n = Len(stream[c])
    OBVIOUS
  <2>3. /\ n \in Nat /\ DOMAIN stream[c] = 1..n /\ DOMAIN stream'[c] = 1..n + 1
        /\ Len(stream'[c]) = n + 1
        /\ stream'[c][n + 1] = L /\ \A i \in 1..n : stream'[c][i] = stream[c][i]
    BY <2>1, <2>2 DEF OneInv, StreamsTyped
  <2>4. ASSUME NEW i \in 1..n
        PROVE  HasLength(c, i)' /\ HasPayload(c, i)'
    <3>1. HasLength(c, i) /\ HasPayload(c, i)
      BY <1>3, <2>3 DEF WholeInv
    <3>2. HasLength(c, i)'
      BY <2>3, <3>1 DEF HasLength
    <3>3. HasPayload(c, i)'
      BY <1>2, <2>3, <3>1 DEF HasPayload
    <3> QED
      BY <3>2, <3>3
  <2>5. HasLength(c, n + 1)' /\ HasPayload(c, n + 1)'
    <3>1. HasLength(c, n + 1)'
      BY <2>3 DEF HasLength
    <3>2. FdOf(c)' = Current'
      BY <1>4, <1>5, <1>6 DEF Reaches
    <3>3. HasPayload(c, n + 1)'
      BY <1>2, <2>3, <3>2 DEF HasPayload
    <3> QED
      BY <3>1, <3>3
  <2> QED
    BY <2>3, <2>4, <2>5
<1>7. ASSUME NEW c \in Peers, ~Reaches(fd, c), NEW i \in DOMAIN stream'[c]
      PROVE  HasLength(c, i)' /\ HasPayload(c, i)'
  <2>1. stream'[c] = stream[c]
    BY <1>1, <1>7, CarryOne DEF OneInv
  <2>2. HasLength(c, i) /\ HasPayload(c, i)
    BY <1>3, <1>7, <2>1 DEF WholeInv
  <2> QED
    BY <1>2, <2>1, <2>2 DEF HasLength, HasPayload
<1> QED
  BY <1>2, <1>4, <1>5, <1>6, <1>7 DEF WholeInv

\* WritePayload: the length that waits gets its payload, unless its consumer has
\* gone.
LEMMA WritePayloadWhole ==
    ASSUME OneInv, DirectTypeInv, WholeInv, WritePayload
    PROVE  WholeInv'
<1> SUFFICES ASSUME races' = 0
             PROVE  WholeInv'
  BY DEF WholeInv
<1>1. PICK fd : ReadFd(current_fd, fd) /\ Carry(fd, "payload")
  BY DEF WritePayload, Written
<1>2. /\ wpc = "payload" /\ wpc' = "read"
      /\ UNCHANGED <<socket_fds, peer, accepted, published>>
  BY DEF WritePayload, Written, vectorVars
<1>3. races = 0 /\ fd = Current
  BY <1>1, ReadFdRaces DEF DirectTypeInv, SocketsInv, ReadFd, Current
<1> DEFINE P == [msg |-> published, part |-> "payload"]
<1>4. ASSUME NEW c \in Peers, Reaches(fd, c), NEW i \in DOMAIN stream'[c]
      PROVE  HasLength(c, i)' /\ HasPayload(c, i)'
  <2>1. stream'[c] = Append(stream[c], P)
    BY <1>1, <1>4, CarryOne DEF OneInv
  <2>2. PICK n : n = Len(stream[c])
    OBVIOUS
  <2>3. /\ n \in Nat /\ DOMAIN stream[c] = 1..n /\ DOMAIN stream'[c] = 1..n + 1
        /\ stream'[c][n + 1] = P /\ \A k \in 1..n : stream'[c][k] = stream[c][k]
    BY <2>1, <2>2 DEF OneInv, StreamsTyped
  <2>4. n \in 1..n /\ stream[c][n] = [msg |-> published, part |-> "length"]
    BY <1>2, <1>3, <1>4, <2>2, <2>3 DEF WholeInv
  <2>5. CASE i = n + 1
    BY <2>3, <2>4, <2>5 DEF HasLength, HasPayload
  <2>6. CASE i = n
    <3>1. HasLength(c, i)'
      BY <2>3, <2>4, <2>6 DEF HasLength
    <3>2. HasPayload(c, i)'
      BY <2>3, <2>4, <2>6 DEF HasPayload
    <3> QED
      BY <3>1, <3>2
  <2>7. CASE i \in 1..n /\ i # n
    <3>1. HasLength(c, i) /\ HasPayload(c, i)
      BY <1>3, <2>3, <2>7 DEF WholeInv
    <3>2. HasLength(c, i)'
      BY <2>3, <2>7, <3>1 DEF HasLength
    <3>3. HasPayload(c, i)'
      BY <1>2, <2>2, <2>3, <2>7, <3>1 DEF HasPayload
    <3> QED
      BY <3>2, <3>3
  <2> QED
    BY <2>3, <2>5, <2>6, <2>7
<1>5. ASSUME NEW c \in Peers, ~Reaches(fd, c), NEW i \in DOMAIN stream'[c]
      PROVE  HasLength(c, i)' /\ HasPayload(c, i)'
  <2>1. stream'[c] = stream[c]
    BY <1>1, <1>5, CarryOne DEF OneInv
  <2>2. HasLength(c, i) /\ HasPayload(c, i)
    BY <1>3, <1>5, <2>1 DEF WholeInv
  <2>3. stream[c] # <<>>
    BY <1>5, <2>1
  <2>4. FdOf(c) = Current => peer[c] = "closed"
    BY <1>3, <1>5, <2>3, ReachedOrGone
  <2> QED
    BY <1>2, <2>1, <2>2, <2>4 DEF HasLength, HasPayload
<1> QED
  BY <1>2, <1>4, <1>5 DEF WholeInv

\* FailPayload: whoever waits for a payload has gone.
LEMMA FailPayloadWhole ==
    ASSUME OneInv, DirectTypeInv, WholeInv, FailPayload
    PROVE  WholeInv'
<1> SUFFICES ASSUME races' = 0
             PROVE  WholeInv'
  BY DEF WholeInv
<1>1. PICK fd : ReadFd(current_fd, fd) /\ MayFail(fd)
  BY DEF FailPayload
<1>2. wpc = "payload" /\ wpc' = "length" /\ UNCHANGED <<peer, accepted, stream>>
  BY DEF FailPayload
<1>3. races = 0 /\ fd = Current
  BY <1>1, ReadFdRaces DEF DirectTypeInv, SocketsInv, ReadFd, Current
<1>4. ASSUME NEW c \in Peers, NEW i \in DOMAIN stream'[c]
      PROVE  HasLength(c, i)' /\ HasPayload(c, i)'
  <2>1. HasLength(c, i) /\ HasPayload(c, i) /\ stream[c] # <<>>
    BY <1>2, <1>3, <1>4 DEF WholeInv
  <2>2. FdOf(c) = Current => peer[c] = "closed"
    BY <1>1, <1>3, <2>1, ReachedOrGone DEF MayFail
  <2> QED
    BY <1>2, <2>1, <2>2 DEF HasLength, HasPayload
<1> QED
  BY <1>2, <1>4 DEF WholeInv

\* The acceptor's and the consumers' steps: the thread is where it was.
LEMMA OthersKeepWhole ==
    ASSUME DirectTypeInv, WholeInv, OthersStep, UNCHANGED <<current_fd, topicVars>>
    PROVE  WholeInv'
<1> SUFFICES ASSUME races' = 0
             PROVE  WholeInv'
  BY DEF WholeInv
<1>0. SocketsInv /\ races = 0 /\ UNCHANGED <<wpc, published, stream>>
  BY OthersInv DEF DirectTypeInv, SocketsInv, topicVars
<1>1. wpc = "payload" => Current' = Current /\ Current \in FirstFd..FirstFd + Len(accepted) - 1
  <2> SUFFICES ASSUME wpc = "payload"
               PROVE  Current' = Current /\ Current \in FirstFd..FirstFd + Len(accepted) - 1
    OBVIOUS
  <2>1. PICK i : i = current_fd + 1
    OBVIOUS
  <2>2. i \in DOMAIN socket_fds
    BY <2>1 DEF DirectTypeInv, SocketsInv, Vector
  <2>3. socket_fds'[i] = socket_fds[i]
    <3>1. CASE UNCHANGED socket_fds
      BY <3>1
    <3>2. CASE socket_fds' = Append(socket_fds, pushing)
      BY <2>2, <3>2 DEF DirectTypeInv, SocketsInv, Vector
    <3> QED
      BY <3>1, <3>2, OthersInv DEF DirectTypeInv
  <2>4. socket_fds[i] \in FirstFd..FirstFd + Len(accepted) - 1
    <3>1. Settled \in Nat /\ Len(accepted) \in Nat /\ Settled <= Len(accepted)
      BY <1>0, SettledIs
    <3>2. socket_fds[i] \in FirstFd..FirstFd + Settled - 1
      BY <2>2, <3>1, VectorRange DEF DirectTypeInv, SocketsInv
    <3>3. FirstFd \in Nat
      BY FirstFdAssumption
    <3> QED
      BY <3>1, <3>2, <3>3
  <2> QED
    BY <2>1, <2>3, <2>4 DEF Current
<1>2. ASSUME NEW c \in Peers, NEW i \in DOMAIN stream[c]
      PROVE  HasLength(c, i)' /\ HasPayload(c, i)'
  <2>1. HasLength(c, i) /\ HasPayload(c, i) /\ Accepted(c)
    BY <1>0 DEF WholeInv, DirectTypeInv
  <2>2. FdOf(c)' = FdOf(c)
    <3>1. CASE \E d \in Peers : AcceptFd(d)
      BY <1>0, <2>1, <3>1, FdOfStays
    <3>2. CASE accepted' = accepted
      BY <3>2 DEF FdOf
    <3> QED
      BY <3>1, <3>2 DEF OthersStep, Accepting, PushBack, Connect, Close
  <2>3. peer[c] = "closed" => peer'[c] = "closed"
    BY DEF OthersStep, Accepting, PushBack, AcceptFd, Connect, Close, DirectTypeInv, SocketsInv
  <2>4. HasLength(c, i)'
    BY <1>0, <2>1 DEF HasLength
  <2>5. HasPayload(c, i)'
    BY <1>0, <1>1, <2>1, <2>2, <2>3 DEF HasPayload
  <2> QED
    BY <2>4, <2>5
<1>3. ASSUME wpc = "payload", NEW c \in Peers, Reaches(Current, c)'
      PROVE  Reaches(Current, c)
  <2>1. PICK fd \in FirstFd..FirstFd + Len(accepted) - 1 : fd = Current /\ fd = Current'
    BY <1>1, <1>3
  <2>2. Reaches(fd, c)'
    BY <1>3, <2>1 DEF Reaches
  <2> QED
    BY <1>0, <2>1, <2>2, NobodyNew
<1> QED
  BY <1>0, <1>2, <1>3 DEF WholeInv

\* Every step keeps WholeInv.
LEMMA WholeStep ==
    OneInv /\ DirectTypeInv /\ WholeInv /\ [DirectNext]_directVars => WholeInv'
<1> SUFFICES ASSUME OneInv, DirectTypeInv, WholeInv, [DirectNext]_directVars
             PROVE  WholeInv'
  OBVIOUS
<1>1. CASE SetConsumerSocket \/ UNCHANGED directVars
  <2>1. UNCHANGED <<races, peer, accepted, socket_fds, current_fd, stream, wpc, published>>
    BY <1>1 DEF SetConsumerSocket, directVars, socketVars, topicVars, vectorVars
  <2> QED
    BY <2>1 DEF WholeInv, HasLength, HasPayload, Current, Reaches, Accepted, FdOf
<1>2. CASE ReadMessage \/ Store \/ NoConsumers
  <2>1. UNCHANGED <<races, peer, accepted, stream>> /\ wpc # "payload" /\ wpc' # "payload"
    BY <1>2 DEF ReadMessage, Store, NoConsumers, socketVars
  <2> QED
    BY <2>1, QuietKeepsWhole
<1>3. CASE WriteLength
  BY <1>3, WriteLengthWhole
<1>4. CASE WritePayload
  BY <1>4, WritePayloadWhole
<1>5. CASE FailPayload
  BY <1>5, FailPayloadWhole
<1>6. CASE Acceptor
  BY <1>6, OthersKeepWhole DEF Acceptor, OthersStep, Accepting, PushBack, AcceptFd
<1>7. CASE \E c \in Peers : (Connect(c) \/ Close(c)) /\ UNCHANGED topicVars
  BY <1>7, OthersKeepWhole DEF OthersStep, Connect, Close
<1> QED
  BY <1>1, <1>2, <1>3, <1>4, <1>5, <1>6, <1>7 DEF DirectNext, Sender

\* For any number of consumers and messages: unless a read of the vector met a
\* push_back, every length in a consumer's stream is followed by its payload, or
\* the consumer has gone or is next to get it, and every payload comes after its
\* length (connection_socket.h: write_msg, which looks the descriptor up twice).
THEOREM WholeMessagesHold == DirectSpec => []WholeMessages
<1>1. DirectInit => OneInv /\ WholeInv
  <2> SUFFICES ASSUME DirectInit PROVE OneInv /\ WholeInv
    OBVIOUS
  <2>1. /\ accepted = <<>> /\ published = 0 /\ stream = [c \in Peers |-> <<>>]
        /\ wpc = "read"
    BY DEF DirectInit, SocketInit
  <2> QED
    BY <2>1 DEF OneInv, StreamsTyped, NotYetWritten, PayloadsDiffer, WholeInv
<1>2. OneInv /\ WholeInv => WholeMessages
  <2> SUFFICES ASSUME OneInv, WholeInv, races = 0, NEW c \in Peers,
                      NEW i \in DOMAIN stream[c]
               PROVE  LET s == stream[c]
                          Whole(j, part) ==
                             j \in DOMAIN s /\ s[j] = [msg |-> s[i].msg, part |-> part]
                      IN  IF s[i].part = "payload"
                          THEN Whole(i - 1, "length")
                          ELSE \/ Whole(i + 1, "payload")
                               \/ peer[c] = "closed"
                               \/ i = Len(s) /\ wpc = "payload" /\ s[i].msg = published
    BY DEF WholeMessages
  <2>1. HasLength(c, i) /\ HasPayload(c, i)
    BY DEF WholeInv
  <2>2. stream[c][i].part \in {"length", "payload"}
    <3>1. stream[c] \in Seq(Part)
      BY DEF OneInv, StreamsTyped
    <3>2. stream[c][i] \in Part
      BY <3>1
    <3> QED
      BY <3>2 DEF Part
  <2> QED
    BY <2>1, <2>2 DEF HasLength, HasPayload
<1> QED
  BY <1>1, <1>2, OneInvStep, DirectTypeInvariant, WholeStep, PTL DEF DirectSpec
-----------------------------------------------------------------------------
(***************************************************************************)
(* TakesTurns.                                                             *)
(***************************************************************************)

\* From the thread's index on, and around the end of the vector, the element at p
\* comes before the one at q.
Ahead(p, q) == IF (p > current_fd) <=> (q > current_fd) THEN p < q ELSE p > current_fd

\* The turns are of settled connections.
TurnsTyped ==
    /\ turns \in Seq([to : Int, fds : SUBSET Int])
    /\ races = 0 =>
          \A i \in DOMAIN turns :
             /\ turns[i].to \in turns[i].fds
             /\ turns[i].fds \subseteq FirstFd..FirstFd + Settled - 1

\* Has fd waited for its turn since turn i, in which it was there?
Waits(i, fd) ==
    /\ fd \in turns[i].fds
    /\ ~MayFail(fd)
    /\ \A k \in i..Len(turns) : turns[k].to # fd

\* TakesTurns is not inductive: it needs that whoever waits since a turn of
\* another will be next before that other is, whatever is removed.
WaitingIsAhead ==
    races = 0 =>
        \A i \in DOMAIN turns : \A p, q \in DOMAIN socket_fds :
            turns[i].to = socket_fds[q] /\ Waits(i, socket_fds[p]) => Ahead(p, q)

TurnsInv == TurnsTyped /\ WaitingIsAhead /\ TakesTurns

\* The vector, in numbers.
LEMMA VectorFacts ==
    ASSUME DirectTypeInv
    PROVE  /\ socket_fds \in Seq(Int) /\ Len(socket_fds) \in Nat
           /\ DOMAIN socket_fds = 1..Len(socket_fds)
           /\ current_fd \in Nat /\ current_fd <= Len(socket_fds)
           /\ Settled \in Nat /\ Len(accepted) \in Nat /\ Settled <= Len(accepted)
           /\ \A p \in DOMAIN socket_fds : socket_fds[p] \in FirstFd..FirstFd + Settled - 1
           /\ \A p, q \in DOMAIN socket_fds : socket_fds[p] = socket_fds[q] => p = q
<1>1. SocketsInv /\ Vector(socket_fds, Settled)
  BY DEF DirectTypeInv, SocketsInv
<1>2. Settled \in Nat /\ Len(accepted) \in Nat /\ Settled <= Len(accepted)
  BY <1>1, SettledIs
<1>3. socket_fds \in Seq(Int)
  BY <1>1 DEF Vector
<1>4. \A p \in DOMAIN socket_fds : socket_fds[p] \in FirstFd..FirstFd + Settled - 1
  BY <1>1, <1>2, VectorRange
<1>5. \A p, q \in DOMAIN socket_fds : socket_fds[p] = socket_fds[q] => p = q
  BY <1>1, OnceInVector
<1> QED
  BY <1>2, <1>3, <1>4, <1>5 DEF DirectTypeInv

\* A step that leaves the turns, the vector and the connections alone, and moves
\* the index only around the end of the vector.
LEMMA TurnsKept ==
    ASSUME DirectTypeInv, TurnsInv, UNCHANGED <<turns, socket_fds, pushing, accepted, peer>>,
           races' = 0 => races = 0, current_fd' \in {current_fd, Wrapped}
    PROVE  TurnsInv'
<1>1. Settled' = Settled /\ \A fd : MayFail(fd)' <=> MayFail(fd)
  BY DEF Settled, MayFail, Reaches, Accepted, FdOf
<1>2. TurnsTyped' /\ TakesTurns'
  BY <1>1 DEF TurnsInv, TurnsTyped, TakesTurns
<1>3. \A p, q \in DOMAIN socket_fds : Ahead(p, q) => Ahead(p, q)'
  <2>1. PICK n : n = Len(socket_fds)
    OBVIOUS
  <2>2. n \in Nat /\ DOMAIN socket_fds = 1..n /\ current_fd \in Nat /\ current_fd <= n
    BY <2>1, VectorFacts
  <2> QED
    BY <2>1, <2>2 DEF Ahead, Wrapped
<1>4. WaitingIsAhead'
  BY <1>1, <1>3 DEF TurnsInv, WaitingIsAhead, Waits
<1> QED
  BY <1>2, <1>4 DEF TurnsInv

\* Nobody who waits since a turn of the one whose turn it is now.
LEMMA NobodyWaits ==
    ASSUME DirectTypeInv, TurnsInv, races = 0, current_fd < Len(socket_fds),
           NEW i \in DOMAIN turns, turns[i].to = Current,
           NEW p \in DOMAIN socket_fds
    PROVE  ~Waits(i, socket_fds[p])
<1>1. PICK n : n = Len(socket_fds)
  OBVIOUS
<1>2. n \in Nat /\ DOMAIN socket_fds = 1..n /\ current_fd \in Nat /\ current_fd < n
  BY <1>1, VectorFacts
<1>3. PICK q : q = current_fd + 1
  OBVIOUS
<1>4. q \in DOMAIN socket_fds /\ turns[i].to = socket_fds[q]
  BY <1>2, <1>3 DEF Current
<1>5. ~Ahead(p, q)
  BY <1>2, <1>3 DEF Ahead
<1> QED
  BY <1>4, <1>5 DEF TurnsInv, WaitingIsAhead

\* WritePayload: whose turn it was is last now, and nobody had waited longer.
LEMMA WritePayloadTurns ==
    ASSUME DirectTypeInv, TurnsInv, WritePayload
    PROVE  TurnsInv'
<1>1. PICK fd \in ToSet(socket_fds) \cup {Wild} : ReadFd(current_fd, fd) /\ Written(fd)
  BY DEF WritePayload
<1> DEFINE T == [to |-> fd, fds |-> ToSet(socket_fds)]
<1>2. /\ wpc = "payload" /\ current_fd' = current_fd + 1
      /\ turns' = Append(turns, T)
      /\ UNCHANGED <<socket_fds, pushing, peer, accepted>>
  BY <1>1 DEF WritePayload, Written, vectorVars
<1>3. Settled' = Settled /\ \A f : MayFail(f)' <=> MayFail(f)
  BY <1>2 DEF Settled, MayFail, Reaches, Accepted, FdOf
<1>4. races' = 0 => races = 0 /\ fd = Current
  BY <1>1, ReadFdRaces DEF DirectTypeInv, SocketsInv, ReadFd, Current
<1>5. PICK n : n = Len(socket_fds)
  OBVIOUS
<1>6. n \in Nat /\ DOMAIN socket_fds = 1..n /\ current_fd \in Nat /\ current_fd < n
        /\ current_fd + 1 \in 1..n
  BY <1>2, <1>5, VectorFacts DEF DirectTypeInv
<1>7. ToSet(socket_fds) = {socket_fds[p] : p \in 1..n}
        /\ ToSet(socket_fds) \subseteq Int
        /\ ToSet(socket_fds) \subseteq FirstFd..FirstFd + Settled - 1
  BY <1>6, VectorFacts DEF ToSet
<1>8. PICK m : m = Len(turns)
  OBVIOUS
<1>9. /\ m \in Nat /\ DOMAIN turns = 1..m /\ DOMAIN turns' = 1..m + 1
      /\ Len(turns') = m + 1
      /\ turns'[m + 1] = T /\ \A i \in 1..m : turns'[i] = turns[i]
      /\ turns' \in Seq([to : Int, fds : SUBSET Int])
  <2>1. T \in [to : Int, fds : SUBSET Int]
    BY <1>7 DEF Wild
  <2> HIDE DEF T
  <2> QED
    BY <1>2, <1>8, <2>1 DEF TurnsInv, TurnsTyped
<1>10. TurnsTyped'
  <2> SUFFICES ASSUME races' = 0, NEW i \in 1..m + 1
               PROVE  /\ turns'[i].to \in turns'[i].fds
                      /\ turns'[i].fds \subseteq FirstFd..FirstFd + Settled - 1
    BY <1>3, <1>9 DEF TurnsTyped
  <2>1. CASE i = m + 1
    <3>1. Current \in ToSet(socket_fds)
      BY <1>6, <1>7 DEF Current
    <3> QED
      BY <1>4, <1>7, <1>9, <2>1, <3>1
  <2>2. CASE i \in 1..m
    BY <1>4, <1>9, <2>2 DEF TurnsInv, TurnsTyped
  <2> QED
    BY <1>9, <2>1, <2>2
<1>11. WaitingIsAhead'
  <2> SUFFICES ASSUME races' = 0, NEW i \in 1..m + 1, NEW p \in 1..n, NEW q \in 1..n,
                      turns'[i].to = socket_fds[q], Waits(i, socket_fds[p])'
               PROVE  Ahead(p, q)'
    BY <1>2, <1>6, <1>9 DEF WaitingIsAhead
  <2>0. fd = socket_fds[current_fd + 1] /\ races = 0
    BY <1>4 DEF Current
  <2>1. /\ socket_fds[p] \in turns'[i].fds /\ ~MayFail(socket_fds[p])
        /\ \A k \in i..m + 1 : turns'[k].to # socket_fds[p]
    BY <1>2, <1>3, <1>9, SMTT(30) DEF Waits, MayFail, Reaches, Accepted, FdOf
  <2>2. p # current_fd + 1
    <3>1. m + 1 \in i..m + 1
      BY <1>9
    <3>2. turns'[m + 1].to # socket_fds[p]
      BY <2>1, <3>1
    <3> QED
      BY <1>9, <2>0, <3>2
  <2>3. CASE i = m + 1
    <3>1. socket_fds[q] = socket_fds[current_fd + 1]
      BY <1>9, <2>0, <2>3
    <3>2. q = current_fd + 1
      BY <1>6, <3>1, VectorFacts
    <3> QED
      BY <1>2, <1>6, <2>2, <3>2 DEF Ahead
  <2>4. CASE i \in 1..m
    <3>1. turns[i].to = socket_fds[q] /\ Waits(i, socket_fds[p])
      <4>1. \A k \in i..m : k \in i..m + 1 /\ turns'[k] = turns[k]
        BY <1>9, <2>4
      <4>2. \A k \in i..m : turns[k].to # socket_fds[p]
        BY <2>1, <4>1
      <4>3. turns'[i] = turns[i]
        BY <1>9, <2>4
      <4> QED
        BY <1>8, <2>1, <4>2, <4>3 DEF Waits
    <3>2. Ahead(p, q)
      BY <1>6, <1>9, <2>0, <2>4, <3>1 DEF TurnsInv, WaitingIsAhead
    <3>3. q # current_fd + 1
      BY <1>5, <1>6, <1>9, <2>0, <2>4, <3>1, NobodyWaits DEF Current
    <3> QED
      BY <1>2, <1>6, <2>2, <3>2, <3>3 DEF Ahead
  <2> QED
    BY <1>9, <2>3, <2>4
<1>12. TakesTurns'
  <2> SUFFICES ASSUME NEW i \in 1..m + 1, NEW j \in 1..m + 1, i < j,
                      turns'[i].to = turns'[j].to, races' = 0,
                      NEW f \in turns'[i].fds \cap turns'[j].fds
               PROVE  MayFail(f) \/ \E k \in i..j - 1 : turns'[k].to = f
    BY <1>3, <1>9, ZenonT(30) DEF TakesTurns
  <2>0. fd = Current /\ races = 0 /\ i \in 1..m /\ turns'[i] = turns[i]
    BY <1>4, <1>9
  <2>1. CASE j = m + 1
    <3>1. PICK p \in 1..n : f = socket_fds[p]
      BY <1>7, <1>9, <2>1
    <3>2. turns[i].to = Current
      BY <1>9, <2>0, <2>1
    <3>3. ~Waits(i, f)
      BY <1>5, <1>6, <1>9, <2>0, <3>1, <3>2, NobodyWaits
    <3>4. MayFail(f) \/ \E k \in i..m : turns[k].to = f
      BY <1>8, <2>0, <3>3 DEF Waits
    <3>5. \A k \in i..m : k \in i..j - 1 /\ turns'[k] = turns[k]
      BY <1>9, <2>0, <2>1
    <3> QED
      BY <3>4, <3>5
  <2>2. CASE j \in 1..m
    <3>1. turns'[j] = turns[j]
      BY <1>9, <2>2
    <3>4. /\ i \in DOMAIN turns /\ j \in DOMAIN turns /\ i < j
          /\ turns[i].to = turns[j].to
          /\ f \in turns[i].fds \cap turns[j].fds
      BY <1>9, <2>0, <2>2, <3>1
    <3>2. MayFail(f) \/ \E k \in i..j - 1 : turns[k].to = f
      BY <2>0, <3>4 DEF TurnsInv, TakesTurns
    <3>3. \A k \in i..j - 1 : turns'[k] = turns[k]
      BY <1>9, <2>0, <2>2
    <3> QED
      BY <3>2, <3>3
  <2> QED
    BY <1>9, <2>1, <2>2
<1> QED
  BY <1>10, <1>11, <1>12 DEF TurnsInv

\* FailPayload: the descriptor it removes is one that had its turn, and the one
\* that failed, which it passes over, is not waiting.
LEMMA FailPayloadTurns ==
    ASSUME DirectTypeInv, TurnsInv, FailPayload
    PROVE  TurnsInv'
<1>1. PICK fd \in ToSet(socket_fds) \cup {Wild} : ReadFd(current_fd, fd) /\ MayFail(fd)
  BY DEF FailPayload
<1>2. /\ wpc = "payload" /\ remove_fd(current_fd)
      /\ UNCHANGED <<turns, pushing, accepted, peer, current_fd>>
  BY DEF FailPayload
<1>3. races' = 0 => races = 0 /\ MayFail(Current)
  BY <1>1, ReadFdRaces DEF DirectTypeInv, SocketsInv, ReadFd, Current
<1>4. CASE UNCHANGED socket_fds
  BY <1>2, <1>3, <1>4, TurnsKept
<1>5. CASE \E r \in DOMAIN socket_fds :
              socket_fds[r] = current_fd /\ socket_fds' = RemoveAt(socket_fds, r)
  <2>1. PICK r \in DOMAIN socket_fds :
              socket_fds[r] = current_fd /\ socket_fds' = RemoveAt(socket_fds, r)
    BY <1>5
  <2>2. PICK n : n = Len(socket_fds)
    OBVIOUS
  <2>3. /\ n \in Nat /\ DOMAIN socket_fds = 1..n /\ socket_fds \in Seq(Int)
        /\ current_fd \in Nat /\ current_fd < n
        /\ current_fd + 1 \in 1..n
    BY <1>2, <2>2, VectorFacts DEF DirectTypeInv
  <2>4. r \in 1..n /\ r <= current_fd
    <3>1. socket_fds[r] \in FirstFd + r - 1..FirstFd + Settled - 1
      BY <2>1 DEF DirectTypeInv, SocketsInv, Vector
    <3>2. Settled \in Nat /\ FirstFd \in Nat /\ FirstFd >= 1
      BY VectorFacts, FirstFdAssumption
    <3> QED
      BY <2>1, <2>3, <3>1, <3>2
  <2> DEFINE From(x) == IF x < r THEN x ELSE x + 1
  <2>5. /\ DOMAIN socket_fds' = 1..n - 1
        /\ \A x \in 1..n - 1 : From(x) \in 1..n /\ socket_fds'[x] = socket_fds[From(x)]
    <3>1. /\ socket_fds' \in Seq(Int) /\ Len(socket_fds') = n - 1
          /\ \A x \in 1..n - 1 :
                socket_fds'[x] = IF x < r THEN socket_fds[x] ELSE socket_fds[x + 1]
      <4>1. n \in Nat /\ socket_fds \in Seq(Int) /\ Len(socket_fds) = n /\ r \in 1..n
        BY <2>2, <2>3, <2>4
      <4>2. /\ RemoveAt(socket_fds, r) \in Seq(Int)
            /\ Len(RemoveAt(socket_fds, r)) = n - 1
            /\ \A x \in 1..n - 1 : RemoveAt(socket_fds, r)[x] =
                  IF x < r THEN socket_fds[x] ELSE socket_fds[x + 1]
        BY <4>1, RemoveAtIs
      <4> QED
        BY <2>1, <4>2, Zenon
    <3>2. DOMAIN socket_fds' = 1..n - 1
      BY <2>3, <3>1
    <3> QED
      BY <2>3, <2>4, <3>1, <3>2, SMTT(30)
  <2>6. \A x, y \in 1..n - 1 :
           Ahead(From(x), From(y)) /\ From(x) # current_fd + 1 /\ From(y) # current_fd + 1
              => Ahead(x, y)'
    BY <1>2, <2>3, <2>4 DEF Ahead
  <2> HIDE DEF From
  <2>7. Settled' = Settled /\ \A f : MayFail(f)' <=> MayFail(f)
    BY <1>2 DEF Settled, MayFail, Reaches, Accepted, FdOf
  <2>8. TurnsTyped' /\ TakesTurns'
    BY <1>2, <1>3, <2>7 DEF TurnsInv, TurnsTyped, TakesTurns
  <2>9. WaitingIsAhead'
    <3> SUFFICES ASSUME races' = 0, NEW i \in DOMAIN turns, NEW p \in 1..n - 1,
                        NEW q \in 1..n - 1, turns[i].to = socket_fds'[q],
                        Waits(i, socket_fds[From(p)])
                 PROVE  Ahead(p, q)'
      BY <1>2, <2>5, <2>7 DEF WaitingIsAhead, Waits
    <3>1. /\ From(p) \in DOMAIN socket_fds /\ From(q) \in DOMAIN socket_fds
          /\ turns[i].to = socket_fds[From(q)] /\ races = 0
      BY <1>3, <2>3, <2>5
    <3>2. Ahead(From(p), From(q))
      BY <3>1 DEF TurnsInv, WaitingIsAhead
    <3>3. From(p) # current_fd + 1
      BY <1>3 DEF Current, Waits
    <3>4. From(q) # current_fd + 1
      BY <2>2, <2>3, <3>1, NobodyWaits DEF Current
    <3> QED
      BY <2>6, <3>2, <3>3, <3>4
  <2> QED
    BY <2>8, <2>9 DEF TurnsInv
<1> QED
  BY <1>2, <1>4, <1>5 DEF remove_fd

\* The acceptor's and the consumers' steps: a new descriptor comes after all the
\* others, and nobody waits for its turn yet.
LEMMA OthersTurns ==
    ASSUME DirectTypeInv, TurnsInv, OthersStep, UNCHANGED <<current_fd, topicVars>>
    PROVE  TurnsInv'
<1>1. SocketsInv /\ SocketsInv' /\ (races' = 0 => races = 0) /\ turns' = turns
  BY OthersInv DEF DirectTypeInv, SocketsInv, topicVars
<1>a. PICK k : k = Settled
  OBVIOUS
<1>b. PICK m : m = Settled'
  OBVIOUS
<1>2. k \in Nat /\ Len(accepted) \in Nat /\ k <= Len(accepted) /\ FirstFd \in Nat
  BY <1>a, VectorFacts, FirstFdAssumption
<1>3. m \in Nat /\ k <= m
  <2>1. CASE PushBack
    <3>1. m = Len(accepted)
      BY <1>1, <1>b, <2>1, PushBackVector
    <3> QED
      BY <1>2, <3>1
  <2>2. CASE \E d \in Peers : AcceptFd(d)
    <3>1. pushing = NoFd /\ pushing' = FirstFd + Len(accepted)
            /\ \E d : accepted' = Append(accepted, d)
      BY <2>2 DEF AcceptFd
    <3>2. FirstFd >= 1
      BY FirstFdAssumption
    <3>3. Len(accepted') = Len(accepted) + 1
      BY <1>1, <3>1 DEF SocketsInv
    <3> QED
      BY <1>2, <1>a, <1>b, <3>1, <3>2, <3>3 DEF Settled, NoFd
  <2>3. CASE \E d \in Peers : Connect(d) \/ Close(d)
    <3>1. UNCHANGED <<pushing, accepted>>
      BY <2>3 DEF Connect, Close, vectorVars
    <3> QED
      BY <1>2, <1>a, <1>b, <3>1 DEF Settled
  <2> QED
    BY <2>1, <2>2, <2>3 DEF OthersStep, Accepting
<1>4. \A f \in FirstFd..FirstFd + k - 1 : MayFail(f) => MayFail(f)'
  <2>1. \A f \in FirstFd..FirstFd + k - 1 : f \in FirstFd..FirstFd + Len(accepted) - 1
    BY <1>2
  <2> QED
    BY <1>1, <2>1, MayFailStays
<1>5. races' = 0 => \A i \in DOMAIN turns :
         turns[i].to \in turns[i].fds /\ turns[i].fds \subseteq FirstFd..FirstFd + k - 1
  BY <1>1, <1>a DEF TurnsInv, TurnsTyped
<1>6. TurnsTyped'
  <2>1. \A f \in FirstFd..FirstFd + k - 1 : f \in FirstFd..FirstFd + m - 1
    BY <1>2, <1>3
  <2> QED
    BY <1>1, <1>5, <1>b, <2>1 DEF TurnsInv, TurnsTyped
<1>7. TakesTurns'
  <2> SUFFICES ASSUME NEW i \in DOMAIN turns, NEW j \in DOMAIN turns, i < j,
                      turns[i].to = turns[j].to, races' = 0,
                      NEW f \in turns[i].fds \cap turns[j].fds
               PROVE  MayFail(f)' \/ \E l \in i..j - 1 : turns[l].to = f
    BY <1>1 DEF TakesTurns
  <2>1. MayFail(f) \/ \E l \in i..j - 1 : turns[l].to = f
    BY <1>1 DEF TurnsInv, TakesTurns
  <2>2. f \in FirstFd..FirstFd + k - 1
    BY <1>5
  <2> QED
    BY <1>4, <2>1, <2>2
<1>8. WaitingIsAhead'
  <2> SUFFICES ASSUME races' = 0, NEW i \in DOMAIN turns,
                      NEW p \in DOMAIN socket_fds', NEW q \in DOMAIN socket_fds',
                      turns[i].to = socket_fds'[q], Waits(i, socket_fds[p])'
               PROVE  Ahead(p, q)'
    BY <1>1 DEF WaitingIsAhead
  <2>1. /\ socket_fds'[p] \in turns[i].fds /\ ~MayFail(socket_fds[p])'
        /\ \A l \in i..Len(turns) : turns[l].to # socket_fds'[p]
    BY <1>1 DEF Waits
  <2>2. /\ socket_fds'[p] \in FirstFd..FirstFd + k - 1
        /\ socket_fds'[q] \in FirstFd..FirstFd + k - 1
    BY <1>5, <2>1
  <2>3. Waits(i, socket_fds'[p])
    BY <1>4, <2>1, <2>2 DEF Waits
  <2>4. \A x \in DOMAIN socket_fds' :
           socket_fds'[x] \in FirstFd..FirstFd + k - 1 =>
              x \in DOMAIN socket_fds /\ socket_fds'[x] = socket_fds[x]
    <3>1. CASE UNCHANGED socket_fds
      BY <3>1
    <3>2. CASE PushBack /\ socket_fds' = Append(socket_fds, pushing)
      <4>1. pushing = FirstFd + k
        BY <1>1, <1>a, <3>2, SettledIs DEF PushBack
      <4>2. pushing \notin FirstFd..FirstFd + k - 1
        BY <1>2, <4>1
      <4>3. PICK n : n = Len(socket_fds)
        OBVIOUS
      <4>4. n \in Nat /\ DOMAIN socket_fds = 1..n /\ DOMAIN socket_fds' = 1..n + 1
              /\ socket_fds'[n + 1] = pushing
              /\ \A x \in 1..n : socket_fds'[x] = socket_fds[x]
        BY <3>2, <4>3, VectorFacts
      <4> QED
        BY <4>2, <4>4
    <3> QED
      BY <1>1, <3>1, <3>2, OthersInv
  <2>5. Ahead(p, q)
    BY <1>1, <2>2, <2>3, <2>4 DEF TurnsInv, WaitingIsAhead
  <2> QED
    BY <2>5 DEF Ahead
<1> QED
  BY <1>6, <1>7, <1>8 DEF TurnsInv

\* Every step keeps TurnsInv.
LEMMA TurnsStep == DirectTypeInv /\ TurnsInv /\ [DirectNext]_directVars => TurnsInv'
<1> SUFFICES ASSUME DirectTypeInv, TurnsInv, [DirectNext]_directVars
             PROVE  TurnsInv'
  OBVIOUS
<1>1. CASE SetConsumerSocket \/ ReadMessage \/ Store \/ NoConsumers \/ UNCHANGED directVars
  <2>1. UNCHANGED <<turns, socket_fds, pushing, accepted, peer, races, current_fd>>
    BY <1>1 DEF SetConsumerSocket, ReadMessage, Store, NoConsumers, directVars, socketVars,
                topicVars, vectorVars
  <2> QED
    BY <2>1, TurnsKept
<1>2. CASE WriteLength
  <2>1. PICK fd : ReadFd(Wrapped, fd)
    BY <1>2 DEF WriteLength
  <2>2. UNCHANGED <<turns, socket_fds, pushing, accepted, peer>> /\ current_fd' = Wrapped
    BY <1>2 DEF WriteLength, vectorVars
  <2>3. races' = 0 => races = 0
    BY <2>1, ReadFdRaces DEF DirectTypeInv, SocketsInv
  <2> QED
    BY <2>2, <2>3, TurnsKept
<1>3. CASE WritePayload
  BY <1>3, WritePayloadTurns
<1>4. CASE FailPayload
  BY <1>4, FailPayloadTurns
<1>5. CASE Acceptor
  BY <1>5, OthersTurns DEF Acceptor, OthersStep, Accepting, PushBack, AcceptFd
<1>6. CASE \E c \in Peers : (Connect(c) \/ Close(c)) /\ UNCHANGED topicVars
  BY <1>6, OthersTurns DEF OthersStep, Connect, Close
<1> QED
  BY <1>1, <1>2, <1>3, <1>4, <1>5, <1>6 DEF DirectNext, Sender

\* For any number of consumers, failures and messages: unless a read of the vector
\* met a push_back, between two messages to one consumer every other that was
\* there at both and has not failed has had its turn, although a failed write
\* removes the wrong descriptor (connection_socket.h: write_msg, remove_fd).
THEOREM TakesTurnsHold == DirectSpec => []TakesTurns
<1>1. DirectInit => TurnsInv
  BY DEF DirectInit, TurnsInv, TurnsTyped, WaitingIsAhead, TakesTurns
<1>2. TurnsInv => TakesTurns
  BY DEF TurnsInv
<1> QED
  BY <1>1, <1>2, TurnsStep, DirectTypeInvariant, PTL DEF DirectSpec
=============================================================================
