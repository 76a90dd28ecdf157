---------------------------- MODULE DirectTopic ----------------------------
(***************************************************************************)
(* A topic of type "direct" whose consumers use a stream socket: the       *)
(* producer thread itself writes every message, its length and then its    *)
(* payload, to the next consumer (broker_storage::direct_write_consumer,   *)
(* connection_socket::write_msg).  Nothing is stored.                      *)
(***************************************************************************)
EXTENDS StreamSockets

CONSTANT MaxMsgs        \* bound: messages published

ASSUME DirectAssumption == MaxMsgs \in Nat

VARIABLES
    joined,         \* has the storage got p_consumer_socket_?
    wpc,            \* phase of the producer thread
    published,      \* messages it has read; the last one may be in its hands
    stream,         \* what each consumer's connection carried
    turns           \* history: payloads written, to whom and who else was there

topicVars == <<joined, wpc, published, stream, turns>>
directVars == <<socketVars, topicVars>>

DirectInit ==
    /\ SocketInit
    /\ joined = FALSE
    /\ wpc = "read"
    /\ published = 0
    /\ stream = [c \in Peers |-> <<>>]
    /\ turns = <<>>
-----------------------------------------------------------------------------
\* set_consumer_socket.  The socket listens from a moment before.
SetConsumerSocket ==
    /\ ~joined
    /\ joined' = TRUE
    /\ UNCHANGED <<socketVars, wpc, published, stream, turns>>

\* read_msg on the producer socket: a message that is not empty.
ReadMessage ==
    /\ wpc = "read"
    /\ published < MaxMsgs
    /\ published' = published + 1
    /\ wpc' = "store"
    /\ UNCHANGED <<socketVars, joined, stream, turns>>

\* direct_write_consumer: "Consumer socket must be set for broker type direct".
\* Where it is not, the producer thread ends.
Store ==
    /\ wpc = "store"
    /\ wpc' = IF joined THEN "length" ELSE "ended"
    /\ UNCHANGED <<socketVars, joined, published, stream, turns>>

\* Mutated form of NoConsumers: the thread waits for one.
NoConsumersWaits ==
    /\ wpc = "length"
    /\ socket_fds = <<>>
    /\ FALSE
    /\ UNCHANGED directVars

\* write_msg: "no consumers".  The message is dropped.
NoConsumers ==
    /\ wpc = "length"
    /\ socket_fds = <<>>
    /\ wpc' = "read"
    /\ UNCHANGED <<socketVars, joined, published, stream, turns>>

\* A part of the message reaches the consumer fd is the connection of, if it is
\* there.
Carry(fd, part) ==
    stream' = [c \in Peers |->
                 IF Reaches(fd, c)
                 THEN Append(stream[c], [msg |-> published, part |-> part])
                 ELSE stream[c]]

\* Mutated form of WriteLength: the index is not kept within the vector.
WriteLengthUnwrapped ==
    /\ wpc = "length"
    /\ socket_fds # <<>>
    /\ \E fd \in ToSet(socket_fds) \cup {Wild} : ReadFd(Wrapped, fd) /\ Carry(fd, "length")
    /\ wpc' = "payload"
    /\ UNCHANGED <<vectorVars, peer, accepted, current_fd, joined, published, turns>>

\* write_size.  Its result is compared with a size_t's size, which it never has:
\* no failure is noticed.
WriteLength ==
    /\ wpc = "length"
    /\ socket_fds # <<>>
    /\ current_fd' = Wrapped
    /\ \E fd \in ToSet(socket_fds) \cup {Wild} : ReadFd(Wrapped, fd) /\ Carry(fd, "length")
    /\ wpc' = "payload"
    /\ UNCHANGED <<vectorVars, peer, accepted, joined, published, turns>>

\* The message has been written to fd.
Written(fd) ==
    /\ Carry(fd, "payload")
    /\ turns' = Append(turns, [to |-> fd, fds |-> ToSet(socket_fds)])
    /\ current_fd' = current_fd + 1
    /\ wpc' = "read"

\* Mutated form of WritePayload: it goes on with the next descriptor.
WritePayloadAgain ==
    /\ wpc = "payload"
    /\ \E fd \in ToSet(socket_fds) \cup {Wild} :
          /\ ReadFd(current_fd, fd)
          /\ fd # Wild
          /\ Carry(fd, "payload")
          /\ turns' = Append(turns, [to |-> fd, fds |-> ToSet(socket_fds)])
          /\ current_fd' = current_fd + 1
          /\ wpc' = IF current_fd' < Len(socket_fds) THEN "payload" ELSE "read"
    /\ UNCHANGED <<vectorVars, peer, accepted, joined, published>>

\* Mutated form of WritePayload: the index moves before the payload is written.
WritePayloadToNext ==
    /\ wpc = "payload"
    /\ current_fd' = (current_fd + 1) % Len(socket_fds)
    /\ \E fd \in ToSet(socket_fds) \cup {Wild} :
          /\ ReadFd(current_fd', fd)
          /\ fd # Wild
          /\ Carry(fd, "payload")
          /\ turns' = Append(turns, [to |-> fd, fds |-> ToSet(socket_fds)])
    /\ wpc' = "read"
    /\ UNCHANGED <<vectorVars, peer, accepted, joined, published>>

\* Mutated form of WritePayload: the index stays.
WritePayloadSameFd ==
    /\ wpc = "payload"
    /\ \E fd \in ToSet(socket_fds) \cup {Wild} :
          /\ ReadFd(current_fd, fd)
          /\ fd # Wild
          /\ Carry(fd, "payload")
          /\ turns' = Append(turns, [to |-> fd, fds |-> ToSet(socket_fds)])
    /\ wpc' = "read"
    /\ UNCHANGED <<vectorVars, peer, accepted, current_fd, joined, published>>

\* write_buffer on the payload.  A part of it counts as the whole.
WritePayload ==
    /\ wpc = "payload"
    /\ \E fd \in ToSet(socket_fds) \cup {Wild} :
          ReadFd(current_fd, fd) /\ fd # Wild /\ Written(fd)
    /\ UNCHANGED <<vectorVars, peer, accepted, joined, published>>

\* Mutated form of FailPayload: the thread ends.
FailPayloadEnds ==
    /\ wpc = "payload"
    /\ \E fd \in ToSet(socket_fds) \cup {Wild} :
          ReadFd(current_fd, fd) /\ MayFail(fd)
    /\ wpc' = "ended"
    /\ UNCHANGED <<vectorVars, peer, accepted, current_fd, joined, published, stream,
                   turns>>

\* write_buffer returned -1.  remove_fd is given the index, not the descriptor, and
\* the same index is tried again.
FailPayload ==
    /\ wpc = "payload"
    /\ \E fd \in ToSet(socket_fds) \cup {Wild} :
          ReadFd(current_fd, fd) /\ MayFail(fd)
    /\ remove_fd(current_fd)
    /\ wpc' = "length"
    /\ UNCHANGED <<pushing, before, peer, accepted, current_fd, joined, published,
                   stream, turns>>

Sender == Store \/ NoConsumers \/ WriteLength \/ WritePayload \/ FailPayload

Acceptor == Accepting /\ UNCHANGED topicVars

DirectNext ==
    \/ SetConsumerSocket
    \/ ReadMessage
    \/ Sender
    \/ Acceptor
    \/ \E c \in Peers : (Connect(c) \/ Close(c)) /\ UNCHANGED topicVars

DirectSpec == DirectInit /\ [][DirectNext]_directVars

\* Both threads run on, and consumers that are there read what they are sent.
FairDirectSpec == DirectSpec /\ WF_directVars(Sender) /\ WF_directVars(Acceptor)
-----------------------------------------------------------------------------
(***************************************************************************)
(* Properties.                                                             *)
(***************************************************************************)

\* The type invariant: the thread has an index into the vector while it writes.
DirectTypeOK ==
    /\ SocketTypeOK
    /\ joined \in BOOLEAN
    /\ wpc \in {"read", "store", "length", "payload", "ended"}
    /\ wpc = "payload" => current_fd < Len(socket_fds)
    /\ published \in 0..MaxMsgs
    /\ \A c \in Peers : stream[c] # <<>> => Accepted(c)

Got(c, m) == {i \in DOMAIN stream[c] : stream[c][i] = [msg |-> m, part |-> "payload"]}

\* Load balancing: no payload is written to two consumers, or to one of them
\* twice, whatever fails and is tried again while others connect.
OnePayloadPerMessage ==
    \A m \in 1..MaxMsgs : \A c, d \in Peers :
        Got(c, m) # {} /\ Got(d, m) # {} => c = d /\ \E i \in Got(c, m) : Got(c, m) = {i}

\* A consumer that stays gets whole messages: every length is followed by its
\* payload, and every payload comes after its length, unless the threads met.
\* (The writer looks the descriptor up twice, and a consumer may be accepted in
\* between.)
WholeMessages ==
    races = 0 =>
        \A c \in Peers : \A i \in DOMAIN stream[c] :
            LET s == stream[c]
                \* the other part of the same message
                Whole(j, part) == j \in DOMAIN s /\ s[j] = [msg |-> s[i].msg, part |-> part]
            IN  IF s[i].part = "payload"
                THEN Whole(i - 1, "length")
                ELSE \/ Whole(i + 1, "payload")
                     \/ peer[c] = "closed"
                     \/ i = Len(s) /\ wpc = "payload" /\ s[i].msg = published

\* Round robin: between two messages to one consumer, every other that was there
\* at both and has not failed has had its turn, although the wrong descriptors are
\* removed, unless the threads met.
TakesTurns ==
    \A i, j \in DOMAIN turns :
        i < j /\ turns[i].to = turns[j].to /\ races = 0 =>
            \A fd \in turns[i].fds \cap turns[j].fds :
                MayFail(fd) \/ \E k \in i..j - 1 : turns[k].to = fd

\* A topic that once worked works on: failed writes do not end its thread, only a
\* message that came before there was a consumer.
EndsOnlyBeforeConsumer == wpc = "ended" => turns = <<>> /\ \A c \in Peers : stream[c] = <<>>

\* Whoever the thread writes to, it gets done with every message, unless the
\* consumer whose turn it is has failed.
GetsDone ==
    wpc = "length" ~>
        \/ wpc = "read"
        \/ socket_fds # <<>> /\ MayFail(socket_fds[Wrapped + 1])

\* "don't increment because we failed so next would be next element"
\* (connection_socket.h): after a failed write another descriptor is next.
NextIsNextElement ==
    [][FailPayload /\ races' = 0 /\ socket_fds' # <<>> =>
          socket_fds'[(current_fd' % Len(socket_fds')) + 1] # socket_fds[current_fd + 1]]_directVars
=============================================================================
