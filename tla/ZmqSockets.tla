----------------------------- MODULE ZmqSockets -----------------------------
(***************************************************************************)
(* The bound ZMQ sockets through which a topic serves its consumers        *)
(* (connection_zmq.h) and the monitor thread each of them has              *)
(* (monitor_zmq.h).  libzmq connects and disconnects clients on its own    *)
(* threads and reports it as events; the monitor thread handles the events *)
(* later and keeps num_clients_, which is all the consumer thread looks at *)
(* when it decides whether to send.                                        *)
(*                                                                         *)
(* The monitor thread is started before bind, but registers with libzmq    *)
(* when it is scheduled: what happens before is never reported.            *)
(***************************************************************************)
EXTENDS Integers, Sequences, FiniteSets

CONSTANTS
    Clients,        \* consumer processes
    Sockets,        \* the broker's bound sockets
    SocketOf,       \* the socket each client connects to
    Hwm,            \* messages a client's pipe holds (high water mark)
    Uint32,         \* number of values of a uint32_t (2^32)
    MaxEvents       \* bound: events waiting for one monitor thread

ASSUME SocketOfAssumption == SocketOf \in [Clients -> Sockets]
ASSUME ClientsAssumption == IsFiniteSet(Clients)
ASSUME Uint32Assumption == Uint32 \in Nat /\ Uint32 > Cardinality(Clients)
ASSUME HwmAssumption == Hwm \in Nat \ {0} /\ MaxEvents \in Nat \ {0}

VARIABLES
    peer,           \* each client's connection, as libzmq knows it
    pipe,           \* messages sent to a client it has not received yet
    handed,         \* history: messages put into each client's pipe
    events,         \* events the monitor thread has not handled
    monitoring,     \* has the monitor thread registered with libzmq?
    num_clients,    \* num_clients_, an int32_t
    missed          \* history: clients connected when it registered

connectionVars == <<peer, pipe, events, missed>>
zmqVars == <<peer, pipe, handed, events, monitoring, num_clients, missed>>

Of(s) == {c \in Clients : SocketOf[c] = s}
Connected(s) == {c \in Of(s) : peer[c] # "off"}
Attached(s) == {c \in Of(s) : peer[c] = "attached"}

ZmqInit ==
    /\ peer = [c \in Clients |-> "off"]
    /\ pipe = [c \in Clients |-> 0]
    /\ handed = [c \in Clients |-> <<>>]
    /\ events = [s \in Sockets |-> <<>>]
    /\ monitoring = [s \in Sockets |-> FALSE]
    /\ num_clients = [s \in Sockets |-> 0]
    /\ missed = [s \in Sockets |-> 0]
-----------------------------------------------------------------------------
(***************************************************************************)
(* libzmq's side (external), on its I/O thread.                            *)
(***************************************************************************)

\* An event is queued for the monitor thread if there is one; "by" is what the
\* event means for the number of connected clients.
Report(s, event, by) ==
    IF monitoring[s]
    THEN /\ Len(events[s]) < MaxEvents
         /\ events' = [events EXCEPT ![s] = Append(@, event)]
         /\ UNCHANGED missed
    ELSE /\ missed' = [missed EXCEPT ![s] = @ + by]
         /\ UNCHANGED events

\* A client's TCP connection is accepted ...
Accept(c) ==
    /\ peer[c] = "off"
    /\ peer' = [peer EXCEPT ![c] = "accepted"]
    /\ Report(SocketOf[c], "accepted", 1)
    /\ UNCHANGED <<pipe, handed, monitoring, num_clients>>

\* ... and after the handshake its pipe is attached to the socket.
Attach(c) ==
    /\ peer[c] = "accepted"
    /\ peer' = [peer EXCEPT ![c] = "attached"]
    /\ UNCHANGED <<pipe, handed, events, monitoring, num_clients, missed>>

\* The connection is closed or breaks; what its pipe held is lost.
Disconnect(c) ==
    /\ peer[c] # "off"
    /\ peer' = [peer EXCEPT ![c] = "off"]
    /\ pipe' = [pipe EXCEPT ![c] = 0]
    /\ Report(SocketOf[c], "disconnected", -1)
    /\ UNCHANGED <<handed, monitoring, num_clients>>

\* The client takes a message.
Receive(c) ==
    /\ pipe[c] > 0
    /\ pipe' = [pipe EXCEPT ![c] = @ - 1]
    /\ UNCHANGED <<peer, handed, events, monitoring, num_clients, missed>>
-----------------------------------------------------------------------------
(***************************************************************************)
(* The monitor thread.                                                     *)
(***************************************************************************)

\* zmq_socket_monitor succeeds.
MonitorStarts(s) ==
    /\ ~monitoring[s]
    /\ monitoring' = [monitoring EXCEPT ![s] = TRUE]
    /\ UNCHANGED <<connectionVars, handed, num_clients>>

HandleEvent(s, event, by) ==
    /\ events[s] # <<>>
    /\ Head(events[s]) = event
    /\ events' = [events EXCEPT ![s] = Tail(@)]
    /\ num_clients' = [num_clients EXCEPT ![s] = @ + by]
    /\ UNCHANGED <<peer, pipe, handed, monitoring, missed>>

on_event_accepted(s) == HandleEvent(s, "accepted", 1)

\* Mutated form of on_event_disconnected: the client stays counted.
on_event_disconnected_ignored(s) == HandleEvent(s, "disconnected", 0)

on_event_disconnected(s) == HandleEvent(s, "disconnected", -1)

Monitor(s) ==
    \/ MonitorStarts(s)
    \/ on_event_accepted(s)
    \/ on_event_disconnected(s)
-----------------------------------------------------------------------------
(***************************************************************************)
(* The consumer thread's side.                                             *)
(***************************************************************************)

\* get_num_connected_clients() > 0: the int32_t is returned as a uint32_t, so
\* a negative count is a large number of clients.
get_num_connected_clients(s) == num_clients[s] % Uint32
SeesClients(s) == get_num_connected_clients(s) > 0

HasRoom(c) == peer[c] = "attached" /\ pipe[c] < Hwm

\* write_msg puts m into the pipe of every client in cs.
HandTo(cs, m) ==
    /\ pipe' = [c \in Clients |-> IF c \in cs THEN pipe[c] + 1 ELSE pipe[c]]
    /\ handed' = [c \in Clients |->
                    IF c \in cs THEN Append(handed[c], m) ELSE handed[c]]
    /\ UNCHANGED <<peer, events, monitoring, num_clients, missed>>

\* A PUSH socket: the message goes to one client with room; s_send blocks, in
\* the consumer thread, as long as there is none.
PushTo(s, m) == \E c \in Attached(s) : HasRoom(c) /\ HandTo({c}, m)

\* A PUB socket: the topic frame, then the message, to every subscriber with
\* room.  It never blocks; a subscriber without room misses the message.
PubTo(s, m) == HandTo({c \in Attached(s) : HasRoom(c)}, m)
-----------------------------------------------------------------------------
Network ==
    \E c \in Clients : Accept(c) \/ Attach(c) \/ Disconnect(c) \/ Receive(c)

Environment == Network \/ \E s \in Sockets : Monitor(s)

\* libzmq finishes handshakes, the monitor threads run, and clients take what
\* they are sent.  Nobody has to connect, or to stay connected.
EnvironmentFairness ==
    /\ \A c \in Clients : WF_zmqVars(Attach(c)) /\ WF_zmqVars(Receive(c))
    /\ \A s \in Sockets : WF_zmqVars(Monitor(s))
-----------------------------------------------------------------------------
(***************************************************************************)
(* Properties.                                                             *)
(***************************************************************************)

Net(evs) ==
    Cardinality({i \in DOMAIN evs : evs[i] = "accepted"})
      - Cardinality({i \in DOMAIN evs : evs[i] = "disconnected"})

\* The type invariant: only a client whose pipe is attached has messages in it,
\* within the high water mark.
ZmqTypeOK ==
    /\ peer \in [Clients -> {"off", "accepted", "attached"}]
    /\ pipe \in [Clients -> 0..Hwm]
    /\ \A c \in Clients : pipe[c] > 0 => peer[c] = "attached"
    /\ \A s \in Sockets : \A i \in DOMAIN events[s] :
          events[s][i] \in {"accepted", "disconnected"}
    /\ monitoring \in [Sockets -> BOOLEAN]
    /\ num_clients \in [Sockets -> Int]

\* The count is right once the events are handled, except for the clients that
\* were there before the monitor thread registered.  (monitor_zmq.h: the ++ and
\* -- of on_event_accepted and on_event_disconnected.)
CountFollowsEvents ==
    \A s \in Sockets :
        num_clients[s] + Net(events[s]) + missed[s] = Cardinality(Connected(s))
=============================================================================
