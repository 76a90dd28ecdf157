--------------------------- MODULE StreamSockets ---------------------------
(***************************************************************************)
(* The stream socket through which a topic serves its consumers            *)
(* (connection_socket.h): a thread accepts connections and appends their   *)
(* descriptors to the vector fds_, from which the sending thread takes     *)
(* them in turn and removes those that failed.  There is no lock, so what  *)
(* one thread does during a push_back of the other may be undone by it,    *)
(* and what it reads then may be no element of the vector.                 *)
(*                                                                         *)
(* Descriptors are never closed, so their numbers are not used again.      *)
(***************************************************************************)
EXTENDS Integers, Sequences, SequencesExt

CONSTANTS
    Peers,          \* consumer processes; each connects once
    FirstFd,        \* the descriptor of the first connection
    MaxRaces        \* bound: reads that met a push_back

ASSUME FirstFdAssumption == FirstFd \in Nat \ {0} /\ MaxRaces \in Nat

VARIABLES
    peer,           \* each consumer: not yet connected, connected, or gone
    accepted,       \* the consumers accepted so far, in order
    socket_fds,     \* fds_
    current_fd,     \* current_fd_index_
    pushing,        \* the descriptor push_back is about to append, if any
    before,         \* what the vector was when it began
    races           \* history: how often one thread met the other's push_back

vectorVars == <<socket_fds, pushing, before>>
socketVars == <<vectorVars, peer, accepted, current_fd, races>>

NoFd == 0
Wild == -1      \* what is read in the place of a descriptor; nobody's

FdOf(c) == FirstFd - 1 + (CHOOSE i \in DOMAIN accepted : accepted[i] = c)
Accepted(c) == \E i \in DOMAIN accepted : accepted[i] = c
\* Does a write to fd reach c?
Reaches(fd, c) == Accepted(c) /\ FdOf(c) = fd /\ peer[c] = "open"

SocketInit ==
    /\ peer = [c \in Peers |-> "away"]
    /\ accepted = <<>>
    /\ socket_fds = <<>>
    /\ current_fd = 0
    /\ pushing = NoFd
    /\ before = <<>>
    /\ races = 0
-----------------------------------------------------------------------------
(***************************************************************************)
(* The consumers (external).                                               *)
(***************************************************************************)

\* The kernel completes the connection and keeps it until it is accepted.
Connect(c) ==
    /\ peer[c] = "away"
    /\ peer' = [peer EXCEPT ![c] = "open"]
    /\ UNCHANGED <<vectorVars, accepted, current_fd, races>>

\* The consumer ends or its connection breaks.
Close(c) ==
    /\ peer[c] = "open"
    /\ peer' = [peer EXCEPT ![c] = "closed"]
    /\ UNCHANGED <<vectorVars, accepted, current_fd, races>>
-----------------------------------------------------------------------------
(***************************************************************************)
(* The accepting thread.                                                   *)
(***************************************************************************)

\* accept returns, and push_back begins.
AcceptFd(c) ==
    /\ pushing = NoFd
    /\ peer[c] # "away" /\ ~Accepted(c)
    /\ accepted' = Append(accepted, c)
    /\ pushing' = FirstFd + Len(accepted)
    /\ before' = socket_fds
    /\ UNCHANGED <<peer, socket_fds, current_fd, races>>

\* push_back is done.  If the other thread removed an element meanwhile, one of
\* the two may have written over what the other did.
PushBack ==
    /\ pushing # NoFd
    /\ \/ socket_fds' = Append(socket_fds, pushing)
       \/ socket_fds # before /\ socket_fds' \in {Append(before, pushing), socket_fds}
    /\ races' = races + (IF socket_fds # before THEN 1 ELSE 0)
    /\ pushing' = NoFd
    /\ before' = <<>>
    /\ UNCHANGED <<peer, accepted, current_fd>>

Accepting == PushBack \/ \E c \in Peers : AcceptFd(c)
-----------------------------------------------------------------------------
(***************************************************************************)
(* What the sending thread does with the vector.                           *)
(***************************************************************************)

\* "if (current_fd_index_ >= fds_.size()) current_fd_index_ = 0"
Wrapped == IF current_fd >= Len(socket_fds) THEN 0 ELSE current_fd

\* fds_[i] is read: push_back may have moved the elements.
ReadFd(i, fd) ==
    \/ fd = socket_fds[i + 1] /\ UNCHANGED races
    \/ pushing # NoFd /\ races < MaxRaces /\ fd = Wild /\ races' = races + 1

\* A write to fd succeeds while the consumer is there, and may succeed later, into
\* a buffer; it fails only if nobody is there.
MayFail(fd) == \A c \in Peers : ~Reaches(fd, c)

\* Mutated form of remove_fd: the last descriptor goes as well.
remove_fd_last(fd) ==
    socket_fds' = SelectSeq(IF socket_fds = <<>> THEN <<>> ELSE Front(socket_fds),
                            LAMBDA e : e # fd)

\* erase(remove(begin, end, fd), end): by value.  The vector is ascending, so that
\* it has fd once at most.
remove_fd(fd) ==
    \/ fd \notin ToSet(socket_fds) /\ UNCHANGED socket_fds
    \/ \E i \in DOMAIN socket_fds :
          socket_fds[i] = fd /\ socket_fds' = RemoveAt(socket_fds, i)
-----------------------------------------------------------------------------
(***************************************************************************)
(* Properties.                                                             *)
(***************************************************************************)

\* The type invariant: the vector holds descriptors of accepted consumers, in the
\* order in which they were accepted.
SocketTypeOK ==
    /\ peer \in [Peers -> {"away", "open", "closed"}]
    /\ \A i \in DOMAIN accepted : peer[accepted[i]] # "away"
    /\ IsInjective(accepted)
    /\ \A i \in DOMAIN socket_fds :
          socket_fds[i] \in FirstFd..FirstFd + Len(accepted) - 1
    /\ \A i, j \in DOMAIN socket_fds : i < j => socket_fds[i] < socket_fds[j]
    /\ current_fd \in 0..Len(accepted)
    /\ pushing \in {NoFd, FirstFd + Len(accepted) - 1}
    /\ races \in Nat

\* A consumer that is there and was accepted stays among those who are served:
\* only a failed consumer is removed, unless the threads met.
OpenIsServed ==
    \A c \in Peers :
        Accepted(c) /\ peer[c] = "open" /\ races = 0 =>
            \/ pushing = FdOf(c)
            \/ \E i \in DOMAIN socket_fds : socket_fds[i] = FdOf(c)
=============================================================================
