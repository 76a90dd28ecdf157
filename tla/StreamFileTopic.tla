-------------------------- MODULE StreamFileTopic --------------------------
(***************************************************************************)
(* A topic of type "file" or "queue_file" whose consumers use a stream     *)
(* socket: the writer and the files of FileTopic, and a consumer thread    *)
(* that sends the bytes of the files, as they are, with sendfile           *)
(* (consumer::sendfile_to_socket, the send_file of connection_file.h and   *)
(* of file_details.h).  There is one offset for all consumers; who is next *)
(* in StreamSockets' vector gets the next bytes, up to MaxChunk of them.   *)
(*                                                                         *)
(* FileTopic's position is current_write_offset_, and total_bytes_read_,   *)
(* which is moved with it; the phases "scan" and the scan for the file are *)
(* FileTopic's.                                                            *)
(***************************************************************************)
EXTENDS FileTopic, StreamSockets, FiniteSetsExt

CONSTANTS
    MaxChunk,       \* utils::max_msg_size, the most one call sends
    Apple           \* is sendfile called as __APPLE__ does, or as on Linux?

ASSUME ChunkAssumption == MaxChunk \in Nat \ {0} /\ Apple \in BOOLEAN

VARIABLES
    target,     \* the descriptor that is next
    sent,       \* history: the bytes sent so far, whoever got them
    overtaken   \* history: has the writer filled files behind a scan?

senderVars == <<target, sent, overtaken>>
streamVars == <<fileVars, socketVars, senderVars>>

StreamInit ==
    /\ FileInit
    /\ SocketInit
    /\ target = NoFd
    /\ sent = <<>>
    /\ overtaken = FALSE
-----------------------------------------------------------------------------
Quiet == UNCHANGED <<disk, writerVars, rmsg, fetched, crashVars>>

\* Mutated form of PollStream: the thread waits for one byte more.
PollStreamOffByOne ==
    /\ rpc = "poll"
    /\ total > position + Header
    /\ rpc' = "pick"
    /\ UNCHANGED <<ri, roff, position, socketVars, senderVars>>
    /\ Quiet

\* while (written < write offset + sizeof(uint32_t)) sleep.
PollStream ==
    /\ rpc = "poll"
    /\ total >= position + Header
    /\ rpc' = "pick"
    /\ UNCHANGED <<ri, roff, position, socketVars, senderVars>>
    /\ Quiet

\* "No consumer to send data"
NoConsumer ==
    /\ rpc = "pick"
    /\ socket_fds = <<>>
    /\ rpc' = "poll"
    /\ UNCHANGED <<ri, roff, position, socketVars, senderVars>>
    /\ Quiet

\* get_next_fd, and send_file begins to look for the file.  (The total is past the
\* offset already.)
get_next_fd ==
    /\ rpc = "pick"
    /\ socket_fds # <<>>
    /\ \E fd \in ToSet(socket_fds) \cup {Wild} : ReadFd(Wrapped, fd) /\ target' = fd
    /\ current_fd' = Wrapped + 1
    /\ rpc' = "scan"
    /\ ri' = 1
    /\ roff' = position
    /\ UNCHANGED <<position, vectorVars, peer, accepted, sent, overtaken>>
    /\ Quiet

\* The file at ri is the one.
Found == rpc = "scan" /\ ri <= Len(fds) /\ position < fds[ri].cum

\* How many bytes: never more than the file has; those of a record that is being
\* written are among them.  (Where the offset is negative, it is so in a uint64_t,
\* and the sum it is compared in wraps around.)
Size == LET left == fds[ri].offset - LocalOffset
        IN  IF left > MaxChunk /\ LocalOffset >= -MaxChunk THEN MaxChunk ELSE left

\* Mutated form of SendfileOffset: the offset is not reduced for later files.
SendfileOffsetGlobal == roff

\* Where sendfile starts.  On Linux it is given the size in the place of the offset.
SendfileOffset == IF Apple THEN LocalOffset ELSE Size

\* The bytes of the file at ri that sendfile finds there; a negative offset is an
\* error.
Chunk == LET file == disk[fds[ri].file]
             last == Min({Len(file), SendfileOffset + Size})
         IN  IF SendfileOffset < 0 THEN <<>> ELSE SubSeq(file, SendfileOffset + 1, last)

\* Mutated form of SendChunk: the offset moves by what was asked for.
SendChunkAsked ==
    /\ Found
    /\ Chunk # <<>>
    /\ target # Wild
    /\ position' = position + MaxChunk
    /\ sent' = sent \o Chunk
    /\ target' = NoFd
    /\ rpc' = "poll"
    /\ UNCHANGED <<ri, roff, socketVars, overtaken>>
    /\ Quiet

\* sendfile sent them all, and the offset moves.
SendChunk ==
    /\ Found
    /\ Chunk # <<>>
    /\ target # Wild
    /\ position' = position + Len(Chunk)
    /\ sent' = sent \o Chunk
    /\ target' = NoFd
    /\ rpc' = "poll"
    /\ UNCHANGED <<ri, roff, socketVars, overtaken>>
    /\ Quiet

\* sendfile failed, or sent nothing: send_file returns -1, and the consumer is
\* removed.  The bytes go to the next.  If the writer counted the file of the offset
\* and began another after the scan had passed the first, there is no such offset
\* in the one that is found, and the consumer is removed all the same.
FailChunk ==
    /\ Found
    /\ Chunk = <<>> \/ MayFail(target)
    /\ remove_fd(target)
    /\ overtaken' = (overtaken \/ LocalOffset < 0)
    /\ target' = NoFd
    /\ rpc' = "poll"
    /\ UNCHANGED <<ri, roff, position, pushing, before, peer, accepted, current_fd,
                   races, sent>>
    /\ Quiet

StreamReader ==
    \/ PollStream \/ NoConsumer \/ get_next_fd
    \/ SkipFile /\ UNCHANGED <<socketVars, senderVars>>
    \/ NoFile /\ target' = NoFd /\ UNCHANGED <<socketVars, sent, overtaken>>
    \/ SendChunk \/ FailChunk

StreamWriter == Writer /\ UNCHANGED <<socketVars, senderVars>>
Acceptor == Accepting /\ UNCHANGED <<fileVars, senderVars>>

StreamNext ==
    \/ ReadProducer /\ UNCHANGED <<socketVars, senderVars>>
    \/ StreamWriter
    \/ StreamReader
    \/ Acceptor
    \/ \E c \in Peers : (Connect(c) \/ Close(c)) /\ UNCHANGED <<fileVars, senderVars>>

StreamSpec == StreamInit /\ [][StreamNext]_streamVars

\* The threads run on.
FairStreamSpec ==
    /\ StreamSpec
    /\ WF_streamVars(StreamWriter)
    /\ WF_streamVars(StreamReader)
    /\ WF_streamVars(Acceptor)
-----------------------------------------------------------------------------
(***************************************************************************)
(* Properties.                                                             *)
(***************************************************************************)

\* The type invariant: while the thread scans it has a consumer to send to.
StreamTypeOK ==
    /\ SocketTypeOK
    /\ rpc \in {"poll", "pick", "scan"}
    /\ target # NoFd <=> rpc = "scan"
    /\ Len(fetched) = 0 /\ rmsg = Nothing
    /\ Len(sent) = position

Record1(m) == Bytes(m, 1, Header + m.len)

\* The records of the log so far, the one that is being written included, until
\* a write stops half way.
LogBytes ==
    FlattenSeq([i \in DOMAIN intact |-> Record1(intact[i])])
      \o (IF wpc \in {"length", "payload", "count"} /\ ~torn THEN Record1(wmsg) ELSE <<>>)

\* The bytes that were sent, whoever got them, are the bytes of the log from its
\* start, each once and in order, while the writer writes, rolls over to the next
\* file and is between two of its counts, and consumers fail and are replaced.
\* A write that stops half way spoils what is sent after the log up to there.
SentIsLogPrefix == IsPrefix(sent, LogBytes) \/ (torn /\ IsPrefix(LogBytes, sent))

\* A consumer that is there is removed only if the writer overtook a scan.
RemovedOnlyIfOvertaken == OpenIsServed \/ overtaken

\* As long as one consumer stays, the thread catches up again and again, but for
\* the last Header - 1 bytes, for which it does not wake up.
CommittedIsSent ==
    (\E c \in Peers : <>[](Accepted(c) /\ peer[c] = "open" /\ races = 0 /\ ~overtaken)) =>
        []<>(total < position + Header)
=============================================================================
