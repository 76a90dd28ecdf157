------------------------------ MODULE FileTopic ------------------------------
(***************************************************************************)
(* A topic of type "file" or "queue_file": the durable log of              *)
(* connection_file.h and file_details.h, read by the consumer thread of a  *)
(* ZMQ consumer (broker_storage::file_to_consumer).  Its writer is the     *)
(* producer thread of a file topic; on a queue_file topic it is the thread *)
(* that moves messages from the queue to the file.                         *)
(*                                                                         *)
(* A record is the length of a message followed by its payload, appended   *)
(* to the current file; a new file is begun when the total has passed a    *)
(* multiple of the file size.  Each file remembers the total written when  *)
(* it was last written to, which is how the reader, who knows one global   *)
(* offset, finds the file to read.  The threads share these numbers with   *)
(* no lock: the writer's steps between two of them are steps of their own, *)
(* and so are the reader's between two files.                              *)
(*                                                                         *)
(* File contents are kept byte by byte, a byte being the place it was      *)
(* written for: [msg, at], the at-th byte of the record of message msg.    *)
(***************************************************************************)
EXTENDS Integers, Sequences, SequencesExt

CONSTANTS
    Lengths,        \* payload lengths
    Header,         \* bytes of the length field (sizeof(uint32_t) = 4)
    MaxFileSize,    \* max_file_size_
    Faults,         \* what may fail: "create", "length", "payload"
    MaxMsgs,        \* bound: messages published
    MaxRestarts     \* bound: crashes of the broker

Messages == [num : 1..MaxMsgs, len : Lengths]
Nothing == [num |-> 0, len |-> 0]   \* no message, or bytes that are no message

ASSUME FileLengthsAssumption == Lengths \subseteq Nat \ {0}
ASSUME HeaderAssumption == Header \in Nat /\ Header >= 2
ASSUME FaultsAssumption == Faults \subseteq {"create", "length", "payload"}
ASSUME FileBoundsAssumption == MaxMsgs \in Nat /\ MaxRestarts \in Nat
\* Messages are far smaller than files (1 MiB against 2 GB).
ASSUME FileSizeAssumption ==
    MaxFileSize \in Nat /\ \A len \in Lengths : Header + len <= MaxFileSize

VARIABLES
    disk,       \* the contents of the files, by number
    fds,        \* file_fds_: number, offset_ and bytes_written_across_all_files_
    current,    \* current_fd_index_
    total,      \* total_bytes_writen_
    wpc,        \* phase of the producer thread
    wmsg,       \* the message it writes
    written,    \* the result of write_msg
    rpc,        \* phase of the consumer thread
    ri,         \* the file it looks at, in read
    roff,       \* its offset_currentfile
    position,   \* total_bytes_read_
    rmsg,       \* the message in buffer_
    published,  \* history: messages published so far
    committed,  \* history: messages this broker wrote and counted, in order
    torn,       \* history: did a write of its stop after some of the bytes?
    intact,     \* history: the messages it committed before one did
    fetched,    \* history: messages it read from the files, in order
    storage,    \* the type of the topic: "file" or "queue_file"
    earlier,    \* history: messages earlier brokers committed and did not fetch
    restarts    \* history: crashes so far

logVars == <<committed, torn, intact>>
writerVars == <<fds, current, total, wpc, wmsg, written, published, logVars>>
readerVars == <<rpc, ri, roff, position, rmsg, fetched>>
crashVars == <<storage, earlier, restarts>>
fileVars == <<disk, writerVars, readerVars, crashVars>>

MemoryInit ==
    /\ fds = <<>>
    /\ current = 0
    /\ total = 0
    /\ wpc = "read"
    /\ wmsg = Nothing
    /\ written = 0
    /\ rpc = "poll"
    /\ ri = 1
    /\ roff = 0
    /\ position = 0
    /\ rmsg = Nothing

FileInit ==
    /\ MemoryInit
    /\ storage \in {"file", "queue_file"}
    /\ disk = [f \in 0..MaxMsgs |-> <<>>]
    /\ published = 0
    /\ committed = <<>>
    /\ torn = FALSE
    /\ intact = <<>>
    /\ fetched = <<>>
    /\ earlier = {}
    /\ restarts = 0
-----------------------------------------------------------------------------
(***************************************************************************)
(* The writer.                                                             *)
(***************************************************************************)

\* The bytes first..last of the record of message m.
Bytes(m, first, last) == [i \in 1..(last - first + 1) |-> [msg |-> m, at |-> first + i - 1]]

\* pwrite: the bytes replace what the file had at that offset, if anything.
PWrite(file, offset, bytes) ==
    SubSeq(file, 1, offset) \o bytes
      \o SubSeq(file, offset + Len(bytes) + 1, Len(file))

\* The file being written.  Where current is out of range the program's step is
\* undefined; the model has none.
Fd == fds[current + 1]
InRange == current < Len(fds)

\* write_buffer, write_length: bytes go to offset_ of the current file.
Write(bytes) ==
    /\ InRange
    /\ disk' = [disk EXCEPT ![Fd.file] = PWrite(@, Fd.offset, bytes)]
    /\ fds' = [fds EXCEPT ![current + 1].offset = @ + Len(bytes)]

\* The writer gets its next message: the producer thread of a file topic from its
\* publishers, the other thread from the queue.
ReadProducer ==
    /\ wpc = "read"
    /\ published < MaxMsgs
    /\ published' = published + 1
    /\ \E len \in Lengths : wmsg' = [num |-> published + 1, len |-> len]
    /\ wpc' = "select"
    /\ UNCHANGED <<disk, fds, current, total, written, logVars, readerVars, crashVars>>

NewFile(n) == [file |-> n, offset |-> 0, cum |-> 0]

\* Mutated form of WriteFails: a file topic goes on as well.
WriteFailsGoOn ==
    /\ wmsg' = Nothing
    /\ wpc' = "read"

\* write_to_file returned false.  add_to_storage hands that on and the producer
\* thread ends; run_queue_to_file_loop does not look, the message is gone.
WriteFails ==
    IF storage = "file"
    THEN wpc' = "stopped" /\ UNCHANGED wmsg
    ELSE wpc' = "read" /\ wmsg' = Nothing

\* set_current_file: the first file, if it can be created.
FirstFile ==
    /\ wpc = "select"
    /\ fds = <<>>
    /\ \/ /\ fds' = <<NewFile(current)>>
          /\ wpc' = "length"
          /\ UNCHANGED wmsg
       \/ /\ "create" \in Faults
          /\ WriteFails
          /\ UNCHANGED fds
    /\ UNCHANGED <<disk, current, total, written, published, logVars, readerVars,
                   crashVars>>

\* set_current_file: the current file has room.
SameFile ==
    /\ wpc = "select"
    /\ fds # <<>>
    /\ total \div MaxFileSize <= current
    /\ wpc' = "length"
    /\ UNCHANGED <<disk, fds, current, total, wmsg, written, published, logVars,
                   readerVars, crashVars>>

\* Mutated form of NextFile: the new file is opened but not kept.
NextFileNotKept ==
    /\ wpc = "select"
    /\ fds # <<>>
    /\ total \div MaxFileSize > current
    /\ current' = total \div MaxFileSize
    /\ fds' = [fds EXCEPT ![current + 1].cum = total]
    /\ wpc' = "length"
    /\ UNCHANGED <<disk, total, wmsg, written, published, logVars, readerVars,
                   crashVars>>

\* set_current_file: the next file.  It returns true also if the file cannot be
\* created, with current_fd_index_ past the end of file_fds_.
NextFile ==
    /\ wpc = "select"
    /\ fds # <<>>
    /\ total \div MaxFileSize > current
    /\ current' = total \div MaxFileSize
    /\ LET closed == [fds EXCEPT ![current + 1].cum = total]
       IN  \/ fds' = Append(closed, NewFile(current'))
           \/ "create" \in Faults /\ fds' = closed
    /\ wpc' = "length"
    /\ UNCHANGED <<disk, total, wmsg, written, published, logVars, readerVars,
                   crashVars>>

\* write_length.  If it fails, the bytes written so far stay in the file and
\* offset_ past them; write_msg returns 0 and write_to_file false.
WriteLength ==
    /\ wpc = "length"
    /\ \/ /\ Write(Bytes(wmsg, 1, Header))
          /\ wpc' = "payload"
          /\ UNCHANGED <<wmsg, torn>>
       \/ /\ "length" \in Faults
          /\ \E n \in 0..Header - 1 :
                /\ Write(Bytes(wmsg, 1, n))
                /\ torn' = (torn \/ n > 0)
          /\ WriteFails
    /\ UNCHANGED <<current, total, written, published, committed, intact, readerVars,
                   crashVars>>

\* Mutated form of WritePayload: the length field is not part of the result.
WritePayloadUncounted ==
    /\ wpc = "payload"
    /\ Write(Bytes(wmsg, Header + 1, Header + wmsg.len))
    /\ written' = wmsg.len
    /\ wpc' = "count"
    /\ UNCHANGED <<current, total, wmsg, published, logVars, readerVars, crashVars>>

\* write_buffer.  A failed pwrite after n bytes returns n, or -1 if n = 0; the
\* result is kept in a size_t, so write_msg returns Header + n, or Header - 1.
WritePayload ==
    /\ wpc = "payload"
    /\ \E n \in {wmsg.len} \cup (IF "payload" \in Faults THEN 0..wmsg.len - 1 ELSE {}) :
          /\ Write(Bytes(wmsg, Header + 1, Header + n))
          /\ written' = Header + (IF n = 0 THEN -1 ELSE n)
          /\ torn' = (torn \/ n < wmsg.len)
    /\ wpc' = "count"
    /\ UNCHANGED <<current, total, wmsg, published, committed, intact, readerVars,
                   crashVars>>

\* total_bytes_writen_ += bytes_written: from here on the reader waits no more.
CountTotal ==
    /\ wpc = "count"
    /\ total' = total + written
    /\ committed' = Append(committed, wmsg)
    /\ intact' = IF torn THEN intact ELSE Append(intact, wmsg)
    /\ wpc' = "cumulate"
    /\ UNCHANGED <<disk, fds, current, wmsg, written, published, torn, readerVars,
                   crashVars>>

\* bytes_written_across_all_files_ = total_bytes_writen_: from here on the
\* reader finds the record.
CountFile ==
    /\ wpc = "cumulate"
    /\ fds' = [fds EXCEPT ![current + 1].cum = total]
    /\ wmsg' = Nothing
    /\ wpc' = "read"
    /\ UNCHANGED <<disk, current, total, written, published, logVars, readerVars,
                   crashVars>>

Writer ==
    \/ FirstFile \/ SameFile \/ NextFile
    \/ WriteLength \/ WritePayload
    \/ CountTotal \/ CountFile
-----------------------------------------------------------------------------
(***************************************************************************)
(* The reader.                                                             *)
(***************************************************************************)

\* Mutated form of PollFile: the thread waits for one byte more.
PollFileOffByOne ==
    /\ rpc = "poll"
    /\ total > position + Header + 1
    /\ rpc' = "scan"
    /\ ri' = 1
    /\ roff' = position
    /\ UNCHANGED <<disk, writerVars, position, rmsg, fetched, crashVars>>

\* while (written <= read + sizeof(uint32_t)) sleep.
PollFile ==
    /\ rpc = "poll"
    /\ total > position + Header
    /\ rpc' = "scan"
    /\ ri' = 1
    /\ roff' = position
    /\ UNCHANGED <<disk, writerVars, position, rmsg, fetched, crashVars>>

\* read: "offset is larger than total bytes written to this file".
SkipFile ==
    /\ rpc = "scan"
    /\ ri <= Len(fds)
    /\ position >= fds[ri].cum
    /\ ri' = ri + 1
    /\ UNCHANGED <<disk, writerVars, rpc, roff, position, rmsg, fetched,
                   crashVars>>

\* read returns -1: no file has the offset yet.  The thread sleeps and polls.
NoFile ==
    /\ rpc = "scan"
    /\ ri > Len(fds)
    /\ rpc' = "poll"
    /\ UNCHANGED <<disk, writerVars, ri, roff, position, rmsg, fetched,
                   crashVars>>

\* What file_details::read_msg makes of the bytes at an offset of a file: the
\* result it returns and the message it puts into the buffer.
\*  - no byte there (at the end of the file, or the offset is negative): the
\*    offset itself is returned;
\*  - not the length of a record there, but other bytes, or fewer, in which case
\*    it reads on at the same offset and has some twice: any length;
\*  - a length, and no byte of the payload: the length is returned;
\*  - a length, and part of the payload, part of which is read twice: it returns
\*    what it would for the record;
\*  - else the record is.
Record(file, at) ==
    LET none == at < 0 \/ at >= Len(file)
        first == file[at + 1]
        m == first.msg
        Has(a, b) == /\ at + b <= Len(file)
                     /\ SubSeq(file, at + a, at + b) = Bytes(m, a, b)
    IN  IF none THEN {[result |-> at, msg |-> Nothing]}
        ELSE IF ~(first.at = 1 /\ Has(1, Header))
             THEN {[result |-> n, msg |-> Nothing] : n \in 0..MaxFileSize}
        ELSE IF at + Header >= Len(file)
             THEN {[result |-> m.len, msg |-> Nothing]}
        ELSE {[result |-> Header + m.len,
               msg |-> IF Has(Header + 1, Header + m.len) THEN m ELSE Nothing]}

\* The offset in the file at ri: the global one, less what is in earlier files.
LocalOffset == roff - (IF ri > 1 THEN fds[ri - 1].cum ELSE 0)

\* Mutated form of ReadRecord: the offset is not reduced for later files.
ReadRecordGlobal ==
    /\ rpc = "scan"
    /\ ri <= Len(fds)
    /\ position < fds[ri].cum
    /\ \E r \in Record(disk[fds[ri].file], roff) :
          IF r.result > 0
          THEN /\ position' = position + r.result
               /\ rmsg' = r.msg
               /\ fetched' = Append(fetched, r.msg)
               /\ rpc' = "send"
               /\ UNCHANGED <<ri, roff>>
          ELSE /\ ri' = ri + 1
               /\ UNCHANGED <<rpc, roff, position, rmsg, fetched>>
    /\ UNCHANGED <<disk, writerVars, crashVars>>

\* read: the file has the offset.  A result that is not positive makes read go
\* on to the next file; a positive one is added to total_bytes_read_ before the
\* message is sent.
ReadRecord ==
    /\ rpc = "scan"
    /\ ri <= Len(fds)
    /\ position < fds[ri].cum
    /\ \E r \in Record(disk[fds[ri].file], LocalOffset) :
          IF r.result > 0
          THEN /\ position' = position + r.result
               /\ rmsg' = r.msg
               /\ fetched' = Append(fetched, r.msg)
               /\ rpc' = "send"
               /\ UNCHANGED <<ri, roff>>
          ELSE /\ ri' = ri + 1
               /\ roff' = LocalOffset
               /\ UNCHANGED <<rpc, position, rmsg, fetched>>
    /\ UNCHANGED <<disk, writerVars, crashVars>>

\* write_msg on the consumer's ZMQ socket.  Whether it works or not, the next
\* message is the one after it.
SendRecord ==
    /\ rpc = "send"
    /\ rmsg' = Nothing
    /\ rpc' = "poll"
    /\ UNCHANGED <<disk, writerVars, ri, roff, position, fetched, crashVars>>

Reader == PollFile \/ SkipFile \/ NoFile \/ ReadRecord \/ SendRecord
-----------------------------------------------------------------------------
\* The broker crashes, is started again, and the topic is created again: what
\* was in memory begins anew, the files are there, create_file opens them
\* without truncating and starts at offset 0.
Restart ==
    /\ restarts < MaxRestarts
    /\ restarts' = restarts + 1
    /\ fds' = <<>> /\ current' = 0 /\ total' = 0
    /\ wpc' = "read" /\ wmsg' = Nothing /\ written' = 0
    /\ rpc' = "poll" /\ ri' = 1 /\ roff' = 0 /\ position' = 0 /\ rmsg' = Nothing
    /\ committed' = <<>> /\ torn' = FALSE /\ intact' = <<>> /\ fetched' = <<>>
    /\ earlier' = earlier \cup (ToSet(committed) \ ToSet(fetched))
    /\ UNCHANGED <<disk, published, storage>>

FileNext == ReadProducer \/ Writer \/ Reader \/ Restart

FileSpec == FileInit /\ [][FileNext]_fileVars

\* Both threads run on, and the consumer's socket has a client that reads.
FairFileSpec == FileSpec /\ WF_fileVars(Writer) /\ WF_fileVars(Reader)
-----------------------------------------------------------------------------
(***************************************************************************)
(* Properties.                                                             *)
(***************************************************************************)

WriterPhases == {"read", "select", "length", "payload", "count", "cumulate", "stopped"}

\* current_fd_index_ is an index of file_fds_ whenever the writer uses it.
\* ("Set and possibly create a file", connection_file.h:329.)
CurrentInRange == wpc \in {"length", "payload", "count", "cumulate"} => InRange

\* The type invariant, and no access past the end of file_fds_, however often
\* set_current_file skips to another file.
FileTypeOK ==
    /\ CurrentInRange
    /\ \A i \in DOMAIN fds : fds[i] \in [file : DOMAIN disk, offset : Nat, cum : Nat]
    /\ current \in Nat
    /\ total \in Nat
    /\ wpc \in WriterPhases
    /\ wpc = "stopped" => storage = "file"
    /\ wmsg \in Messages \cup {Nothing}
    /\ wmsg = Nothing <=> wpc = "read"
    /\ written \in Nat
    /\ rpc \in {"poll", "scan", "send"}
    /\ ri \in 1..(Len(fds) + 1)
    /\ roff \in Int
    /\ position \in Nat
    /\ rmsg \in Messages \cup {Nothing}

\* Between two messages the numbers of the log agree: "if 9 bytes written across
\* 3 files, first fd_details will have 3, 2nd will have 6 and 3rd will have 9".
\* A file that was begun for a message that was never written has neither bytes
\* nor a number yet.  Once a write stopped half way they need not agree, but they
\* never claim more than was written: the reader finds bytes wherever it looks.
CumulativeOffsets ==
    wpc \in {"read", "select"} =>
        \A i \in DOMAIN fds :
            LET end == fds[i].offset + (IF i > 1 THEN fds[i - 1].cum ELSE 0)
            IN  /\ fds[i].cum <= end
                /\ i = Len(fds) => total <= end
                /\ ~torn => /\ \/ fds[i].cum = end
                               \/ i = Len(fds) /\ fds[i].cum = 0 /\ fds[i].offset = 0
                            /\ i = Len(fds) => total = end

\* The reader is never ahead of what is committed, and gets exactly the
\* committed messages, intact and in order, although it looks at the files
\* while the writer changes them, rolls over, and is between two of its counts,
\* and although the files may hold what an earlier broker left.  A write that
\* stops half way spoils what comes after it, and nothing before it.
FetchesCommitted == IsPrefix(fetched, intact) \/ (torn /\ IsPrefix(intact, fetched))

\* What can still be read at position or after it.
Fetchable ==
    {m \in earlier \cup ToSet(committed) :
        \E i \in DOMAIN fds : \E at \in 0..Len(disk[fds[i].file]) :
            /\ at + (IF i > 1 THEN fds[i - 1].cum ELSE 0) \in position..total
            /\ [result |-> Header + m.len, msg |-> m] \in Record(disk[fds[i].file], at)}

\* What a restart of the broker would have to preserve: a message that was
\* committed has been fetched or can be.  ("Durable queues are similar to Kafka where data are
\* written to the file and consumers consume from the file.")
NothingCommittedIsLost ==
    earlier \cup ToSet(committed) \subseteq ToSet(fetched) \cup Fetchable

\* On a file topic a message that could not be written ends the writer, so a
\* consumer that gets a message has got all that were accepted before it.  Only
\* a queue_file topic, which goes on, has gaps.
NoGapsInFileTopic ==
    storage = "file" =>
        \A i \in 1..(Len(committed) - 1) : committed[i + 1].num = committed[i].num + 1

\* The files implement the log of a topic: counting stores, reading serves, what
\* is stored is served eventually unless the broker crashes, and a crash begins
\* a new log.  The log is that of the messages stored before a write stopped half
\* way; all of them are served even if one does.
FileAsLog == INSTANCE TopicLog
               WITH log <- intact,
                    served <- IF Len(fetched) < Len(intact) THEN Len(fetched) ELSE Len(intact),
                    Forgetful <- TRUE
FileImplementsLog == FileAsLog!FairSpec
=============================================================================
