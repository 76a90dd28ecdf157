# A TLA+ model of LightQ

LightQ is a brokered message queue written in C++ headers. A broker process holds
*topics*; producers publish to a topic, consumers take from it. This directory
holds TLA+ modules translated from the source, TLC configurations that check them
on small instances, and proofs of the properties that matter most, checked by
TLAPS. `PROJECT.json` maps every definition to the lines it models. Paths below
are relative to `src/include/` unless they say otherwise.

## 1. The system

### Threads and connections

A client asks the broker manager over a REQ/REP socket to create or join a topic
and gets the address to connect to. From then on a topic runs by itself:

    producers --PUSH--> [producer thread] --> storage --> [consumer thread] --PUSH--> pullers
                                                                            --PUB---> subscribers
                                                                            --TCP---> stream clients

One thread reads publishers (`producer::process_producers`) and adds to the
storage; another takes from the storage and sends (`consumer::process_consumers`).
They share the storage with no lock: a lock-free queue and two plain counters, or
a set of files and three plain or atomic numbers. Every bound ZMQ socket has a
monitor thread that counts its clients; the consumer thread reads that count. A
topic whose consumers use a stream socket has a thread that accepts them into a
vector of descriptors; the sending thread takes turns over that vector, also with
no lock. On a direct topic there is no storage: the producer thread itself sends.
On a queue_file topic a third thread moves messages from the queue to the files.

### Components

| component | state | operations | correct if |
|---|---|---|---|
| Queue storage (`broker_storage.h`) | `p_queue_`, `total_enqueued_messages_`, `total_dequeued_messages_` | `write_to_queue`, `get_message_from_queue`, `get_queue_size` | nothing lost, repeated or reordered; the size never wraps; everything stored comes out |
| Producer thread (`producer.h`) | local `message` | read, skip empty, store, end on error | each publisher's order survives |
| Consumer thread (`consumer.h`) | local `message` | poll, take, send to PUSH, send to PUB | one puller per message, each subscriber a copy, no thread stuck |
| ZMQ connection and monitor (`connection_zmq.h`, `monitor_zmq.h`) | `num_clients_` | accepted, disconnected, `write_msg`, `read_msg` | the count agrees with the connections |
| Durable log (`connection_file.h`, `file_details.h`) | `file_fds_`, `current_fd_index_`, `total_bytes_writen_`; per file `offset_`, `bytes_written_across_all_files_` | `write_to_file`, `set_current_file`, `read`, `send_file` | the reader gets the written records, whole and in order, across files and restarts |
| Lock-free queue (`thirdparty/readerwriterqueue.h`) | ring of blocks, each a ring of slots | `try_enqueue`, `try_dequeue` | a bounded FIFO between two threads; it refuses only when full and misses only when empty |
| Broker manager (`broker_manager.h`, `broker.h`, `broker_config.h`, `admin_cmd.h`) | map of topics, each topic's endpoints, next port | create, join, stats, and what to do with other requests | who is let in reaches the topic's endpoint; everyone is answered |
| Stream sockets (`connection_socket.h`, `utils.h`) | `fds_`, `current_fd_index_` | accept, round robin, remove, framed writes | every client its turn, no healthy client removed, frames not split |
| Direct topics (`broker_storage.h`) | `p_consumer_socket_` | write through | one failed consumer does not end the topic, a message goes to one consumer |
| Client library (`lightq_api.h`, `src/src/lightq_api.cpp`) | handles | create, init, publish, receive, statistics, delay algorithm | a publisher slows down when the queue grows |

### What is hard

* The consumer thread polls one pair of numbers and takes from another structure;
  the store to one is not ordered with the store to the other in C++ (data races),
  and on a file topic the second number is updated later than the polled one.
* `get_num_connected_clients` is checked before a blocking send. Clients leave in
  between, and the count lags the connections by the events the monitor thread has
  not handled, or is wrong for good for clients accepted before it registered.
* The log rolls over from file to file while it is read; offsets are global, files
  are local. Writes fail half way; files cannot be created; the broker restarts.
* The full queue: `write_to_queue` retries for as long as the consumer is stuck.

* Descriptors are appended by one thread and looked up, twice per message, and
  removed by another. Removal is by value, the callers of `write_msg` pass an index.
* The ring of blocks: the two threads enter and leave blocks next to each other,
  each acting on a copy of what the other owns that may be old.
* The admin socket is a REP socket: one request that is not answered stops it.
  Its replies read counters of two running threads one after the other.

`PROJECT.json` lists each hazard at its line with the properties that cover it, or
says why none does.

## 2. Modules

| module | models | composes / refines |
|---|---|---|
| `TopicLog` | what a topic promises: a log that grows at its end and is served from its front, `FairSpec` adding that all is served | abstract |
| `BrokerQueue` | queue storage with producer and consumer thread | refines `TopicLog` (`ImplementsLog`) |
| `ZmqSockets` | connections, event queues, monitor threads, PUSH and PUB sends | |
| `QueueTopic` | the consumer thread's send phase over both sockets | `BrokerQueue` + `ZmqSockets`; refines `BrokerQueue` (`QueueSpec`) |
| `FileTopic` | durable log, writer of a file or queue_file topic, ZMQ reader, faults, restart | refines `TopicLog` (`FileImplementsLog`) |
| `BoundedFifo` | what the lock-free queue promises: at most `Capacity` elements, out in the order in, none left inside for ever | abstract |
| `BlockQueue` | the lock-free queue, one shared read or write a step | refines `BoundedFifo` (`ImplementsFifo`) |
| `BrokerManager` | admin thread, topics' endpoints, ports and counters, clients' calls | |
| `StreamSockets` | the vector of descriptors, its two threads and their data race | |
| `DirectTopic` | the producer thread of a direct topic | `StreamSockets` |
| `StreamFileTopic` | a durable log served with `sendfile` | `FileTopic` + `StreamSockets` |
| `BrokerQueueProofs`, `QueueTopicProofs` (of `ZmqSockets` too), `FileTopicProofs`, `BlockQueueProofs`, `BrokerManagerProofs`, `StreamSocketsProofs`, `DirectTopicProofs`, `StreamFileTopicProofs` | theorems and proofs | each EXTENDS the module it is about, and the proofs of the modules that one composes |
| `MC*` | instances for TLC: symmetry and constant values | |

Operators named `...Again`, `...OffByOne`, `...Uncounted` and so on, introduced by
"Mutated form of", stand for a plausible mistake. No specification uses them;
putting one in place of the original makes the property it is paired with in
`PROJECT.json` fail, which shows that the property depends on that code.

### State and actions against the code

**BrokerQueue.** `queue`, `enqueued`, `dequeued` are the three shared fields;
`ppc`/`pmsg` and `cpc`/`cmsg` are the threads' places in their loops and their
local `message`. `published`, `accepted` and `taken` are histories. A message is
a record of publisher, number and length; its bytes do not matter except that
length 0 looks like "nothing read" (`producer.h:205`), so a zero-length message
is skipped (`ReadEmpty`). `try_enqueue` and `++total_enqueued_messages_` are two
actions. The increment is a plain one of a variable another thread reads, a data
race: with `Relaxed = TRUE` it may be seen first (`CountEarly`, `InsertLate`). The
lock-free queue holds at least `MinCapacity` and at most `MaxCapacity` elements,
depending on where in its blocks it stands; between them an enqueue may or may
not succeed. The threads' `stop_` is left out: the source only ever initialises it.

**ZmqSockets.** libzmq is external: a client is `off`, `accepted` (TCP connection
accepted, event raised) or `attached` (handshake over, pipe attached). The
monitor thread registers (`MonitorStarts`) at a time of its own; what happened
before is counted in `missed` and is never reported. The count is an `int32_t`
returned as `uint32_t`: `get_num_connected_clients` is a `%`. `PushTo` needs a
client with room (it blocks otherwise), `PubTo` never blocks.

**QueueTopic.** `stage` says how far the loop body is with a message: at the PUSH
check, in the PUSH send, at the PUB check, in the PUB send. The check and the
send are separate actions, since others run in between.

**FileTopic.** `disk` holds the bytes of each file, a byte being the place in the
record it was written for, so that overwritten and misaligned reads are seen as
such without real contents. `fds` is `file_fds_`. `wpc` splits `write_to_file`
into choosing a file, writing the length, writing the payload, adding to the total
and storing the file's cumulative number: the five points a reader can come
between. `rpc` splits `file_to_consumer` into polling, looking at one file after
the other, and sending. `storage` is the topic's type, chosen in the initial
state: when `write_to_file` fails, the producer thread of a file topic ends, and
`run_queue_to_file_loop` goes on with the next message (`WriteFails`). `Faults`
says which calls may fail. A length or payload write that fails may have written
some bytes, which stay with `offset_` past them: `torn` remembers that one did, and
`intact` is what was committed before. `Restart` is a crash: memory begins anew, the
files stay; the histories `committed`, `torn`, `intact` and `fetched` are of the
running broker, `earlier` keeps what earlier ones left unread. What `read_msg` makes
of bytes that are no length is any number, and of a record cut off by the end of the
file a message of the right length with some bytes twice, since it goes on reading
at the same offset (`Record`). A write through an index past `file_fds_` is undefined in C++ and has no
action; `CurrentInRange` reports the state before it.

**BlockQueue.** Each action is one read or one write of a variable that the other
thread also uses, with the private work around it; `ppc` and `cpc` are the places
in `inner_enqueue` and `try_dequeue`. `blocks[b]` has the four indexes and the
slots of a block, `Raw` where no element is constructed, so that an element put
over another and one taken twice are seen. A block is numbered by its place in
the ring, which never grows: LightQ calls `try_enqueue` only, which does not
allocate. Elements are numbered modulo `Kinds`. The order of steps is the program
order (sequential consistency): the acquire and release fences of the code order
exactly the accesses that matter here, and weaker outcomes are not explored.

**BrokerManager.** `mpc` is where `broker_manager::run` is, `rep` the client whose
request the REP socket has handed out and not answered. `phase`, `request` and
`reply` are the clients' side; a call of the library is a request, its answer, and
what the library makes of it (`init_client`, `publish_delay_algorithm`;
`create_topic` returns true whatever the answer). `producer` and `consumer` are the pointers a join sets:
they are set before `init` is called and stay when it fails, and `refused`
remembers for which that was. `bound` is what listens on each port; some are taken
by other programs from the start. The topics' threads are only their two counters
here. `reply_to_stats` is four reads (`ReadSize` twice, `ReadReceived`,
`reply_to_stats`). Requests the library does not send are in `Odd`: one that does
not parse, an empty one, an oversized one, and JSON without a command, which makes
`get_cmd` throw; with `run_broker(.., true)` the exception leaves a thread and ends
the process (`"dead"`), otherwise only the loop.

**StreamSockets.** `socket_fds` is `fds_`. `push_back` begins (`AcceptFd`) and ends
(`PushBack`). The vector has no lock, so what C++ leaves undefined is a choice: a
read that overlaps a `push_back` may yield `Wild`, which is no descriptor, and a
removal that overlaps one may undo it or be undone. `races` counts such meetings
and `MaxRaces` bounds them. Descriptors are never closed by the broker, so their
numbers grow. A write may succeed after its consumer closed (it is buffered); it
fails only if nobody is there. SIGPIPE, which would end the process at the first
failed write, is taken to be ignored.

**DirectTopic.** `wpc` follows a message from `read_msg` through
`direct_write_consumer` and the two writes of `connection_socket::write_msg`, which
look `fds_[current_fd_index_]` up separately. `stream` is what each consumer's
connection carried; `turns` who got each payload and who was in the vector.
`WriteLength` never fails as the code sees it: the result is compared with 8.

**StreamFileTopic.** The writer, the files and the search for a file are
`FileTopic`'s; `position` is the one offset all consumers share. `target` is the
descriptor `get_next_fd` returned. `Chunk` is what `sendfile` finds: `Apple` chooses
between the two calls of `file_details::send_file`. A record that the writer has
half written is part of what is sent, and a record may be split between two
consumers; the code promises neither to keep it whole.

## 3. What is checked

Runs that pass:

| run | instance | shows |
|---|---|---|
| `queue` | 2 publishers, 3 messages each, lengths 0 and 1, capacity 1 to 2, `Relaxed` | `Fifo`, `SizeNeverWraps`, `PublisherOrder`: nothing is lost, repeated or reordered at and below the limit, and a late element never makes the size wrap; with fairness `ImplementsLog` |
| `topic_safety` | 1 publisher, 2 messages, 2 pullers, 1 subscriber, stores in program order | `OneConsumerPerMessage`, `HandedInOrder`, `SkipsOnlyIfMonitorBehind`, `NoSpuriousWakeup` (what was polled can be dequeued), the client counts (`CountFollowsEvents`), refinement of `BrokerQueue` |
| `topic_live` | 2 pullers | `DrainsIfPullerStays` |
| `file` | 4 messages, payloads of 1 and 2, files of 4 bytes, file and queue_file, length and payload writes that fail at any byte, 1 restart | `FetchesCommitted`, `CumulativeOffsets`, `FileTypeOK` (with `CurrentInRange`), `NoGapsInFileTopic`, with what an earlier broker wrote still in the files; with fairness `FileImplementsLog` |
| `blocks` | a queue for 3 elements (one block of 4 slots) and one for 4 (a ring of 5 blocks of 2) | `NextBlockIsEmpty`, `NextBlockIsNotEmpty` (the asserts of the source), `RefusesOnlyIfFull`, `MissesOnlyIfEmpty`, `ImplementsFifo` |
| `admin` | 2 clients, 1 topic, 2 messages, every request, a free or a taken port | `JoinedIsServed`, `EndsOnlyOnOdd`, `StatsWithinWindow`, `WaitsIfBehind`, `EveryRequestIsAnswered` |
| `direct` | 3 consumers, 3 messages, descriptors from 1, 1 race | `OnePayloadPerMessage`, `WholeMessages`, `TakesTurns`, `EndsOnlyBeforeConsumer`, `GetsDone` |
| `stream_file` | 2 consumers, 3 messages, files of 5 bytes, chunks of 3, length writes that fail at any byte, 1 race, `Apple` | `SentIsLogPrefix`, `RemovedOnlyIfOvertaken`, `CommittedIsSent` |

Some of these say exactly how much is true and no more:

* `JoinedIsServed` excepts a topic whose bind failed before (the second to join is
  told "ok") and a consumer of the other stream type than the first.
* `TakesTurns` and `WholeMessages` hold although `remove_fd` is given an index:
  the failed descriptor is tried for ever, but no healthy one is passed over. They
  hold up to the first data race. With descriptors whose numbers coincide with
  indexes, as in `direct`, a healthy consumer can be removed.
* `RemovedOnlyIfOvertaken`: `send_file` compares the offset with the number of a
  file the writer has not counted yet and passes it; the writer counts it and
  begins another; the offset within that other file is negative, `sendfile` fails,
  and a healthy consumer is removed.
* `CommittedIsSent` leaves out the last `Header - 1` bytes: the thread waits for
  four bytes more than it has sent (`consumer.h:189`), so the end of a log can stay
  unsent until the next message.
* `WaitsIfBehind`: a size read while messages leave can be negative, and the
  publisher, for which it is a huge unsigned number, sleeps for it.

Runs that end in a counterexample, each a finding in `PROJECT.json`:

| run | what happens |
|---|---|
| `topic_subscriber` | the last puller leaves between check and send; subscribers starve (`consumer.h:220`) |
| `file_restart` | after a restart committed messages cannot be read and are overwritten (`file_details.h:279`) |
| `direct_remove` | after a failed write the same descriptor is next, since an index is removed by value (`connection_socket.h:361`) |
| `stream_offset` | on Linux `sendfile` starts at the size and not at the offset (`file_details.h:130`) |

One more comes from adding `"create"` to `Faults` in `MCFileTopic.cfg`: a failed
roll-over leaves `current_fd_index_` past the vector and reports success
(`FileTypeOK`, `connection_file.h:359`). Failed writes are in the run, and the
properties say what is left after one. A payload write that fails is taken for success
(`file_details.h:186`), and a queue_file topic goes on after a length write that failed
after some bytes (`file_details.h:363`): the log is misaligned from there on, and
what the reader gets then is garbage. `FetchesCommitted` says that it has got all
that was committed before, intact and in order; `CumulativeOffsets` that the numbers
never claim more than is in the files.

### Bounds and why they are enough

* A capacity of 1 to 2 with up to six messages: the queue is empty, full and in
  between many times, with a retry pending while the consumer runs.
* Two pullers are the fewest that can compete; a third adds no case that
  distinguishes them. Clients reconnect, so every order of accept and disconnect
  events of different connections is in the monitor's queue.
* Files of 4 bytes with records of 3 and 4 (of 5 with records of 3 and 5 in
  `stream_file`): a record that ends before, exactly at, or past the boundary; four
  messages give up to three roll-overs. `Header` = 2 stands for 4 bytes: it only has
  to be more than one, so that a write can stop and a read begin inside it. A payload
  of 1 fails whole, one of 2 also half way. The real vector reserves ten files; an eleventh would reallocate
  it under the reader, which is outside these bounds and listed as a hazard.
* `Uint32` = 8 stands for 2^32; it is only asked to exceed the number of clients.
* Blocks of 2 slots hold one element: every enqueue and dequeue changes blocks,
  where the difficult steps are. `Sizes` = 4 gives a ring of five of them, so that
  indexes into the ring and numbers of elements go around at different times;
  `Sizes` = 3 gives one block of four slots, as the constructor makes for a queue that
  fits into one. `Kinds` = 3 tells neighbours apart.
* One topic in `admin`: topics share only the ports, and three ports with 1 or 3
  taken make the producer's bind, the first and the second bind of the consumer
  fail, depending on who joins first. `Uint32` = 2 stands for 2^32 and is reached by
  two messages, so that the counters wrap; `SlowQueue` = 1 stands for 10000.
* Three consumers of `direct` are needed for a third to be passed over while two
  take turns. `FirstFd` = 1 makes descriptors coincide with indexes, which in the
  program they do when many are connected (with `FirstFd` = 3 and two consumers, as
  in `stream_file`, they cannot). Each consumer connects once; a consumer that comes
  back is another one.
* `MaxChunk` = 3 is less than a record of 5 bytes, as long as one of 3, and more
  than what a file of 5 has left after a record of 3.
* `MaxEvents`, `PipeHwm`, `MaxSent`, `MaxMsgs`, `MaxRestarts`, `MaxCount`, `MaxRaces` are bounds of the
  model. Accepts wait while `MaxEvents` events are queued; since the monitor
  thread is fair this delays a client and excludes none.

`CHECK_DEADLOCK FALSE` is set for `BrokerQueue`, `FileTopic`, `DirectTopic`,
`StreamFileTopic` and `BrokerManager`: publishers stop at
the bound, a thread whose loop only sleeps has no action, as after `ReadFails` or
a failed write, which really end the producer thread, and the admin thread can
end. `QueueTopic` and `BlockQueue` are checked for deadlock.

### Fairness

Each thread's loop runs for ever, so each of its continuously enabled actions is
taken (weak fairness per action). Exceptions, all weaker than that: nothing
obliges a publisher to send or a call to fail; `TryEnqueue` is fair only below
`MinCapacity`, since a queue with more may refuse; a send is fair once possible,
so a PUSH with no puller blocks for ever, as `s_send` does. The environment
(`EnvironmentFairness`) finishes handshakes, delivers monitor events and has
attached clients take what was sent; nobody has to connect or to stay. For
`FileTopic` both threads are fair and the consumer's socket accepts the record.
`FairBlockSpec` asks fairness of `TryDequeue` alone: the queue is emptied also if the
producer stops in the middle of `try_enqueue`. `FairAdminSpec` asks it of the admin
thread, and strong fairness of each `read_msg(c)`, since a REP socket takes requests
from its clients in turn. `FairDirectSpec` and `FairStreamSpec` ask it of the sending,
the writing and the accepting thread; consumers need neither connect nor stay.

## 4. What is proved

Every invariant and every safety action property that a passing run checks is a
theorem, and so is the safety half of each refinement: for every set of publishers,
clients and topics, every length, capacity and bound of the model, any number of
restarts, and both orders of the stores. `PROJECT.json` lists the theorems. Those
about the file topic have hypotheses, given below; the others rest on nothing but
the named assumptions on the constants, which TLC evaluates in every run and which
the code justifies (clients and topics are finitely many; a file holds a record; the
constructor asserts `MaxBlockSize`; a mark is not one of the things it marks the
absence of).

**BrokerQueue.** `QueueTypeCorrect`, `FifoHolds`, `SizeHolds` and `WakeupHolds`
follow from `QueueInv`: `QueueTypeOK`, `Fifo`, `CountersAgree`, `SizeNeverWraps` and
"the phase `insert` occurs only with relaxed stores". That the size does not wrap is
not inductive as `dequeued <= enqueued`: a dequeue keeps it only if the polling loop
was left with `dequeued < enqueued`, hence the second conjunct of `SizeNeverWraps`.
`NoSpuriousWakeup` needs the counters tied to the queue's length and `insert`
excluded. `PublisherOrderHolds` compares subsequences of three histories; it is by
induction over their lengths (`ChosenUnfolds`, `ChosenAppend` and the like), which is
why the property uses `Chosen`, a recursive function, and not `SelectSeq`, which
tlapm does not unfold. `NumbersHold` says the same in numbers and is what
`QueueTopic` goes on from. `QueueImplementsLog`: each step is `Store` (on
`ReadMessage`), `Serve` (on `Dequeue`) or a stutter of `TopicLog`.

**QueueTopic and ZmqSockets.** `TopicImplementsQueue`: each step is a step of
`BrokerQueue` or leaves it alone, so the queue's invariants hold without a look at
the sockets. `CountHolds` is over cardinalities: an accept or a disconnect moves the
set of connected clients and the queue of events, or `missed`, by one together.
`OneConsumerHolds` and `HandedInOrderHolds` follow from `HandedInv`: what was handed
out are messages that were taken, in the order they were taken, and the one in the
thread's hands is not yet among a client's, unless its socket's send is over.
`SkipsOnlyIfMonitorBehindHolds` follows from the count and `Uint32 > Cardinality(Clients)`.

**FileTopic.** The hypotheses name the calls that may not fail. `NoGapsHold` has
none. `FileTypeCorrect` excepts a failing creation, after which the code really goes
on with an index past the vector. The others (`CumulativeOffsetsHold`,
`FetchesCommittedHolds`, `FilesImplementLog`) except it too, and allow every write
to fail at any byte. `PlaceInv` bounds the number of files and the total (it
never passes two multiples of the file size at once, so one file is enough at a
roll-over). `PartsInv` says that the files are parts of the log one after the other,
at each of the points between the writer's stores: what is `InFlight` is in the file
and not in the total, what is `Counted` is in the total and not in the file's number.
`HoldsUpTo` is how far a file reaches into the log: exactly so far until a write stops
half way, at least so far after it. `RecordsInv` adds where each record of `intact`
begins (`start`) and that it lies whole in one file (`HasWhole`), which later writes
do not touch since they only go past `offset_`; `FetchInv` that the
reader is where a record begins, for as long as it has not come to where a write
stopped half way (`BeforeTear`). What the reader sees
follows: whatever it finds at its position in the file whose number it compared is the
record that begins there. That is one argument for all five points at which a reader
can look. `FilesImplementLog` has `Store` on `CountTotal` until a write is torn, `Serve`
on a fetched record of `intact` and `Forget` on `Restart`.

**BlockQueue.** `BlockInv` is about distances around the ring. `CursorInv`: a copy of
the other thread's index is old in one direction only, so to the producer a block
looks no emptier than it is and to the consumer no fuller. `RingInv`: blocks between
`frontBlock` and `tailBlock` have elements and those outside have none, but for the
one each thread is about to leave or add. `DataInv`: elements are constructed exactly
where front and tail say, but for the one put and not yet visible and the one taken
and not yet given up. The type invariant and both assertions of the source
(`BlockTypeCorrect`, `NextBlockIsEmptyHolds`, `NextBlockIsNotEmptyHolds`) follow;
`MissesOnlyIfEmptyHolds` needs `EmptyInv` besides.

`MoreInv` carries the other two. `FilledInv`: the producer leaves only full blocks
behind, and of those only the consumer's own has been taken from. `SizeInv`: the
constructor's formula gives blocks enough, all but one together ((`count` - 1) *
(`slots` - 1) >= `maxSize`), which takes some arithmetic on its division, and that
`CeilToPow2` gives a power that suffices, by induction over the powers.
Then `RefusesOnlyIfFullHolds`: when no block is left, all but the consumer's are full.
`BlocksImplementFifo` maps the ring to the sequence of what its blocks hold, joined
from `frontBlock` on (`Whole`, `Slice`); a step appends to the last part, takes the
head of the first, moves on from a part that is empty, or adds a part that is one
element. Each is shown for joined sequences first, by induction over the number of
parts, then for blocks; `ElementInv` says that what a step adds is the element
`try_enqueue` was given. TLC found `MoreInv` to hold for sizes up to 6 and blocks of 2
and 4 before it was proved.

**BrokerManager.** `RepInv`: the client whose request the admin thread works on
waits, so its request stays as it is; the thread is back at `read_msg` with an answer
owed only after an empty request (`EndsOnlyOnOddHolds`). `PortsInv` has
`nextPort = 1 + Cardinality(Produced) + 2 * Cardinality(Consumed)`: an endpoint's
ports are below `nextPort`, a new one is not, so no bind takes another's port
(`AdminTypeCorrect`, `JoinedIsServedHolds`). `StatsInv`: what was read of a counter
lies between its value when the request came and its value now, so a size, read in
two parts, lies in the window, and `received` agrees with it modulo `Uint32`
(`StatsWithinWindowHolds`, `WaitsIfBehindHolds`).

**StreamSockets and DirectTopic.** `SocketsInv`: the vector is ascending, also while
`push_back` is half done and if a removal that meets it undoes it or is undone.
`OnePayloadPerMessageHolds` allows any races: the message in the thread's hands has
no payload anywhere yet. `WholeMessagesHold` and `TakesTurnsHold` are up to the first
race, as the properties are. `WholeInv`: the one whose payload is missing is the one
the index is at. `WaitingIsAhead`: whoever waits since a turn of another comes before
it, counted from the index around the end of the vector, whatever element a failed
write removes. `EndsOnlyBeforeConsumerHolds` needs that nothing is written before
there is a socket.

**StreamFileTopic.** The writer and its files keep `PartsTypes` and `RecordsInv` of
`FileTopicProofs`, the vector keeps `SocketsInv`; the module adds what the sending
thread knows (`SenderInv`, `SentInv`: the bytes sent are, one by one, the bytes of the
records, as far as no write stopped half way). All assume that files can be created,
and allow every write to fail at any byte; `RemovedOnlyIfOvertakenHolds` and
`SentIsLogPrefixHolds` assume `Apple` too, since on Linux `sendfile` starts at the wrong place
(`stream_offset`).

### How, and what stays with TLC

Induction over data is done without the library's induction theorems, whose operator
parameters the provers cannot instantiate: `WFMin` has none, and gives `SetInduction`
(a set with 0 and with the successor of each of its members is `Nat`). A recursive
function is unfolded by proving first that there is one for every length. Formulas
about sequences are proved for names (`PICK s : s = ...`), so that the provers see
terms and not definitions.

Only model-checked is liveness, which is out of TLAPS's reach, as is `ENABLED`:
`DrainsIfPullerStays`, `EveryRequestIsAnswered`, `GetsDone`, `CommittedIsSent`, and
the fairness half of `ImplementsLog`, `FileImplementsLog` and `ImplementsFifo`.

## 5. What is not modelled, and the plan

Next, in this order:

1. Proofs, of the state part of the liveness properties: that a thread with
   something to do is at a step whose guard holds (a poll leads on while the queue
   has a message, a put below `MinCapacity` succeeds, a scan finds the file of a
   position below `total`).
2. `QueueFileTopic`: the queue and the files of a queue_file topic in one module.
   `FileTopic` has its third thread as a writer; the queue in front of it, and the
   consumer thread reading the files, would be composed.
3. The reading side of `connection_socket.h` and of the client library:
   `client_socket_read_msg` with short reads, time-outs and a length that is out of
   step, `receive_message`. A peer that closes makes `read_size` return 0 for ever,
   and a client's reading loop spin (`connection_socket.h:428`).

Left out for good, and why:

* `broker_storage.h:185` cuts four bytes more than it should off every record, and
  direct topics write a length in network order that `receive_message` reads in host
  order. Both are arithmetic on one value; no order of steps matters to them.
* A queue topic with stream consumers casts a `connection_socket` to a
  `connection_zmq` (`consumer.h:218`): undefined from the first message on.
* Memory orders weaker than program order in `BlockQueue` and for the plain fields
  other than the counters of `BrokerQueue`; TLC explores interleavings of steps.
* `stop_` flags, `peek`, `pop` and the allocating `enqueue` of the lock-free queue,
  `run_broker_loop` of `connection_socket.h`: nothing in the program reaches them.
* Logging, JSON text, compression and formatting helpers, the example programs:
  they keep no state a property is about.
* Vendored code: spdlog, picojson, `concurrentqueue.h` and the C++ bindings of ZMQ
  are most of the lines of the repository, which is why the map covers about a
  tenth of them. Of LightQ's own broker code, the files that keep state are mapped
  nearly whole, but for logging and the building of replies.

Clients and libzmq are modelled as far as the broker can observe them.
