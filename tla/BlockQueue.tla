----------------------------- MODULE BlockQueue -----------------------------
(***************************************************************************)
(* moodycamel::ReaderWriterQueue as LightQ uses it: a lock-free queue      *)
(* between one thread that calls try_enqueue and one that calls            *)
(* try_dequeue.  The queue is a ring of blocks and a block is a ring of    *)
(* slots, one of them always free.  The producer owns the tail of every    *)
(* block and tailBlock, the consumer every front and frontBlock; each      *)
(* reads what the other owns with no lock, and keeps a copy of it          *)
(* (localTail, localFront) that may be old.                                *)
(*                                                                         *)
(* Every read or write of something shared is a step.  Steps are seen in   *)
(* program order, which is what the fences of the code are for; weaker     *)
(* orders are not modelled.                                                *)
(***************************************************************************)
EXTENDS Naturals, Sequences

CONSTANTS
    Sizes,          \* what the constructor may be asked for
    MaxBlockSize,   \* MAX_BLOCK_SIZE
    Kinds           \* bound: elements are numbered modulo Kinds

ASSUME SizesAssumption == Sizes \subseteq Nat \ {0}
\* The constructor asserts both.
ASSUME BlockSizeAssumption ==
    /\ MaxBlockSize \in Nat /\ MaxBlockSize >= 2
    /\ \E k \in 1..MaxBlockSize : MaxBlockSize = 2^k
ASSUME KindsAssumption == Kinds \in Nat /\ Kinds >= 2

Elements == 0..Kinds - 1
Raw == Kinds    \* a slot with no element in it

VARIABLES
    ring,       \* maxSize, the number of blocks and the slots of each
    blocks,     \* their front, tail, localFront, localTail and data
    frontBlock, \* index in the ring, as
    tailBlock,
    ppc,        \* phase of try_enqueue
    pblock,     \* the block it writes to
    element,    \* the element it enqueues
    cpc,        \* phase of try_dequeue
    result,     \* the element it took
    wasFull,    \* history: were there maxSize elements when try_enqueue was called?
    wasEmpty    \* history: was the queue empty when try_dequeue was called?

producerVars == <<tailBlock, ppc, pblock, element, wasFull>>
consumerVars == <<frontBlock, cpc, result, wasEmpty>>
blockVars == <<ring, blocks, producerVars, consumerVars>>
-----------------------------------------------------------------------------
(***************************************************************************)
(* The constructor.                                                        *)
(***************************************************************************)

\* The least power of two that is no less than n.
CeilToPow2(n) ==
    LET power[k \in 0..n] == IF k = 0 THEN 1 ELSE 2 * power[k - 1]
    IN  CHOOSE p \in {power[k] : k \in 0..n} : p >= n /\ p \div 2 < n

\* Enough for the whole in one block, or blocks of the greatest size, among
\* them one to spare.
OneBlock(n) == CeilToPow2(n + 1) <= MaxBlockSize * 2
BlockSize(n) == IF OneBlock(n) THEN CeilToPow2(n + 1) ELSE MaxBlockSize

\* Mutated form of BlockCount: no block to spare.
BlockCountNoSpare(n) ==
    IF OneBlock(n) THEN 1 ELSE (n + MaxBlockSize - 2) \div (MaxBlockSize - 1)

BlockCount(n) ==
    IF OneBlock(n) THEN 1 ELSE (n + MaxBlockSize * 2 - 3) \div (MaxBlockSize - 1)

Block(n) == [front |-> 0, tail |-> 0, localFront |-> 0, localTail |-> 0,
             data |-> [i \in 0..n - 1 |-> Raw]]

BlockInit ==
    /\ \E n \in Sizes :
          ring = [maxSize |-> n, count |-> BlockCount(n), slots |-> BlockSize(n)]
    /\ blocks = [b \in 0..ring.count - 1 |-> Block(ring.slots)]
    /\ frontBlock = 0
    /\ tailBlock = 0
    /\ ppc = "idle"
    /\ pblock = 0
    /\ element = 0
    /\ cpc = "idle"
    /\ result = 0
    /\ wasFull = FALSE
    /\ wasEmpty = TRUE

\* block->next, and the slot after i ((i + 1) & sizeMask).
NextBlock(b) == (b + 1) % ring.count
NextSlot(i) == (i + 1) % ring.slots

\* The elements in a block, and in the queue, oldest first.
InBlock(b) ==
    LET B == blocks[b]
    IN  [i \in 1..((B.tail + ring.slots - B.front) % ring.slots) |->
            B.data[(B.front + i - 1) % ring.slots]]

Contents ==
    LET ahead == (tailBlock + ring.count - frontBlock) % ring.count
        upTo[n \in 0..ahead] ==
            (IF n = 0 THEN <<>> ELSE upTo[n - 1]) \o InBlock((frontBlock + n) % ring.count)
    IN  upTo[ahead]
-----------------------------------------------------------------------------
(***************************************************************************)
(* try_enqueue.                                                            *)
(***************************************************************************)

\* Mutated form of TryPut: the slot that tells full from empty is used.
TryPutLastSlot ==
    /\ ppc = "idle"
    /\ pblock' = tailBlock
    /\ wasFull' = (Len(Contents) >= ring.maxSize)
    /\ LET b == blocks[tailBlock]
       IN  IF NextSlot(b.tail) # b.localFront \/ NextSlot(NextSlot(b.tail)) # b.front
           THEN ppc' = "construct" /\ UNCHANGED blocks
           ELSE /\ blocks' = [blocks EXCEPT ![tailBlock].localFront = b.front]
                /\ ppc' = "full"
    /\ UNCHANGED <<ring, tailBlock, element, consumerVars>>

\* Is there room in the tail block?  front is read only if the copy says no.
TryPut ==
    /\ ppc = "idle"
    /\ pblock' = tailBlock
    /\ wasFull' = (Len(Contents) >= ring.maxSize)
    /\ LET b == blocks[tailBlock]
       IN  IF NextSlot(b.tail) # b.localFront
           THEN ppc' = "construct" /\ UNCHANGED blocks
           ELSE /\ blocks' = [blocks EXCEPT ![tailBlock].localFront = b.front]
                /\ ppc' = IF NextSlot(b.tail) # b.front THEN "construct" ELSE "full"
    /\ UNCHANGED <<ring, tailBlock, element, consumerVars>>

\* Mutated form of LookAhead: the block the consumer reads may be used.
LookAheadAnywhere ==
    /\ ppc = "full"
    /\ pblock' = NextBlock(tailBlock)
    /\ ppc' = "advance"
    /\ UNCHANGED <<ring, blocks, tailBlock, element, wasFull, consumerVars>>

\* The tail block is full.  The next may be used unless it is the one the
\* consumer reads; if it is, try_enqueue returns false.
LookAhead ==
    /\ ppc = "full"
    /\ IF NextBlock(tailBlock) # frontBlock
       THEN /\ pblock' = NextBlock(tailBlock)
            /\ ppc' = "advance"
       ELSE /\ UNCHANGED pblock
            /\ ppc' = "idle"
    /\ UNCHANGED <<ring, blocks, tailBlock, element, wasFull, consumerVars>>

\* Mutated form of UseNextBlock: tailBlock is moved before the block is written to.
UseNextBlockAtOnce ==
    /\ ppc = "advance"
    /\ blocks' = [blocks EXCEPT ![pblock].localFront = blocks[pblock].front]
    /\ tailBlock' = pblock
    /\ ppc' = "construct"
    /\ UNCHANGED <<ring, pblock, element, wasFull, consumerVars>>

\* The next block: assert(nextBlockFront == nextBlockTail).
UseNextBlock ==
    /\ ppc = "advance"
    /\ blocks' = [blocks EXCEPT ![pblock].localFront = blocks[pblock].front]
    /\ ppc' = "construct"
    /\ UNCHANGED <<ring, tailBlock, pblock, element, wasFull, consumerVars>>

\* new (location) T(element)
Construct ==
    /\ ppc = "construct"
    /\ blocks' = [blocks EXCEPT ![pblock].data[blocks[pblock].tail] = element]
    /\ ppc' = "tail"
    /\ UNCHANGED <<ring, tailBlock, pblock, element, wasFull, consumerVars>>

\* The tail of the block is moved; unless the block is a new one, the element is
\* in the queue, and try_enqueue returns true.
MoveTail ==
    /\ ppc = "tail"
    /\ blocks' = [blocks EXCEPT ![pblock].tail = NextSlot(@)]
    /\ IF pblock = tailBlock
       THEN /\ ppc' = "idle"
            /\ element' = (element + 1) % Kinds
       ELSE /\ ppc' = "tailBlock"
            /\ UNCHANGED element
    /\ UNCHANGED <<ring, tailBlock, pblock, wasFull, consumerVars>>

\* Else it is when tailBlock is moved.
MoveTailBlock ==
    /\ ppc = "tailBlock"
    /\ tailBlock' = pblock
    /\ element' = (element + 1) % Kinds
    /\ ppc' = "idle"
    /\ UNCHANGED <<ring, blocks, pblock, wasFull, consumerVars>>

TryEnqueue ==
    \/ TryPut \/ LookAhead \/ UseNextBlock
    \/ Construct \/ MoveTail \/ MoveTailBlock
-----------------------------------------------------------------------------
(***************************************************************************)
(* try_dequeue.                                                            *)
(***************************************************************************)

Reading == blocks[frontBlock]

\* Mutated form of TryGet: the copy of tail is never renewed.
TryGetOldTail ==
    /\ cpc = "idle"
    /\ wasEmpty' = (Contents = <<>>)
    /\ cpc' = IF Reading.front # Reading.localTail THEN "take" ELSE "empty"
    /\ UNCHANGED <<ring, blocks, frontBlock, result, producerVars>>

\* Is there an element in the front block?  tail is read only if the copy says
\* no.
TryGet ==
    /\ cpc = "idle"
    /\ wasEmpty' = (Contents = <<>>)
    /\ IF Reading.front # Reading.localTail
       THEN cpc' = "take" /\ UNCHANGED blocks
       ELSE /\ blocks' = [blocks EXCEPT ![frontBlock].localTail = Reading.tail]
            /\ cpc' = IF Reading.front # Reading.tail THEN "take" ELSE "empty"
    /\ UNCHANGED <<ring, frontBlock, result, producerVars>>

\* Mutated form of CompareTailBlock: the front block is not looked at again,
\* although the producer may have filled it and moved on in between.
CompareTailBlockOnce ==
    /\ cpc = "empty"
    /\ cpc' = IF frontBlock # tailBlock THEN "next" ELSE "idle"
    /\ UNCHANGED <<ring, blocks, frontBlock, result, wasEmpty, producerVars>>

\* The front block was empty.  If it is the tail block, try_dequeue returns
\* false.
CompareTailBlock ==
    /\ cpc = "empty"
    /\ cpc' = IF frontBlock # tailBlock THEN "again" ELSE "idle"
    /\ UNCHANGED <<ring, blocks, frontBlock, result, wasEmpty, producerVars>>

\* "Oh look, the front block isn't empty after all"
LookAgain ==
    /\ cpc = "again"
    /\ blocks' = [blocks EXCEPT ![frontBlock].localTail = Reading.tail]
    /\ cpc' = IF Reading.front # Reading.tail THEN "take" ELSE "next"
    /\ UNCHANGED <<ring, frontBlock, result, wasEmpty, producerVars>>

\* The next block: assert(nextBlockFront != nextBlockTail).
ReadNextBlock ==
    /\ cpc = "next"
    /\ LET next == NextBlock(frontBlock)
       IN  blocks' = [blocks EXCEPT ![next].localTail = blocks[next].tail]
    /\ cpc' = "frontBlock"
    /\ UNCHANGED <<ring, frontBlock, result, wasEmpty, producerVars>>

\* "We're done with this block, let the producer use it if it needs"
MoveFrontBlock ==
    /\ cpc = "frontBlock"
    /\ frontBlock' = NextBlock(frontBlock)
    /\ cpc' = "take"
    /\ UNCHANGED <<ring, blocks, result, wasEmpty, producerVars>>

\* result = std::move(*element); element->~T();
Take ==
    /\ cpc = "take"
    /\ result' = Reading.data[Reading.front]
    /\ blocks' = [blocks EXCEPT ![frontBlock].data[Reading.front] = Raw]
    /\ cpc' = "front"
    /\ UNCHANGED <<ring, frontBlock, wasEmpty, producerVars>>

\* The front of the block is moved: the element has left the queue.
MoveFront ==
    /\ cpc = "front"
    /\ blocks' = [blocks EXCEPT ![frontBlock].front = NextSlot(@)]
    /\ cpc' = "idle"
    /\ UNCHANGED <<ring, frontBlock, result, wasEmpty, producerVars>>

TryDequeue ==
    \/ TryGet \/ CompareTailBlock \/ LookAgain
    \/ ReadNextBlock \/ MoveFrontBlock
    \/ Take \/ MoveFront

BlockNext == TryEnqueue \/ TryDequeue

BlockSpec == BlockInit /\ [][BlockNext]_blockVars

\* The consumer thread calls try_dequeue again and again (consumer.h:207-214);
\* the producer's thread may stop anywhere.
FairBlockSpec == BlockSpec /\ WF_blockVars(TryDequeue)
-----------------------------------------------------------------------------
(***************************************************************************)
(* Properties.                                                             *)
(***************************************************************************)

Blocks == DOMAIN blocks
Slots == 0..ring.slots - 1

\* The type invariant: an element is constructed between front and tail of its
\* block and nowhere else, but for the one that try_enqueue has put and not yet
\* made visible and the one that try_dequeue has taken and not yet given up; and
\* none is constructed over another where the consumer has yet to read, however
\* old localFront is.
BlockTypeOK ==
    /\ blocks \in [Blocks -> [front : Slots, tail : Slots, localFront : Slots,
                              localTail : Slots, data : [Slots -> Elements \cup {Raw}]]]
    /\ frontBlock \in Blocks /\ tailBlock \in Blocks /\ pblock \in Blocks
    /\ element \in Elements
    /\ result \in Elements
    /\ \A b \in Blocks :
          LET live == {i \in Slots : blocks[b].data[i] # Raw}
              inside == {(blocks[b].front + i - 1) % ring.slots : i \in 1..Len(InBlock(b))}
              put == IF ppc = "tail" /\ pblock = b THEN {blocks[b].tail} ELSE {}
              taken == IF cpc = "front" /\ frontBlock = b THEN {blocks[b].front} ELSE {}
          IN  live = (inside \cup put) \ taken
    /\ ppc = "construct" => blocks[pblock].data[blocks[pblock].tail] = Raw

\* assert(nextBlockFront == nextBlockTail) in inner_enqueue: a block the producer
\* moves on to is empty, and stays so until the producer writes to it.
NextBlockIsEmpty ==
    ppc = "advance" => blocks[pblock].front = blocks[pblock].tail

\* assert(nextBlockFront != nextBlockTail) in try_dequeue: a block the consumer
\* moves on to is not, and the producer has put a first element into it.
NextBlockIsNotEmpty ==
    cpc \in {"next", "frontBlock"} =>
        LET b == blocks[NextBlock(frontBlock)] IN b.front # b.tail

\* "Constructs a queue that can hold maxSize elements without further
\* allocations": try_enqueue returns false only if there were that many when it
\* was called, although one block is full and the others may hold few.
RefusesOnlyIfFull ==
    [][ppc = "full" /\ ppc' = "idle" => wasFull]_blockVars

\* "If the queue is empty, returns false instead": try_dequeue returns false
\* only if the queue was empty when it was called.
MissesOnlyIfEmpty ==
    [][cpc = "empty" /\ cpc' = "idle" => wasEmpty]_blockVars

\* The blocks implement a bounded first in, first out queue, and no element
\* stays in it for ever.  An element is in from the step that makes it visible
\* to the consumer, and out from the step that reads it.
Fifo == INSTANCE BoundedFifo
          WITH Capacity <- ring.count * (ring.slots - 1),
               fifo <- IF cpc = "front" THEN Tail(Contents) ELSE Contents,
               got <- result
ImplementsFifo == Fifo!FairSpec
=============================================================================
