-------------------------- MODULE BlockQueueProofs --------------------------
(***************************************************************************)
(* Proofs about BlockQueue: its type invariant, which says that no slot is *)
(* written over or read when it holds no element; the two assertions of    *)
(* the code about the block that comes next; that try_dequeue returns      *)
(* false only if the queue was empty and try_enqueue only if it was full;  *)
(* and that the blocks implement a bounded first in, first out queue.      *)
(*                                                                         *)
(* Each thread works from a copy of what the other owns.  The argument is  *)
(* about how far apart positions are: an old copy makes a block look       *)
(* fuller to the producer, and emptier to the consumer, than it is.  The   *)
(* contents of the queue are the contents of its blocks in use, one after  *)
(* the other; what a step makes of them is shown for sequences that are    *)
(* joined, before anything is said of blocks.                              *)
(***************************************************************************)
EXTENDS BlockQueue, Integers, SequenceTheorems, WellFoundedInduction, TLAPS

Bs == 0..ring.count - 1

BlockRecord == [front : Slots, tail : Slots, localFront : Slots, localTail : Slots,
                data : [Slots -> Elements \cup {Raw}]]

RingTyped ==
    /\ ring.count \in Nat /\ ring.count >= 1
    /\ ring.slots \in Nat /\ ring.slots >= 2

Typed ==
    /\ RingTyped
    /\ blocks \in [Bs -> BlockRecord]
    /\ frontBlock \in Bs /\ tailBlock \in Bs /\ pblock \in Bs
    /\ element \in Elements /\ result \in Elements
    /\ ppc \in {"idle", "full", "advance", "construct", "tail", "tailBlock"}
    /\ cpc \in {"idle", "empty", "again", "next", "frontBlock", "take", "front"}
-----------------------------------------------------------------------------
(***************************************************************************)
(* Distances between two of s places in a ring.                            *)
(***************************************************************************)

\* Steps from a on to b, none if they are the same; and the place after a.
Dist(s, a, b) == IF b >= a THEN b - a ELSE b - a + s
After(s, a) == IF a + 1 = s THEN 0 ELSE a + 1

\* The same, but all the way around if they are the same: what is free between
\* tail and front.
Room(s, a, b) == IF b > a THEN b - a ELSE b - a + s

\* The next slot, and the next block, without the modulus.
LEMMA NextIsAfter ==
    ASSUME NEW s \in Nat, NEW a \in 0..s - 1
    PROVE  (a + 1) % s = After(s, a) /\ After(s, a) \in 0..s - 1
BY DEF After

\* The modulus that InBlock uses is the distance.
LEMMA ModIsDist ==
    ASSUME NEW s \in Nat, NEW a \in 0..s - 1, NEW b \in 0..s - 1
    PROVE  (b + s - a) % s = Dist(s, a, b)
BY DEF Dist

\* A distance is less than s, and nothing only from a to a; room is at least one.
LEMMA DistBounds ==
    ASSUME NEW s \in Nat, NEW a \in 0..s - 1, NEW b \in 0..s - 1
    PROVE  /\ Dist(s, a, b) \in 0..s - 1
           /\ Dist(s, a, b) = 0 <=> a = b
           /\ Room(s, a, b) \in 1..s
           /\ Room(s, a, b) = s <=> a = b
           /\ Room(s, a, b) = 1 <=> After(s, a) = b
BY DEF Dist, Room, After

-----------------------------------------------------------------------------
(***************************************************************************)
(* What one field of one block becomes.                                    *)
(***************************************************************************)

\* The other blocks stay.
Others(b) == \A c \in Bs \ {b} : blocks'[c] = blocks[c]

\* A position of b moves.
LEMMA PutFront ==
    ASSUME blocks \in [Bs -> BlockRecord], NEW b \in Bs, NEW v \in Slots,
           blocks' = [blocks EXCEPT ![b].front = v]
    PROVE  /\ blocks' \in [Bs -> BlockRecord]
           /\ Others(b)
           /\ blocks'[b].front = v
           /\ UNCHANGED <<blocks[b].tail, blocks[b].localFront, blocks[b].localTail,
                          blocks[b].data>>
BY DEF BlockRecord, Others

\* The producer's.
LEMMA PutTail ==
    ASSUME blocks \in [Bs -> BlockRecord], NEW b \in Bs, NEW v \in Slots,
           blocks' = [blocks EXCEPT ![b].tail = v]
    PROVE  /\ blocks' \in [Bs -> BlockRecord]
           /\ Others(b)
           /\ blocks'[b].tail = v
           /\ UNCHANGED <<blocks[b].front, blocks[b].localFront, blocks[b].localTail,
                          blocks[b].data>>
BY DEF BlockRecord, Others

\* The producer's copy of front.
LEMMA PutLocalFront ==
    ASSUME blocks \in [Bs -> BlockRecord], NEW b \in Bs, NEW v \in Slots,
           blocks' = [blocks EXCEPT ![b].localFront = v]
    PROVE  /\ blocks' \in [Bs -> BlockRecord]
           /\ Others(b)
           /\ blocks'[b].localFront = v
           /\ UNCHANGED <<blocks[b].front, blocks[b].tail, blocks[b].localTail,
                          blocks[b].data>>
BY DEF BlockRecord, Others

\* The consumer's copy of tail.
LEMMA PutLocalTail ==
    ASSUME blocks \in [Bs -> BlockRecord], NEW b \in Bs, NEW v \in Slots,
           blocks' = [blocks EXCEPT ![b].localTail = v]
    PROVE  /\ blocks' \in [Bs -> BlockRecord]
           /\ Others(b)
           /\ blocks'[b].localTail = v
           /\ UNCHANGED <<blocks[b].front, blocks[b].tail, blocks[b].localFront,
                          blocks[b].data>>
BY DEF BlockRecord, Others

\* A slot of b is written.
LEMMA PutData ==
    ASSUME blocks \in [Bs -> BlockRecord], NEW b \in Bs, NEW i \in Slots,
           NEW v \in Elements \cup {Raw}, blocks' = [blocks EXCEPT ![b].data[i] = v]
    PROVE  /\ blocks' \in [Bs -> BlockRecord]
           /\ Others(b)
           /\ blocks'[b].data[i] = v
           /\ \A j \in Slots \ {i} : blocks'[b].data[j] = blocks[b].data[j]
           /\ UNCHANGED <<blocks[b].front, blocks[b].tail, blocks[b].localFront,
                          blocks[b].localTail>>
BY DEF BlockRecord, Others
-----------------------------------------------------------------------------
(***************************************************************************)
(* The inductive invariant.                                                *)
(***************************************************************************)

\* The positions of a block of s slots.  The consumer's copy of tail is between
\* front and tail, and the producer's copy of front is no farther on than front.
Cursors(s, f, t, lf, lt) ==
    /\ Dist(s, f, lt) <= Dist(s, f, t)
    /\ Room(s, t, lf) <= Room(s, t, f)

CursorsOf(B) == Cursors(ring.slots, B.front, B.tail, B.localFront, B.localTail)

\* While try_enqueue writes, its copy shows it a slot more than it needs; while
\* try_dequeue reads, its copy shows it an element.
CursorInv ==
    /\ \A b \in Bs : CursorsOf(blocks[b])
    /\ ppc \in {"construct", "tail"} =>
          Room(ring.slots, blocks[pblock].tail, blocks[pblock].localFront) >= 2
    /\ cpc \in {"take", "front"} =>
          blocks[frontBlock].front # blocks[frontBlock].localTail
    /\ cpc = "frontBlock" =>
          \A b \in Bs : b = After(ring.count, frontBlock) =>
             blocks[b].front # blocks[b].localTail

Empty(b) == blocks[b].front = blocks[b].tail

\* The blocks from frontBlock on to tailBlock.
InUse(b) ==
    IF frontBlock <= tailBlock
    THEN frontBlock <= b /\ b <= tailBlock
    ELSE frontBlock <= b \/ b <= tailBlock

NewBlock == pblock = After(ring.count, tailBlock) /\ pblock # frontBlock

\* Blocks in use have elements, but for the one the consumer is at; the others
\* have none, but for the one the producer is about to add.
RingInv ==
    /\ ppc \in {"advance", "tailBlock"} => NewBlock
    /\ ppc \in {"construct", "tail"} => pblock = tailBlock \/ NewBlock
    /\ ppc = "tailBlock" => ~Empty(pblock)
    /\ cpc \in {"again", "next", "frontBlock"} => frontBlock # tailBlock
    /\ cpc \in {"next", "frontBlock"} => Empty(frontBlock)
    /\ \A b \in Bs : InUse(b) /\ b # frontBlock => ~Empty(b)
    /\ \A b \in Bs : ~InUse(b) => Empty(b) \/ (ppc = "tailBlock" /\ b = pblock)

\* The slots that hold an element: those between front and tail, and the one that
\* was constructed, without the one that was taken.
Held(b, i) ==
    /\ \/ Dist(ring.slots, blocks[b].front, i)
             < Dist(ring.slots, blocks[b].front, blocks[b].tail)
       \/ ppc = "tail" /\ pblock = b /\ blocks[b].tail = i
    /\ ~(cpc = "front" /\ frontBlock = b /\ blocks[b].front = i)

DataInv ==
    \A b \in Bs : \A i \in Slots : blocks[b].data[i] # Raw <=> Held(b, i)

BlockInv == Typed /\ CursorInv /\ RingInv /\ DataInv
-----------------------------------------------------------------------------
(***************************************************************************)
(* What the invariant says of one block.                                   *)
(***************************************************************************)

\* The positions are slots.
LEMMA Positions ==
    ASSUME Typed, NEW b \in Bs
    PROVE  /\ blocks[b].front \in 0..ring.slots - 1
           /\ blocks[b].tail \in 0..ring.slots - 1
           /\ blocks[b].localFront \in 0..ring.slots - 1
           /\ blocks[b].localTail \in 0..ring.slots - 1
           /\ blocks[b].data \in [Slots -> Elements \cup {Raw}]
<1>1. blocks[b] \in BlockRecord
  BY DEF Typed
<1> QED
  BY <1>1 DEF BlockRecord, Slots

\* There is room after the slot that try_enqueue writes to, however old its copy
\* of front is.
LEMMA RoomToWrite ==
    ASSUME Typed, CursorInv, ppc \in {"construct", "tail"}
    PROVE  After(ring.slots, blocks[pblock].tail) # blocks[pblock].front
<1>1. PICK s \in Nat, p \in Bs : s = ring.slots /\ p = pblock
  BY DEF Typed, RingTyped
<1>2. PICK f \in 0..s - 1, t \in 0..s - 1, lf \in 0..s - 1 :
         f = blocks[p].front /\ t = blocks[p].tail /\ lf = blocks[p].localFront
  BY <1>1, Positions
<1>3. Room(s, t, lf) <= Room(s, t, f)
  BY <1>1, <1>2 DEF CursorInv, CursorsOf, Cursors
<1>4. Room(s, t, lf) >= 2
  BY <1>1, <1>2 DEF CursorInv
<1>5. Room(s, t, f) # 1
  BY <1>3, <1>4 DEF Room
<1>6. After(s, t) # f
  BY <1>5 DEF Room, After
<1> QED
  BY <1>1, <1>2, <1>6

\* There is an element for try_dequeue to take, however old its copy of tail is.
LEMMA ElementToTake ==
    ASSUME Typed, CursorInv, cpc \in {"take", "front"}
    PROVE  blocks[frontBlock].front # blocks[frontBlock].tail
<1>1. PICK s \in Nat, q \in Bs : s = ring.slots /\ q = frontBlock
  BY DEF Typed, RingTyped
<1>2. PICK f \in 0..s - 1, t \in 0..s - 1, lt \in 0..s - 1 :
         f = blocks[q].front /\ t = blocks[q].tail /\ lt = blocks[q].localTail
  BY <1>1, Positions
<1>3. Dist(s, f, lt) <= Dist(s, f, t)
  BY <1>1, <1>2 DEF CursorInv, CursorsOf, Cursors
<1>4. f # lt
  BY <1>1, <1>2 DEF CursorInv
<1>5. f # t
  BY <1>3, <1>4 DEF Dist
<1> QED
  BY <1>1, <1>2, <1>5

\* The positions of a block after a step of the producer or of the consumer.
LEMMA CursorsAfter ==
    ASSUME NEW s \in Nat, s >= 2, NEW f \in 0..s - 1, NEW t \in 0..s - 1,
           NEW lf \in 0..s - 1, NEW lt \in 0..s - 1, Cursors(s, f, t, lf, lt)
    PROVE  /\ Cursors(s, f, t, f, lt)
           /\ Cursors(s, f, t, lf, t)
           /\ Room(s, t, lf) >= 2 => Cursors(s, f, After(s, t), lf, lt)
           /\ f # lt => Cursors(s, After(s, f), t, lf, lt)
BY DEF Cursors, Dist, Room, After

\* A step that leaves all positions and phases that matter alone keeps DataInv.
LEMMA DataKept ==
    ASSUME Typed, DataInv, UNCHANGED ring,
           \A b \in Bs : UNCHANGED <<blocks[b].front, blocks[b].tail, blocks[b].data>>,
           \A b \in Bs : (ppc = "tail" /\ pblock = b)' <=> (ppc = "tail" /\ pblock = b),
           \A b \in Bs :
              (cpc = "front" /\ frontBlock = b)' <=> (cpc = "front" /\ frontBlock = b)
    PROVE  DataInv'
BY DEF DataInv, Held, Bs, Slots
-----------------------------------------------------------------------------
(***************************************************************************)
(* The steps of try_enqueue.                                               *)
(***************************************************************************)

\* The copy of front of one block is renewed, or nothing is changed in the blocks.
RenewsFront(p) ==
    \/ UNCHANGED blocks
    \/ blocks' = [blocks EXCEPT ![p].localFront = blocks[p].front]

\* That keeps the blocks' records, their positions and their data.
LEMMA RenewFront ==
    ASSUME Typed, CursorInv, NEW p \in Bs, RenewsFront(p), UNCHANGED ring
    PROVE  /\ blocks' \in [Bs -> BlockRecord]
           /\ \A b \in Bs : UNCHANGED <<blocks[b].front, blocks[b].tail, blocks[b].localTail,
                                        blocks[b].data>>
           /\ \A b \in Bs : CursorsOf(blocks[b])'
           /\ Others(p)
<1>0. blocks \in [Bs -> BlockRecord]
  BY DEF Typed
<1>1. CASE UNCHANGED blocks
  BY <1>0, <1>1 DEF CursorInv, CursorsOf, Others
<1>2. CASE blocks' = [blocks EXCEPT ![p].localFront = blocks[p].front]
  <2>1. blocks[p].front \in Slots
    BY Positions DEF Slots
  <2>2. /\ blocks' \in [Bs -> BlockRecord]
        /\ Others(p)
        /\ blocks'[p].localFront = blocks[p].front
        /\ UNCHANGED <<blocks[p].front, blocks[p].tail, blocks[p].localTail,
                       blocks[p].data>>
    BY <1>0, <1>2, <2>1, PutLocalFront
  <2>3. ASSUME NEW b \in Bs
        PROVE  CursorsOf(blocks[b])'
    <3>1. CursorsOf(blocks[b])
      BY DEF CursorInv
    <3>2. CASE b = p
      <4>1. PICK s \in Nat : s = ring.slots /\ s >= 2
        BY DEF Typed, RingTyped
      <4>2. Cursors(s, blocks[p].front, blocks[p].tail, blocks[p].front,
                    blocks[p].localTail)
        BY <3>1, <3>2, <4>1, Positions, CursorsAfter DEF CursorsOf
      <4> QED
        BY <2>2, <3>2, <4>1, <4>2 DEF CursorsOf
    <3>3. CASE b # p
      BY <2>2, <3>1, <3>3 DEF CursorsOf, Others
    <3> QED
      BY <3>2, <3>3
  <2> QED
    BY <2>2, <2>3 DEF Others
<1> QED
  BY <1>1, <1>2 DEF RenewsFront

\* TryPut goes on to write only if there is room.
LEMMA TryPutStep ==
    ASSUME BlockInv, TryPut
    PROVE  BlockInv'
<1>1. PICK s \in Nat, p \in Bs : s = ring.slots /\ s >= 2 /\ p = tailBlock
  BY DEF BlockInv, Typed, RingTyped
<1>2. /\ ppc = "idle" /\ pblock' = p
      /\ UNCHANGED <<ring, tailBlock, element, frontBlock, cpc, result>>
  BY <1>1 DEF TryPut, consumerVars
<1>3. RenewsFront(p)
  BY <1>1 DEF TryPut, RenewsFront
<1>4. ppc' \in {"construct", "full"}
  BY DEF TryPut
<1>5. /\ blocks' \in [Bs -> BlockRecord]
      /\ \A b \in Bs : UNCHANGED <<blocks[b].front, blocks[b].tail, blocks[b].localTail,
                                   blocks[b].data>>
      /\ \A b \in Bs : CursorsOf(blocks[b])'
  BY <1>2, <1>3, RenewFront DEF BlockInv
<1>6. Typed'
  BY <1>1, <1>2, <1>4, <1>5 DEF BlockInv, Typed, RingTyped, Bs, BlockRecord, Slots
<1>7. ppc' = "construct" => Room(s, blocks'[p].tail, blocks'[p].localFront) >= 2
  <2>1. PICK t \in 0..s - 1, f \in 0..s - 1, lf \in 0..s - 1 :
           t = blocks[p].tail /\ f = blocks[p].front /\ lf = blocks[p].localFront
    BY <1>1, Positions DEF BlockInv
  <2>2. NextSlot(t) = After(s, t)
    BY <1>1, NextIsAfter DEF NextSlot
  <2>3. CASE NextSlot(t) # lf
    <3>1. UNCHANGED blocks
      BY <1>1, <2>1, <2>3 DEF TryPut
    <3>2. Room(s, t, lf) >= 2
      BY <1>1, <2>2, <2>3 DEF Room, After
    <3> QED
      BY <2>1, <3>1, <3>2
  <2>4. CASE NextSlot(t) = lf
    <3>1. /\ blocks' = [blocks EXCEPT ![p].localFront = blocks[p].front]
          /\ ppc' = "construct" => NextSlot(t) # f
      BY <1>1, <2>1, <2>4 DEF TryPut
    <3>2. blocks'[p].localFront = f
      BY <2>1, <3>1 DEF BlockInv, Typed, BlockRecord
    <3>3. NextSlot(t) # f => Room(s, t, f) >= 2
      BY <1>1, <2>2 DEF Room, After
    <3> QED
      BY <1>5, <2>1, <3>1, <3>2, <3>3
  <2> QED
    BY <2>3, <2>4
<1>8. CursorInv'
  <2>1. \A b \in Bs : CursorsOf(blocks[b])'
    BY <1>5
  <2>2. ppc' \in {"construct", "tail"} =>
           Room(ring'.slots, blocks'[pblock'].tail, blocks'[pblock'].localFront) >= 2
    BY <1>1, <1>2, <1>4, <1>7
  <2>3. cpc \in {"take", "front"} =>
           blocks'[frontBlock].front # blocks'[frontBlock].localTail
    BY <1>5 DEF BlockInv, CursorInv, Typed
  <2>4. cpc = "frontBlock" =>
           \A b \in Bs : b = After(ring.count, frontBlock) =>
              blocks'[b].front # blocks'[b].localTail
    BY <1>5 DEF BlockInv, CursorInv
  <2> QED
    BY <1>2, <2>1, <2>2, <2>3, <2>4 DEF CursorInv, Bs
<1>9. RingInv'
  BY <1>1, <1>2, <1>4, <1>5 DEF BlockInv, Typed, RingInv, NewBlock, Empty, InUse, Bs
<1>10. DataInv'
  BY <1>2, <1>4, <1>5, DataKept DEF BlockInv
<1> QED
  BY <1>6, <1>8, <1>9, <1>10 DEF BlockInv

\* LookAhead finds a block that is not in use.
LEMMA LookAheadStep ==
    ASSUME BlockInv, LookAhead
    PROVE  BlockInv'
<1>1. /\ ring.count \in Nat
      /\ tailBlock \in 0..ring.count - 1
  BY DEF BlockInv, Typed, RingTyped, Bs
<1> PICK n, t : n = ring.count /\ t = tailBlock
  OBVIOUS
<1>2. /\ ppc = "full" /\ ppc' \in {"advance", "idle"}
      /\ UNCHANGED <<ring, blocks, tailBlock, element, frontBlock, cpc, result>>
  BY DEF LookAhead, consumerVars
<1>3. NextBlock(t) = After(n, t) /\ After(n, t) \in 0..n - 1
  BY <1>1, NextIsAfter DEF NextBlock
<1>4. /\ ppc' = "advance" => pblock' = After(n, t) /\ pblock' # frontBlock
      /\ pblock' \in 0..n - 1
  BY <1>1, <1>3 DEF LookAhead, BlockInv, Typed, Bs
<1>5. Typed'
  BY <1>1, <1>2, <1>4 DEF BlockInv, Typed, RingTyped, Bs, BlockRecord, Slots
<1>6. CursorInv'
  BY <1>2 DEF BlockInv, CursorInv, CursorsOf, Bs
<1>7. RingInv'
  BY <1>1, <1>2, <1>4 DEF BlockInv, RingInv, NewBlock, Empty, InUse, Bs
<1>8. DataInv'
  BY <1>2, DataKept DEF BlockInv
<1> QED
  BY <1>5, <1>6, <1>7, <1>8 DEF BlockInv

\* A block that is not in use is empty.
LEMMA NewIsEmpty ==
    ASSUME Typed, RingInv, NewBlock, ppc # "tailBlock"
    PROVE  Empty(pblock)
<1>1. ~InUse(pblock)
  BY DEF Typed, RingTyped, NewBlock, InUse, After, Bs
<1> QED
  BY <1>1 DEF Typed, RingInv

\* UseNextBlock finds it empty.
LEMMA UseNextBlockStep ==
    ASSUME BlockInv, UseNextBlock
    PROVE  BlockInv'
<1>1. PICK s \in Nat, p \in Bs : s = ring.slots /\ s >= 2 /\ p = pblock
  BY DEF BlockInv, Typed, RingTyped
<1>2. /\ ppc = "advance" /\ ppc' = "construct"
      /\ UNCHANGED <<ring, pblock, tailBlock, element, frontBlock, cpc, result>>
      /\ blocks' = [blocks EXCEPT ![p].localFront = blocks[p].front]
  BY <1>1 DEF UseNextBlock, consumerVars
<1>3. NewBlock
  BY <1>2 DEF BlockInv, RingInv
<1>4. blocks[p].front = blocks[p].tail
  BY <1>1, <1>2, <1>3, NewIsEmpty DEF BlockInv, Empty
<1>5. /\ blocks' \in [Bs -> BlockRecord]
      /\ \A b \in Bs : UNCHANGED <<blocks[b].front, blocks[b].tail, blocks[b].localTail,
                                   blocks[b].data>>
      /\ \A b \in Bs : CursorsOf(blocks[b])'
  BY <1>2, RenewFront DEF BlockInv, RenewsFront
<1>6. Typed'
  BY <1>2, <1>5 DEF BlockInv, Typed, RingTyped, Bs, BlockRecord, Slots
<1>7. Room(s, blocks'[p].tail, blocks'[p].localFront) >= 2
  <2>1. PICK t \in 0..s - 1 : t = blocks[p].tail
    BY <1>1, Positions DEF BlockInv
  <2>2. blocks'[p].localFront = t
    BY <1>2, <1>4, <2>1 DEF BlockInv, Typed, BlockRecord
  <2>3. Room(s, t, t) >= 2
    BY <1>1 DEF Room
  <2> QED
    BY <1>5, <2>1, <2>2, <2>3
<1>8. CursorInv'
  <2>1. Room(ring'.slots, blocks'[pblock'].tail, blocks'[pblock'].localFront) >= 2
    BY <1>1, <1>2, <1>7
  <2>2. cpc \in {"take", "front"} =>
           blocks'[frontBlock].front # blocks'[frontBlock].localTail
    BY <1>5 DEF BlockInv, CursorInv, Typed
  <2>3. cpc = "frontBlock" =>
           \A b \in Bs : b = After(ring.count, frontBlock) =>
              blocks'[b].front # blocks'[b].localTail
    BY <1>5 DEF BlockInv, CursorInv
  <2> QED
    BY <1>2, <1>5, <2>1, <2>2, <2>3 DEF CursorInv, Bs
<1>9. RingInv'
  BY <1>2, <1>5 DEF BlockInv, Typed, RingInv, NewBlock, Empty, InUse, Bs
<1>10. DataInv'
  BY <1>2, <1>5, DataKept DEF BlockInv
<1> QED
  BY <1>6, <1>8, <1>9, <1>10 DEF BlockInv

\* Construct fills the slot at tail, in which there was no element.
LEMMA ConstructStep ==
    ASSUME BlockInv, Construct
    PROVE  BlockInv'
<1>1. PICK s \in Nat, p \in Bs : s = ring.slots /\ s >= 2 /\ p = pblock
  BY DEF BlockInv, Typed, RingTyped
<1>2. PICK t \in 0..s - 1 : t = blocks[p].tail
  BY <1>1, Positions DEF BlockInv
<1>3. /\ ppc = "construct" /\ ppc' = "tail"
      /\ UNCHANGED <<ring, pblock, tailBlock, element, frontBlock, cpc, result>>
      /\ blocks' = [blocks EXCEPT ![p].data[t] = element]
  BY <1>1, <1>2 DEF Construct, consumerVars
<1>4. element \in Elements \cup {Raw} /\ t \in Slots
  BY <1>1 DEF BlockInv, Typed, Slots
<1>5. /\ blocks' \in [Bs -> BlockRecord]
      /\ Others(p)
      /\ blocks'[p].data[t] = element
      /\ \A j \in Slots \ {t} : blocks'[p].data[j] = blocks[p].data[j]
      /\ UNCHANGED <<blocks[p].front, blocks[p].tail, blocks[p].localFront,
                     blocks[p].localTail>>
  BY <1>3, <1>4, PutData DEF BlockInv, Typed
<1>6. \A b \in Bs : UNCHANGED <<blocks[b].front, blocks[b].tail, blocks[b].localFront,
                                blocks[b].localTail>>
  BY <1>5 DEF Others
<1>7. Typed'
  BY <1>3, <1>5 DEF BlockInv, Typed, RingTyped, Bs, BlockRecord, Slots
<1>8. CursorInv'
  <2>1. \A b \in Bs : CursorsOf(blocks[b])'
    BY <1>3, <1>6 DEF BlockInv, CursorInv, CursorsOf
  <2> QED
    BY <1>1, <1>3, <1>6, <2>1 DEF BlockInv, Typed, CursorInv, Bs
<1>9. RingInv'
  BY <1>3, <1>6 DEF BlockInv, Typed, RingInv, NewBlock, Empty, InUse, Bs
<1>10. DataInv'
  <2>1. \A b \in Bs \ {p} : \A i \in Slots : blocks'[b].data[i] # Raw <=> Held(b, i)'
    BY <1>1, <1>3, <1>5 DEF BlockInv, DataInv, Held, Others
  <2>2. ASSUME NEW i \in Slots
        PROVE  blocks'[p].data[i] # Raw <=> Held(p, i)'
    <3>1. CASE i = t
      <4>1. blocks'[p].data[i] # Raw
        <5>1. element \in 0..Kinds - 1 /\ Kinds \in Nat
          BY KindsAssumption DEF BlockInv, Typed, Elements
        <5> QED
          BY <1>5, <3>1, <5>1 DEF Raw
      <4>2. ~(cpc = "front" /\ frontBlock = p /\ blocks[p].front = t)
        BY <1>2, ElementToTake DEF BlockInv
      <4> QED
        BY <1>1, <1>2, <1>3, <1>5, <3>1, <4>1, <4>2 DEF Held
    <3>2. CASE i # t
      BY <1>1, <1>2, <1>3, <1>5, <3>2 DEF BlockInv, DataInv, Held
    <3> QED
      BY <3>1, <3>2
  <2> QED
    BY <1>3, <2>1, <2>2 DEF DataInv, Bs, Slots
<1> QED
  BY <1>7, <1>8, <1>9, <1>10 DEF BlockInv

\* MoveTail adds one element to the block, and does not make it look empty.
LEMMA MoveTailStep ==
    ASSUME BlockInv, MoveTail
    PROVE  BlockInv'
<1>1. PICK s \in Nat, p \in Bs : s = ring.slots /\ s >= 2 /\ p = pblock
  BY DEF BlockInv, Typed, RingTyped
<1>2. PICK f \in 0..s - 1, t \in 0..s - 1, lf \in 0..s - 1, lt \in 0..s - 1 :
         /\ f = blocks[p].front /\ t = blocks[p].tail
         /\ lf = blocks[p].localFront /\ lt = blocks[p].localTail
  BY <1>1, Positions DEF BlockInv
<1>3. After(s, t) \in 0..s - 1 /\ NextSlot(t) = After(s, t)
  BY <1>1, NextIsAfter DEF NextSlot
<1>4. /\ ppc = "tail"
      /\ ppc' = IF p = tailBlock THEN "idle" ELSE "tailBlock"
      /\ UNCHANGED <<ring, pblock, tailBlock, frontBlock, cpc, result>>
      /\ blocks' = [blocks EXCEPT ![p].tail = After(s, t)]
  BY <1>1, <1>2, <1>3 DEF MoveTail, consumerVars
<1>5. element' \in Elements
  BY KindsAssumption DEF MoveTail, BlockInv, Typed, Elements
<1>6. After(s, t) \in Slots
  BY <1>1, <1>3 DEF Slots
<1>7. /\ blocks' \in [Bs -> BlockRecord]
      /\ Others(p)
      /\ blocks'[p].tail = After(s, t)
      /\ UNCHANGED <<blocks[p].front, blocks[p].localFront, blocks[p].localTail,
                     blocks[p].data>>
  BY <1>4, <1>6, PutTail DEF BlockInv, Typed
<1>8. After(s, t) # f
  BY <1>1, <1>2, <1>4, RoomToWrite DEF BlockInv
<1>9. Typed'
  BY <1>4, <1>5, <1>7 DEF BlockInv, Typed, RingTyped, Bs, BlockRecord, Slots
<1>10. CursorInv'
  <2>1. Room(s, t, lf) >= 2
    BY <1>1, <1>2, <1>4 DEF BlockInv, CursorInv
  <2>2. Cursors(s, f, t, lf, lt)
    BY <1>1, <1>2 DEF BlockInv, CursorInv, CursorsOf
  <2>3. Cursors(s, f, After(s, t), lf, lt)
    BY <1>1, <2>1, <2>2, CursorsAfter
  <2>4. CursorsOf(blocks[p])'
    BY <1>1, <1>2, <1>4, <1>7, <2>3 DEF CursorsOf
  <2>5. \A b \in Bs \ {p} : CursorsOf(blocks[b])'
    BY <1>4, <1>7 DEF BlockInv, CursorInv, CursorsOf, Others
  <2>6. \A b \in Bs : UNCHANGED <<blocks[b].front, blocks[b].localTail>>
    BY <1>7 DEF Others
  <2> QED
    BY <1>4, <2>4, <2>5, <2>6 DEF BlockInv, Typed, CursorInv, Bs
<1>11. RingInv'
  <2>1. Empty(p)' = FALSE
    BY <1>2, <1>7, <1>8 DEF Empty
  <2>2. \A b \in Bs \ {p} : Empty(b)' <=> Empty(b)
    BY <1>7 DEF Empty, Others
  <2>3. p # tailBlock => NewBlock
    BY <1>1, <1>4 DEF BlockInv, RingInv
  <2>4. cpc \in {"next", "frontBlock"} => p # frontBlock
    BY <1>1, <2>3 DEF BlockInv, RingInv, NewBlock
  <2>5. p = tailBlock => InUse(p)
    BY <1>1 DEF BlockInv, Typed, RingTyped, InUse, Bs
  <2>6. \A b \in Bs : ~InUse(b)' => Empty(b)' \/ ((ppc = "tailBlock")' /\ b = p)
    BY <1>4, <2>2, <2>5 DEF BlockInv, RingInv, InUse
  <2>7. \A b \in Bs : InUse(b)' /\ b # frontBlock => ~Empty(b)'
    BY <1>4, <2>1, <2>2 DEF BlockInv, RingInv, InUse
  <2>8. (cpc \in {"next", "frontBlock"} => Empty(frontBlock))'
    <3>1. PICK q \in Bs : q = frontBlock
      BY DEF BlockInv, Typed
    <3>2. cpc \in {"next", "frontBlock"} => Empty(q)'
      BY <2>2, <2>4, <3>1 DEF BlockInv, RingInv
    <3> QED
      BY <1>4, <3>1, <3>2 DEF Empty
  <2>9. (ppc = "tailBlock" => ~Empty(pblock))'
    BY <1>1, <1>4, <2>1 DEF Empty
  <2>10. (ppc = "tailBlock" => NewBlock)'
    BY <1>1, <1>4, <2>3 DEF NewBlock
  <2> QED
    BY <1>1, <1>4, <2>6, <2>7, <2>8, <2>9, <2>10 DEF BlockInv, RingInv, Bs
<1>12. DataInv'
  <2>1. \A b \in Bs \ {p} : \A i \in Slots : blocks'[b].data[i] # Raw <=> Held(b, i)'
    BY <1>1, <1>4, <1>7 DEF BlockInv, DataInv, Held, Others
  <2>2. ASSUME NEW i \in Slots
        PROVE  blocks'[p].data[i] # Raw <=> Held(p, i)'
    <3>1. i \in 0..s - 1
      BY <1>1 DEF Slots
    <3>2. Dist(s, f, i) < Dist(s, f, After(s, t)) <=> Dist(s, f, i) < Dist(s, f, t) \/ i = t
      BY <3>1, <1>8 DEF Dist, After
    <3>3. Held(p, i) <=>
             /\ Dist(s, f, i) < Dist(s, f, t) \/ i = t
             /\ ~(cpc = "front" /\ frontBlock = p /\ f = i)
      BY <1>1, <1>2, <1>4 DEF Held
    <3>4. Held(p, i)' <=>
             /\ Dist(s, f, i) < Dist(s, f, After(s, t))
             /\ ~(cpc = "front" /\ frontBlock = p /\ f = i)
      BY <1>1, <1>2, <1>4, <1>7 DEF Held
    <3> QED
      BY <1>7, <3>2, <3>3, <3>4 DEF BlockInv, DataInv
  <2> QED
    BY <1>4, <2>1, <2>2 DEF DataInv, Bs, Slots
<1> QED
  BY <1>9, <1>10, <1>11, <1>12 DEF BlockInv

\* MoveTailBlock makes the new block the tail block.
LEMMA MoveTailBlockStep ==
    ASSUME BlockInv, MoveTailBlock
    PROVE  BlockInv'
<1>1. /\ ppc = "tailBlock" /\ ppc' = "idle" /\ tailBlock' = pblock
      /\ UNCHANGED <<ring, blocks, pblock, frontBlock, cpc, result>>
  BY DEF MoveTailBlock, consumerVars
<1>2. element' \in Elements
  BY KindsAssumption DEF MoveTailBlock, BlockInv, Typed, Elements
<1>3. NewBlock /\ ~Empty(pblock)
  BY <1>1 DEF BlockInv, RingInv
<1>4. Typed'
  BY <1>1, <1>2 DEF BlockInv, Typed, RingTyped, Bs, BlockRecord, Slots
<1>5. CursorInv'
  BY <1>1 DEF BlockInv, CursorInv, CursorsOf, Bs
<1>6. RingInv'
  <2>1. \A b \in Bs : InUse(b)' <=> InUse(b) \/ b = pblock
    BY <1>1, <1>3 DEF BlockInv, Typed, RingTyped, InUse, NewBlock, After, Bs
  <2>2. \A b \in Bs : Empty(b)' <=> Empty(b)
    BY <1>1 DEF Empty
  <2>3. \A b \in Bs : InUse(b)' /\ b # frontBlock => ~Empty(b)'
    BY <1>3, <2>1, <2>2 DEF BlockInv, RingInv
  <2>4. \A b \in Bs : ~InUse(b)' => Empty(b)'
    BY <1>3, <2>1, <2>2 DEF BlockInv, RingInv
  <2>5. (cpc \in {"next", "frontBlock"} => Empty(frontBlock))'
    BY <1>1 DEF BlockInv, RingInv, Empty
  <2>6. pblock # frontBlock
    BY <1>3 DEF NewBlock
  <2> QED
    BY <1>1, <2>3, <2>4, <2>5, <2>6 DEF BlockInv, RingInv, Bs
<1>7. DataInv'
  BY <1>1, DataKept DEF BlockInv
<1> QED
  BY <1>4, <1>5, <1>6, <1>7 DEF BlockInv
-----------------------------------------------------------------------------
(***************************************************************************)
(* The steps of try_dequeue.                                               *)
(***************************************************************************)

\* The consumer's copy of the tail of one block is renewed, or nothing is changed
\* in the blocks.
RenewsTail(q) ==
    \/ UNCHANGED blocks
    \/ blocks' = [blocks EXCEPT ![q].localTail = blocks[q].tail]

\* That keeps the blocks' records, their positions and their data.
LEMMA RenewTail ==
    ASSUME Typed, CursorInv, NEW q \in Bs, RenewsTail(q), UNCHANGED ring
    PROVE  /\ blocks' \in [Bs -> BlockRecord]
           /\ \A b \in Bs : UNCHANGED <<blocks[b].front, blocks[b].tail, blocks[b].localFront,
                                        blocks[b].data>>
           /\ \A b \in Bs : CursorsOf(blocks[b])'
           /\ Others(q)
<1>0. blocks \in [Bs -> BlockRecord]
  BY DEF Typed
<1>1. CASE UNCHANGED blocks
  BY <1>0, <1>1 DEF CursorInv, CursorsOf, Others
<1>2. CASE blocks' = [blocks EXCEPT ![q].localTail = blocks[q].tail]
  <2>1. blocks[q].tail \in Slots
    BY Positions DEF Slots
  <2>2. /\ blocks' \in [Bs -> BlockRecord]
        /\ Others(q)
        /\ blocks'[q].localTail = blocks[q].tail
        /\ UNCHANGED <<blocks[q].front, blocks[q].tail, blocks[q].localFront,
                       blocks[q].data>>
    BY <1>0, <1>2, <2>1, PutLocalTail
  <2>3. ASSUME NEW b \in Bs
        PROVE  CursorsOf(blocks[b])'
    <3>1. CursorsOf(blocks[b])
      BY DEF CursorInv
    <3>2. CASE b = q
      <4>1. PICK s \in Nat : s = ring.slots /\ s >= 2
        BY DEF Typed, RingTyped
      <4>2. Cursors(s, blocks[q].front, blocks[q].tail, blocks[q].localFront,
                    blocks[q].tail)
        BY <3>1, <3>2, <4>1, Positions, CursorsAfter DEF CursorsOf
      <4> QED
        BY <2>2, <3>2, <4>1, <4>2 DEF CursorsOf
    <3>3. CASE b # q
      BY <2>2, <3>1, <3>3 DEF CursorsOf, Others
    <3> QED
      BY <3>2, <3>3
  <2> QED
    BY <2>2, <2>3 DEF Others
<1> QED
  BY <1>1, <1>2 DEF RenewsTail

\* The consumer's looking at a block: it goes on to take an element only if its
\* copy shows one, and on to the next block only if the block is empty and not the
\* tail block.
LEMMA LookStep ==
    ASSUME BlockInv, NEW q \in Bs, q = frontBlock, RenewsTail(q),
           UNCHANGED <<ring, frontBlock, result, producerVars>>,
           cpc # "front", cpc' \in {"idle", "empty", "again", "next", "take"},
           cpc' = "take" => blocks'[q].front # blocks'[q].localTail,
           cpc' \in {"again", "next"} => frontBlock # tailBlock,
           cpc' = "next" => Empty(q)
    PROVE  BlockInv'
<1>1. UNCHANGED <<tailBlock, ppc, pblock, element>>
  BY DEF producerVars
<1>2. /\ blocks' \in [Bs -> BlockRecord]
      /\ \A b \in Bs : UNCHANGED <<blocks[b].front, blocks[b].tail, blocks[b].localFront,
                                   blocks[b].data>>
      /\ \A b \in Bs : CursorsOf(blocks[b])'
  BY RenewTail DEF BlockInv
<1>3. Typed'
  BY <1>1, <1>2 DEF BlockInv, Typed, RingTyped, Bs, BlockRecord, Slots
<1>4. CursorInv'
  BY <1>1, <1>2 DEF BlockInv, Typed, CursorInv, Bs
<1>5. RingInv'
  <2>1. \A b \in Bs : Empty(b)' <=> Empty(b)
    BY <1>2 DEF Empty
  <2>2. \A b \in Bs : InUse(b)' <=> InUse(b)
    BY <1>1 DEF InUse
  <2>3. (ppc = "tailBlock" => ~Empty(pblock))'
    BY <1>1, <1>2 DEF BlockInv, Typed, RingInv, Empty
  <2>4. (cpc \in {"next", "frontBlock"} => Empty(frontBlock))'
    BY <1>2 DEF Empty
  <2> QED
    BY <1>1, <2>1, <2>2, <2>3, <2>4 DEF BlockInv, RingInv, NewBlock, Bs
<1>6. DataInv'
  BY <1>1, <1>2, DataKept DEF BlockInv
<1> QED
  BY <1>3, <1>4, <1>5, <1>6 DEF BlockInv

\* TryGet.
LEMMA TryGetStep ==
    ASSUME BlockInv, TryGet
    PROVE  BlockInv'
<1>1. PICK q \in Bs : q = frontBlock
  BY DEF BlockInv, Typed
<1>2. CASE blocks[q].front # blocks[q].localTail
  BY <1>1, <1>2, LookStep DEF TryGet, Reading, RenewsTail
<1>3. CASE blocks[q].front = blocks[q].localTail
  <2>1. /\ blocks' = [blocks EXCEPT ![q].localTail = blocks[q].tail]
        /\ cpc' \in {"take", "empty"}
        /\ cpc' = "take" => blocks[q].front # blocks[q].tail
    BY <1>1, <1>3 DEF TryGet, Reading
  <2>2. blocks'[q].front = blocks[q].front /\ blocks'[q].localTail = blocks[q].tail
    BY <2>1 DEF BlockInv, Typed, BlockRecord
  <2> QED
    BY <1>1, <2>1, <2>2, LookStep DEF TryGet, RenewsTail
<1> QED
  BY <1>2, <1>3

\* CompareTailBlock.
LEMMA CompareTailBlockStep ==
    ASSUME BlockInv, CompareTailBlock
    PROVE  BlockInv'
<1>1. PICK q \in Bs : q = frontBlock
  BY DEF BlockInv, Typed
<1> QED
  BY <1>1, LookStep DEF CompareTailBlock, RenewsTail

\* LookAgain: the block is not the tail block, so the producer adds nothing to it
\* after this look.
LEMMA LookAgainStep ==
    ASSUME BlockInv, LookAgain
    PROVE  BlockInv'
<1>1. PICK q \in Bs : q = frontBlock
  BY DEF BlockInv, Typed
<1>2. /\ blocks' = [blocks EXCEPT ![q].localTail = blocks[q].tail]
      /\ cpc = "again" /\ cpc' \in {"take", "next"}
      /\ cpc' = "take" <=> blocks[q].front # blocks[q].tail
      /\ UNCHANGED <<ring, frontBlock, result, producerVars>>
  BY <1>1 DEF LookAgain, Reading
<1>3. blocks'[q].front = blocks[q].front /\ blocks'[q].localTail = blocks[q].tail
  BY <1>2 DEF BlockInv, Typed, BlockRecord
<1>4. frontBlock # tailBlock
  BY <1>2 DEF BlockInv, RingInv
<1>5. cpc' = "next" => Empty(q)
  BY <1>2 DEF Empty
<1> QED
  BY <1>1, <1>2, <1>3, <1>4, <1>5, LookStep DEF RenewsTail

\* The block after the front block is in use, and is another one.
LEMMA NextIsInUse ==
    ASSUME Typed, frontBlock # tailBlock, NEW b \in Bs, b = After(ring.count, frontBlock)
    PROVE  InUse(b) /\ b # frontBlock
BY DEF Typed, RingTyped, InUse, After, Bs

\* ReadNextBlock finds an element in the next block.
LEMMA ReadNextBlockStep ==
    ASSUME BlockInv, ReadNextBlock
    PROVE  BlockInv'
<1>1. ring.count \in Nat /\ frontBlock \in 0..ring.count - 1
  BY DEF BlockInv, Typed, RingTyped, Bs
<1>2. NextBlock(frontBlock) = After(ring.count, frontBlock) /\ NextBlock(frontBlock) \in Bs
  BY <1>1, NextIsAfter DEF NextBlock, Bs
<1>3. PICK q \in Bs : q = NextBlock(frontBlock)
  BY <1>2
<1>4. /\ cpc = "next" /\ cpc' = "frontBlock"
      /\ UNCHANGED <<ring, frontBlock, result, tailBlock, ppc, pblock, element>>
      /\ blocks' = [blocks EXCEPT ![q].localTail = blocks[q].tail]
  BY <1>3 DEF ReadNextBlock, producerVars
<1>5. /\ blocks' \in [Bs -> BlockRecord]
      /\ \A b \in Bs : UNCHANGED <<blocks[b].front, blocks[b].tail, blocks[b].localFront,
                                   blocks[b].data>>
      /\ \A b \in Bs : CursorsOf(blocks[b])'
  BY <1>4, RenewTail DEF BlockInv, RenewsTail
<1>6. frontBlock # tailBlock
  BY <1>4 DEF BlockInv, RingInv
<1>7. ~Empty(q)
  BY <1>2, <1>3, <1>6, NextIsInUse DEF BlockInv, RingInv
<1>8. blocks'[q].front # blocks'[q].localTail
  <2>1. blocks'[q].localTail = blocks[q].tail
    BY <1>4 DEF BlockInv, Typed, BlockRecord
  <2> QED
    BY <1>5, <1>7, <2>1 DEF Empty
<1>9. Typed'
  BY <1>4, <1>5 DEF BlockInv, Typed, RingTyped, Bs, BlockRecord, Slots
<1>10. CursorInv'
  <2>1. \A b \in Bs : b = After(ring.count, frontBlock) =>
           blocks'[b].front # blocks'[b].localTail
    BY <1>2, <1>3, <1>8
  <2>2. ppc \in {"construct", "tail"} =>
           Room(ring.slots, blocks'[pblock].tail, blocks'[pblock].localFront) >= 2
    BY <1>5 DEF BlockInv, Typed, CursorInv
  <2> QED
    BY <1>4, <1>5, <2>1, <2>2 DEF CursorInv, Bs
<1>11. RingInv'
  BY <1>4, <1>5 DEF BlockInv, Typed, RingInv, NewBlock, Empty, InUse, Bs
<1>12. DataInv'
  BY <1>4, <1>5, DataKept DEF BlockInv
<1> QED
  BY <1>9, <1>10, <1>11, <1>12 DEF BlockInv

\* MoveFrontBlock leaves an empty block behind, which is no longer in use.
LEMMA MoveFrontBlockStep ==
    ASSUME BlockInv, MoveFrontBlock
    PROVE  BlockInv'
<1>1. ring.count \in Nat /\ frontBlock \in 0..ring.count - 1
  BY DEF BlockInv, Typed, RingTyped, Bs
<1>2. NextBlock(frontBlock) = After(ring.count, frontBlock) /\ NextBlock(frontBlock) \in Bs
  BY <1>1, NextIsAfter DEF NextBlock, Bs
<1>3. PICK q \in Bs : q = NextBlock(frontBlock)
  BY <1>2
<1>4. /\ cpc = "frontBlock" /\ cpc' = "take" /\ frontBlock' = q
      /\ UNCHANGED <<ring, blocks, result, tailBlock, ppc, pblock, element>>
  BY <1>3 DEF MoveFrontBlock, producerVars
<1>5. /\ frontBlock # tailBlock /\ Empty(frontBlock)
      /\ blocks[q].front # blocks[q].localTail
  BY <1>2, <1>3, <1>4 DEF BlockInv, RingInv, CursorInv
<1>6. Typed'
  BY <1>4 DEF BlockInv, Typed, RingTyped, Bs, BlockRecord, Slots
<1>7. CursorInv'
  BY <1>4, <1>5 DEF BlockInv, CursorInv, CursorsOf, Bs
<1>8. RingInv'
  <2>1. \A b \in Bs : InUse(b)' <=> InUse(b) /\ b # frontBlock
    BY <1>2, <1>3, <1>4, <1>5 DEF BlockInv, Typed, RingTyped, InUse, After, Bs
  <2>2. \A b \in Bs : Empty(b)' <=> Empty(b)
    BY <1>4 DEF Empty
  <2>3. \A b \in Bs : InUse(b)' => ~Empty(b)'
    BY <2>1, <2>2 DEF BlockInv, RingInv
  <2>4. \A b \in Bs : ~InUse(b)' => Empty(b)' \/ (ppc = "tailBlock" /\ b = pblock)
    BY <1>5, <2>1, <2>2 DEF BlockInv, RingInv
  <2>5. NewBlock => NewBlock'
    BY <1>1, <1>2, <1>3, <1>4, <1>5 DEF BlockInv, Typed, NewBlock, After, Bs
  <2>6. (ppc = "tailBlock" => ~Empty(pblock))'
    BY <1>4 DEF BlockInv, RingInv, Empty
  <2> QED
    BY <1>4, <2>3, <2>4, <2>5, <2>6 DEF BlockInv, RingInv, Bs
<1>9. DataInv'
  BY <1>4, DataKept DEF BlockInv
<1> QED
  BY <1>6, <1>7, <1>8, <1>9 DEF BlockInv

\* Take reads an element, and leaves the slot with none.
LEMMA TakeStep ==
    ASSUME BlockInv, Take
    PROVE  BlockInv'
<1>1. PICK s \in Nat, q \in Bs : s = ring.slots /\ s >= 2 /\ q = frontBlock
  BY DEF BlockInv, Typed, RingTyped
<1>2. PICK f \in 0..s - 1 : f = blocks[q].front
  BY <1>1, Positions DEF BlockInv
<1>3. /\ cpc = "take" /\ cpc' = "front"
      /\ UNCHANGED <<ring, frontBlock, tailBlock, ppc, pblock, element>>
      /\ result' = blocks[q].data[f]
      /\ blocks' = [blocks EXCEPT ![q].data[f] = Raw]
  BY <1>1, <1>2 DEF Take, Reading, producerVars
<1>4. Raw \in Elements \cup {Raw} /\ f \in Slots
  BY <1>1 DEF Slots
<1>5. /\ blocks' \in [Bs -> BlockRecord]
      /\ Others(q)
      /\ blocks'[q].data[f] = Raw
      /\ \A j \in Slots \ {f} : blocks'[q].data[j] = blocks[q].data[j]
      /\ UNCHANGED <<blocks[q].front, blocks[q].tail, blocks[q].localFront,
                     blocks[q].localTail>>
  BY <1>3, <1>4, PutData DEF BlockInv, Typed
<1>6. \A b \in Bs : UNCHANGED <<blocks[b].front, blocks[b].tail, blocks[b].localFront,
                                blocks[b].localTail>>
  BY <1>5 DEF Others
<1>7. blocks[q].front # blocks[q].localTail
  BY <1>1, <1>3 DEF BlockInv, CursorInv
<1>8. blocks[q].front # blocks[q].tail
  <2>1. PICK t \in 0..s - 1, lt \in 0..s - 1 :
           t = blocks[q].tail /\ lt = blocks[q].localTail
    BY <1>1, Positions DEF BlockInv
  <2>2. Dist(s, f, lt) <= Dist(s, f, t)
    BY <1>1, <1>2, <2>1 DEF BlockInv, CursorInv, CursorsOf, Cursors
  <2>3. f # lt
    BY <1>2, <1>7, <2>1
  <2>4. f # t
    BY <2>2, <2>3 DEF Dist
  <2> QED
    BY <1>2, <2>1, <2>4
<1>9. result' \in Elements
  <2>1. PICK t \in 0..s - 1 : t = blocks[q].tail
    BY <1>1, Positions DEF BlockInv
  <2>2. Dist(s, f, f) < Dist(s, f, t)
    BY <1>2, <1>8, <2>1 DEF Dist
  <2>3. Held(q, f)
    BY <1>1, <1>2, <1>3, <2>1, <2>2 DEF Held
  <2>4. blocks[q].data[f] # Raw
    BY <1>4, <2>3 DEF BlockInv, DataInv
  <2>5. blocks[q].data[f] \in Elements \cup {Raw}
    BY <1>4, Positions DEF BlockInv
  <2> QED
    BY <1>3, <2>4, <2>5
<1>10. Typed'
  BY <1>3, <1>5, <1>9 DEF BlockInv, Typed, RingTyped, Bs, BlockRecord, Slots
<1>11. CursorInv'
  <2>1. \A b \in Bs : CursorsOf(blocks[b])'
    BY <1>3, <1>6 DEF BlockInv, CursorInv, CursorsOf
  <2>2. ppc \in {"construct", "tail"} =>
           Room(ring.slots, blocks'[pblock].tail, blocks'[pblock].localFront) >= 2
    BY <1>6 DEF BlockInv, Typed, CursorInv
  <2> QED
    BY <1>1, <1>3, <1>6, <1>7, <2>1, <2>2 DEF CursorInv, Bs
<1>12. RingInv'
  BY <1>3, <1>6 DEF BlockInv, Typed, RingInv, NewBlock, Empty, InUse, Bs
<1>13. DataInv'
  <2>1. \A b \in Bs \ {q} : \A i \in Slots : blocks'[b].data[i] # Raw <=> Held(b, i)'
    BY <1>1, <1>3, <1>5 DEF BlockInv, DataInv, Held, Others
  <2>2. ASSUME NEW i \in Slots
        PROVE  blocks'[q].data[i] # Raw <=> Held(q, i)'
    <3>1. CASE i = f
      BY <1>1, <1>2, <1>3, <1>5, <3>1 DEF Held
    <3>2. CASE i # f
      BY <1>1, <1>2, <1>3, <1>5, <3>2 DEF BlockInv, DataInv, Held
    <3> QED
      BY <3>1, <3>2
  <2> QED
    BY <1>3, <2>1, <2>2 DEF DataInv, Bs, Slots
<1> QED
  BY <1>10, <1>11, <1>12, <1>13 DEF BlockInv

\* MoveFront gives the slot back, which holds no element any more.
LEMMA MoveFrontStep ==
    ASSUME BlockInv, MoveFront
    PROVE  BlockInv'
<1>1. PICK s \in Nat, q \in Bs : s = ring.slots /\ s >= 2 /\ q = frontBlock
  BY DEF BlockInv, Typed, RingTyped
<1>2. PICK f \in 0..s - 1, t \in 0..s - 1, lf \in 0..s - 1, lt \in 0..s - 1 :
         /\ f = blocks[q].front /\ t = blocks[q].tail
         /\ lf = blocks[q].localFront /\ lt = blocks[q].localTail
  BY <1>1, Positions DEF BlockInv
<1>3. After(s, f) \in 0..s - 1 /\ NextSlot(f) = After(s, f)
  BY <1>1, NextIsAfter DEF NextSlot
<1>4. /\ cpc = "front" /\ cpc' = "idle"
      /\ UNCHANGED <<ring, frontBlock, result, tailBlock, ppc, pblock, element>>
      /\ blocks' = [blocks EXCEPT ![q].front = After(s, f)]
  BY <1>1, <1>2, <1>3 DEF MoveFront, producerVars
<1>5. After(s, f) \in Slots
  BY <1>1, <1>3 DEF Slots
<1>6. /\ blocks' \in [Bs -> BlockRecord]
      /\ Others(q)
      /\ blocks'[q].front = After(s, f)
      /\ UNCHANGED <<blocks[q].tail, blocks[q].localFront, blocks[q].localTail,
                     blocks[q].data>>
  BY <1>4, <1>5, PutFront DEF BlockInv, Typed
<1>7. f # t
  BY <1>1, <1>2, <1>4, ElementToTake DEF BlockInv
<1>8. Typed'
  BY <1>4, <1>6 DEF BlockInv, Typed, RingTyped, Bs, BlockRecord, Slots
<1>9. CursorInv'
  <2>1. f # lt
    BY <1>1, <1>2, <1>4 DEF BlockInv, CursorInv
  <2>2. Cursors(s, f, t, lf, lt)
    BY <1>1, <1>2 DEF BlockInv, CursorInv, CursorsOf
  <2>3. Cursors(s, After(s, f), t, lf, lt)
    BY <1>1, <2>1, <2>2, CursorsAfter
  <2>4. CursorsOf(blocks[q])'
    BY <1>1, <1>2, <1>4, <1>6, <2>3 DEF CursorsOf
  <2>5. \A b \in Bs \ {q} : CursorsOf(blocks[b])'
    BY <1>4, <1>6 DEF BlockInv, CursorInv, CursorsOf, Others
  <2>6. \A b \in Bs : UNCHANGED <<blocks[b].tail, blocks[b].localFront>>
    BY <1>6 DEF Others
  <2>7. ppc \in {"construct", "tail"} =>
           Room(ring.slots, blocks'[pblock].tail, blocks'[pblock].localFront) >= 2
    BY <2>6 DEF BlockInv, Typed, CursorInv
  <2> QED
    BY <1>4, <2>4, <2>5, <2>7 DEF CursorInv, Bs
<1>10. RingInv'
  <2>1. \A b \in Bs \ {q} : Empty(b)' <=> Empty(b)
    BY <1>6 DEF Empty, Others
  <2>2. InUse(q)
    BY <1>1 DEF BlockInv, Typed, RingTyped, InUse, Bs
  <2>3. \A b \in Bs : InUse(b)' <=> InUse(b)
    BY <1>4 DEF InUse
  <2>4. \A b \in Bs : InUse(b)' /\ b # frontBlock => ~Empty(b)'
    BY <1>1, <2>1, <2>3 DEF BlockInv, RingInv
  <2>5. \A b \in Bs : ~InUse(b)' => Empty(b)' \/ (ppc = "tailBlock" /\ b = pblock)
    BY <2>1, <2>2, <2>3 DEF BlockInv, RingInv
  <2>6. (ppc = "tailBlock" => ~Empty(pblock))'
    <3> SUFFICES ASSUME ppc = "tailBlock"
                 PROVE  Empty(pblock)' = FALSE
      BY <1>4 DEF Empty
    <3>1. PICK p \in Bs : p = pblock
      BY DEF BlockInv, Typed
    <3>2. p # q /\ ~Empty(p)
      BY <1>1, <3>1 DEF BlockInv, RingInv, NewBlock
    <3>3. ~Empty(p)'
      BY <2>1, <3>2
    <3> QED
      BY <1>4, <3>1, <3>3 DEF Empty
  <2> QED
    BY <1>4, <2>4, <2>5, <2>6 DEF BlockInv, RingInv, NewBlock, Bs
<1>11. DataInv'
  <2>1. \A b \in Bs \ {q} : \A i \in Slots : blocks'[b].data[i] # Raw <=> Held(b, i)'
    BY <1>1, <1>4, <1>6 DEF BlockInv, DataInv, Held, Others
  <2>2. ASSUME NEW i \in Slots
        PROVE  blocks'[q].data[i] # Raw <=> Held(q, i)'
    <3>1. i \in 0..s - 1
      BY <1>1 DEF Slots
    <3>2. Dist(s, After(s, f), i) < Dist(s, After(s, f), t)
             <=> Dist(s, f, i) < Dist(s, f, t) /\ i # f
      BY <3>1, <1>7 DEF Dist, After
    <3>3. Held(q, i) <=>
             /\ Dist(s, f, i) < Dist(s, f, t) \/ (ppc = "tail" /\ pblock = q /\ t = i)
             /\ i # f
      BY <1>1, <1>2, <1>4 DEF Held
    <3>4. Held(q, i)' <=>
             \/ Dist(s, After(s, f), i) < Dist(s, After(s, f), t)
             \/ ppc = "tail" /\ pblock = q /\ t = i
      BY <1>1, <1>2, <1>4, <1>6 DEF Held
    <3>5. Held(q, i)' <=> Held(q, i)
      BY <1>7, <3>2, <3>3, <3>4
    <3> QED
      BY <1>6, <3>5 DEF BlockInv, DataInv
  <2> QED
    BY <1>4, <2>1, <2>2 DEF DataInv, Bs, Slots
<1> QED
  BY <1>8, <1>9, <1>10, <1>11 DEF BlockInv
-----------------------------------------------------------------------------
(***************************************************************************)
(* The constructor's arithmetic, by induction over the powers of two.      *)
(***************************************************************************)

\* The order that the natural numbers are well founded on.
Less == {ss \in Nat \X Nat : ss[1] < ss[2]}

\* A set of numbers with 0 and with the successor of each of its members is the
\* set of all numbers: induction, with no operator for a parameter.
LEMMA SetInduction ==
    ASSUME NEW T \in SUBSET Nat, 0 \in T, \A n \in T : n + 1 \in T
    PROVE  T = Nat
<1> SUFFICES ASSUME Nat \ T # {} PROVE FALSE
  OBVIOUS
<1>1. IsWellFoundedOn(Less, Nat)
  BY NatLessThanWellFounded DEF OpToRel, Less
<1>2. PICK x \in Nat \ T : \A y \in Nat \ T : ~ (<<y, x>> \in Less)
  BY <1>1, WFMin
<1>3. x # 0 /\ x - 1 \in Nat /\ x - 1 < x
  BY <1>2
<1>4. x - 1 \in T
  BY <1>2, <1>3 DEF Less
<1>5. (x - 1) + 1 \in T
  BY <1>4
<1> QED
  BY <1>2, <1>5

\* What CeilToPow2 counts with: the powers of two up to the n-th.
IsPowers(f, n) == f = [k \in 0..n |-> IF k = 0 THEN 1 ELSE 2 * f[k - 1]]

\* There are such powers for any n.
LEMMA PowersExist ==
    ASSUME NEW n \in Nat
    PROVE  \E f : IsPowers(f, n)
<1> DEFINE T == {m \in Nat : \E f : IsPowers(f, m)}
<1>1. 0 \in T
  <2>1. PICK g : g = [k \in 0..0 |-> 1]
    OBVIOUS
  <2>2. IsPowers(g, 0)
    BY <2>1 DEF IsPowers
  <2> QED
    BY <2>2
<1>2. ASSUME NEW m \in T PROVE m + 1 \in T
  <2>1. PICK f : IsPowers(f, m)
    OBVIOUS
  <2>2. PICK g : g = [k \in 0..m + 1 |-> IF k = 0 THEN 1 ELSE 2 * f[k - 1]]
    OBVIOUS
  <2>3. m \in Nat /\ m + 1 \in Nat
    OBVIOUS
  <2>4. ASSUME NEW k \in 0..m + 1, k # 0 PROVE g[k - 1] = f[k - 1]
    <3>1. k - 1 \in 0..m /\ k - 1 \in 0..m + 1
      BY <2>3, <2>4
    <3> QED
      BY <2>1, <2>2, <3>1 DEF IsPowers
  <2>5. IsPowers(g, m + 1)
    BY <2>2, <2>4 DEF IsPowers
  <2> QED
    BY <2>3, <2>5
<1>3. T = Nat
  <2> HIDE DEF T
  <2>1. T \in SUBSET Nat
    BY DEF T
  <2> QED
    BY <1>1, <1>2, <2>1, SetInduction
<1> QED
  BY <1>3

\* The k-th is greater than k.
LEMMA PowersGrow ==
    ASSUME NEW n \in Nat, NEW f, IsPowers(f, n), NEW k \in 0..n
    PROVE  f[k] \in Nat /\ f[k] > k
<1> DEFINE T == {m \in Nat : m <= n => f[m] \in Nat /\ f[m] > m}
<1>0. f[0] = 1 /\ \A m \in 1..n : f[m] = 2 * f[m - 1]
  <2>1. 0 \in 0..n /\ \A m \in 1..n : m \in 0..n /\ m # 0
    OBVIOUS
  <2> QED
    BY <2>1, Zenon DEF IsPowers
<1>1. 0 \in T
  BY <1>0
<1>2. ASSUME NEW m \in T PROVE m + 1 \in T
  <2>1. m \in Nat /\ m + 1 \in Nat /\ (m + 1) - 1 = m
    OBVIOUS
  <2>2. SUFFICES ASSUME m + 1 <= n PROVE f[m + 1] \in Nat /\ f[m + 1] > m + 1
    BY <2>1
  <2>3. f[m] \in Nat /\ f[m] > m
    BY <2>1, <2>2
  <2>4. f[m + 1] = 2 * f[m]
    BY <1>0, <2>1, <2>2
  <2> QED
    BY <2>1, <2>3, <2>4
<1>3. T = Nat
  <2> HIDE DEF T
  <2>1. T \in SUBSET Nat
    BY DEF T
  <2> QED
    BY <1>1, <1>2, <2>1, SetInduction
<1> QED
  BY <1>3

\* A power of two is no less than n, and the one before it is less: among those up
\* to the n-th, it is the first that is no less.
LEMMA CeilToPow2Suffices ==
    ASSUME NEW n \in Nat \ {0}
    PROVE  CeilToPow2(n) \in Nat /\ CeilToPow2(n) >= n
<1> DEFINE F == CHOOSE f : IsPowers(f, n)
           Fits(p) == p >= n /\ p \div 2 < n
<1>1. IsPowers(F, n)
  BY PowersExist, Zenon
<1>2. CeilToPow2(n) = CHOOSE p \in {F[k] : k \in 0..n} : Fits(p)
  BY DEF CeilToPow2, IsPowers
<1> HIDE DEF F
<1>3. \E k \in 0..n : Fits(F[k])
  <2> DEFINE T == {k \in 0..n : F[k] >= n}
  <2>1. n \in T
    BY <1>1, PowersGrow
  <2>2. IsWellFoundedOn(Less, Nat)
    BY NatLessThanWellFounded DEF OpToRel, Less
  <2>3. PICK k \in T : \A j \in T : ~ (<<j, k>> \in Less)
    <3>1. T \subseteq Nat /\ T # {}
      BY <2>1
    <3> HIDE DEF T
    <3> QED
      BY <2>2, <3>1, WFMin
  <2>4. F[k] \in Nat /\ F[k] >= n
    BY <1>1, <2>3, PowersGrow
  <2>5. CASE k = 0
    <3>1. 0 \in 0..n
      OBVIOUS
    <3>2. F[0] = 1
      BY <1>1, <3>1, Zenon DEF IsPowers
    <3> QED
      BY <2>4, <2>5, <3>2
  <2>6. CASE k # 0
    <3>1. k - 1 \in 0..n /\ k - 1 < k
      BY <2>6
    <3>2. F[k - 1] \in Nat
      BY <1>1, <3>1, PowersGrow
    <3>3. k - 1 \notin T
      <4>1. k - 1 \in Nat /\ k \in Nat
        BY <3>1
      <4>2. <<k - 1, k>> \in Less
        BY <3>1, <4>1 DEF Less
      <4> HIDE DEF T
      <4> QED
        BY <2>3, <4>2
    <3>4. F[k - 1] < n
      BY <3>1, <3>2, <3>3
    <3>5. F[k] = 2 * F[k - 1]
      BY <1>1, <2>3, <2>6, Zenon DEF IsPowers
    <3> QED
      BY <2>4, <3>2, <3>4, <3>5
  <2> QED
    BY <2>5, <2>6
<1>4. PICK k \in 0..n : CeilToPow2(n) = F[k] /\ Fits(F[k])
  BY <1>2, <1>3
<1> QED
  BY <1>1, <1>4, PowersGrow

-----------------------------------------------------------------------------
(***************************************************************************)
(* The invariant holds.                                                    *)
(***************************************************************************)

\* The constructor makes one block at least, of two slots at least.
LEMMA RingSizes ==
    ASSUME NEW n \in Sizes
    PROVE  /\ BlockCount(n) \in Nat /\ BlockCount(n) >= 1
           /\ BlockSize(n) \in Nat /\ BlockSize(n) >= 2
<1>1. n \in Nat /\ n >= 1
  BY SizesAssumption
<1>2. PICK p : p = CeilToPow2(n + 1) /\ p \in Nat /\ p > n
  <2>1. n + 1 \in Nat \ {0}
    BY <1>1
  <2>2. PICK p : p = CeilToPow2(n + 1)
    OBVIOUS
  <2>3. p \in Nat /\ p >= n + 1
    BY <2>1, <2>2, CeilToPow2Suffices
  <2> QED
    BY <1>1, <2>2, <2>3
<1>3. MaxBlockSize \in Nat /\ MaxBlockSize >= 2
  BY BlockSizeAssumption
<1>4. BlockSize(n) \in Nat /\ BlockSize(n) >= 2
  BY <1>1, <1>2, <1>3 DEF BlockSize
<1>5. BlockCount(n) \in Nat /\ BlockCount(n) >= 1
  <2>1. PICK d : d = MaxBlockSize - 1 /\ d \in Nat /\ d >= 1
    BY <1>3
  <2>2. PICK x : x = n + MaxBlockSize * 2 - 3 /\ x \in Nat /\ x >= d
    BY <1>1, <1>3, <2>1
  <2>3. x \div d \in Nat /\ x \div d >= 1
    BY <2>1, <2>2
  <2> QED
    BY <2>1, <2>2, <2>3 DEF BlockCount
<1> QED
  BY <1>4, <1>5

\* A queue that was just made satisfies BlockInv.
LEMMA BlockInitInv == BlockInit => BlockInv
<1> SUFFICES ASSUME BlockInit
             PROVE  BlockInv
  OBVIOUS
<1>1. PICK n \in Sizes :
         ring = [maxSize |-> n, count |-> BlockCount(n), slots |-> BlockSize(n)]
  BY DEF BlockInit
<1>2. RingTyped
  BY <1>1, RingSizes DEF RingTyped
<1>3. /\ frontBlock = 0 /\ tailBlock = 0 /\ ppc = "idle" /\ pblock = 0
      /\ element = 0 /\ cpc = "idle" /\ result = 0
  BY DEF BlockInit
<1>4. 0 \in Bs /\ 0 \in Slots
  BY <1>2 DEF RingTyped, Bs, Slots
<1>5. \A b \in Bs : blocks[b] = [front |-> 0, tail |-> 0, localFront |-> 0, localTail |-> 0,
                                 data |-> [i \in Slots |-> Raw]]
  BY DEF BlockInit, Block, Bs, Slots
<1>6. blocks \in [Bs -> BlockRecord]
  <2>1. blocks = [b \in Bs |-> blocks[b]]
    BY DEF BlockInit, Bs
  <2>2. \A b \in Bs : blocks[b] \in BlockRecord
    BY <1>4, <1>5 DEF BlockRecord
  <2> QED
    BY <2>1, <2>2
<1>7. Typed
  <2>1. 0 \in Elements
    BY KindsAssumption DEF Elements
  <2> QED
    BY <1>2, <1>3, <1>4, <1>6, <2>1 DEF Typed
<1>8. CursorInv
  <2>1. \A b \in Bs : CursorsOf(blocks[b])
    BY <1>2, <1>5 DEF RingTyped, CursorsOf, Cursors, Dist, Room
  <2> QED
    BY <1>3, <2>1 DEF CursorInv
<1>9. RingInv
  BY <1>2, <1>3, <1>5 DEF RingInv, Empty, InUse, RingTyped, Bs
<1>10. DataInv
  BY <1>2, <1>3, <1>5 DEF DataInv, Held, Dist, RingTyped, Slots
<1> QED
  BY <1>7, <1>8, <1>9, <1>10 DEF BlockInv

\* Every step keeps BlockInv.
LEMMA BlockNextInv == BlockInv /\ [BlockNext]_blockVars => BlockInv'
<1> SUFFICES ASSUME BlockInv, [BlockNext]_blockVars
             PROVE  BlockInv'
  OBVIOUS
<1>1. CASE TryEnqueue
  BY <1>1, TryPutStep, LookAheadStep, UseNextBlockStep, ConstructStep, MoveTailStep,
     MoveTailBlockStep DEF TryEnqueue
<1>2. CASE TryDequeue
  BY <1>2, TryGetStep, CompareTailBlockStep, LookAgainStep, ReadNextBlockStep,
     MoveFrontBlockStep, TakeStep, MoveFrontStep DEF TryDequeue
<1>3. CASE UNCHANGED blockVars
  <2>1. UNCHANGED <<ring, blocks, tailBlock, ppc, pblock, element, frontBlock, cpc, result>>
    BY <1>3 DEF blockVars, producerVars, consumerVars
  <2>2. Typed'
    BY <2>1 DEF BlockInv, Typed, RingTyped, Bs, BlockRecord, Slots
  <2>3. CursorInv'
    BY <2>1 DEF BlockInv, CursorInv, CursorsOf, Bs
  <2>4. RingInv'
    BY <2>1 DEF BlockInv, RingInv, NewBlock, Empty, InUse, Bs
  <2>5. DataInv'
    BY <2>1, DataKept DEF BlockInv
  <2> QED
    BY <2>2, <2>3, <2>4, <2>5 DEF BlockInv
<1> QED
  BY <1>1, <1>2, <1>3 DEF BlockNext

\* What all the theorems rest on.
THEOREM BlockInvariant == BlockSpec => []BlockInv
BY BlockInitInv, BlockNextInv, PTL DEF BlockSpec
-----------------------------------------------------------------------------
(***************************************************************************)
(* What it implies.                                                        *)
(***************************************************************************)

\* The slots that InBlock lists are those from front on to tail.
LEMMA InsideIsBetween ==
    ASSUME Typed, NEW b \in Bs, NEW i \in Slots
    PROVE  i \in {(blocks[b].front + k - 1) % ring.slots : k \in 1..Len(InBlock(b))}
           <=> Dist(ring.slots, blocks[b].front, i)
                  < Dist(ring.slots, blocks[b].front, blocks[b].tail)
<1>1. PICK s \in Nat : s = ring.slots /\ s >= 2
  BY DEF Typed, RingTyped
<1>2. PICK f \in 0..s - 1, t \in 0..s - 1 : f = blocks[b].front /\ t = blocks[b].tail
  BY <1>1, Positions
<1>3. i \in 0..s - 1
  BY <1>1 DEF Slots
<1>4. Len(InBlock(b)) = Dist(s, f, t)
  <2>1. (t + s - f) % s = Dist(s, f, t) /\ Dist(s, f, t) \in Nat
    <3>1. (t + s - f) % s = Dist(s, f, t)
      BY ModIsDist
    <3>2. Dist(s, f, t) \in Nat
      BY DEF Dist
    <3> QED
      BY <3>1, <3>2
  <2> QED
    BY <1>1, <1>2, <2>1 DEF InBlock
<1>5. ASSUME NEW k \in 1..Dist(s, f, t), i = (f + k - 1) % s
      PROVE  Dist(s, f, i) < Dist(s, f, t)
  <2>1. Dist(s, f, t) <= s - 1
    BY <1>1, DistBounds
  <2>2. (f + k - 1) % s = IF f + k - 1 < s THEN f + k - 1 ELSE f + k - 1 - s
    BY <1>1, <2>1 DEF Dist
  <2>3. Dist(s, f, i) = k - 1
    BY <1>5, <2>1, <2>2 DEF Dist
  <2> QED
    BY <2>3 DEF Dist
<1>6. ASSUME Dist(s, f, i) < Dist(s, f, t)
      PROVE  \E k \in 1..Dist(s, f, t) : i = (f + k - 1) % s
  <2>1. Dist(s, f, i) + 1 \in 1..Dist(s, f, t)
    BY <1>3, <1>6 DEF Dist
  <2>2. i = (f + (Dist(s, f, i) + 1) - 1) % s
    BY <1>1, <1>3 DEF Dist
  <2> QED
    BY <2>1, <2>2
<1> QED
  BY <1>1, <1>2, <1>4, <1>5, <1>6

\* For any ring of blocks and any interleaving: an element is in a slot exactly
\* where front and tail say so, the one constructed and the one taken apart; no
\* element is constructed over another and none is read where there is none,
\* however old the copies are that the threads work from (readerwriterqueue.h:
\* inner_enqueue, try_dequeue).
THEOREM BlockTypeCorrect == BlockSpec => []BlockTypeOK
<1>1. BlockInv => BlockTypeOK
  <2> SUFFICES ASSUME BlockInv
               PROVE  BlockTypeOK
    OBVIOUS
  <2>1. Typed /\ CursorInv /\ DataInv
    BY DEF BlockInv
  <2>2. Blocks = Bs
    BY <2>1 DEF Blocks, Typed
  <2>3. ASSUME NEW b \in Bs
        PROVE  LET live == {i \in Slots : blocks[b].data[i] # Raw}
                   inside == {(blocks[b].front + i - 1) % ring.slots :
                                 i \in 1..Len(InBlock(b))}
                   put == IF ppc = "tail" /\ pblock = b THEN {blocks[b].tail} ELSE {}
                   taken == IF cpc = "front" /\ frontBlock = b
                            THEN {blocks[b].front} ELSE {}
               IN  live = (inside \cup put) \ taken
    <3> DEFINE inside == {(blocks[b].front + i - 1) % ring.slots :
                             i \in 1..Len(InBlock(b))}
               put == IF ppc = "tail" /\ pblock = b THEN {blocks[b].tail} ELSE {}
               taken == IF cpc = "front" /\ frontBlock = b THEN {blocks[b].front} ELSE {}
    <3>1. \A i \in Slots : blocks[b].data[i] # Raw <=> Held(b, i)
      BY <2>1 DEF DataInv
    <3>2. \A i \in Slots : i \in inside <=>
             Dist(ring.slots, blocks[b].front, i)
                < Dist(ring.slots, blocks[b].front, blocks[b].tail)
      BY <2>1, InsideIsBetween
    <3>3. \A i \in Slots : Held(b, i) <=> i \in (inside \cup put) \ taken
      <4> HIDE DEF inside
      <4> QED
        BY <3>2 DEF Held
    <3>4. inside \subseteq Slots
      <4>0. PICK s \in Nat : s >= 1 /\ s = ring.slots
        BY <2>1 DEF Typed, RingTyped
      <4>1. PICK f \in 0..s - 1 : s >= 1 /\ s = ring.slots /\ f = blocks[b].front
        BY <2>1, <4>0, Positions
      <4>2. PICK n : n = Len(InBlock(b))
        OBVIOUS
      <4>3. n \in Nat
        <5>1. PICK t \in 0..s - 1 : t = blocks[b].tail
          BY <2>1, <4>1, Positions
        <5>2. (t + s - f) % s \in Nat
          BY <4>1, <5>1
        <5> QED
          BY <4>1, <4>2, <5>1, <5>2 DEF InBlock
      <4>4. \A k \in 1..n : (f + k - 1) % s \in 0..s - 1
        BY <4>1, <4>3
      <4> QED
        BY <4>1, <4>2, <4>4 DEF Slots
    <3>5. put \subseteq Slots
      BY <2>1, Positions DEF Slots
    <3> HIDE DEF inside, put, taken
    <3>6. {i \in Slots : blocks[b].data[i] # Raw} = (inside \cup put) \ taken
      BY <3>1, <3>3, <3>4, <3>5
    <3> QED
      BY <3>6 DEF inside, put, taken
  <2>4. ppc = "construct" => blocks[pblock].data[blocks[pblock].tail] = Raw
    <3> SUFFICES ASSUME ppc = "construct"
                 PROVE  blocks[pblock].data[blocks[pblock].tail] = Raw
      OBVIOUS
    <3>1. PICK p \in Bs : p = pblock
      BY <2>1 DEF Typed
    <3>2. PICK i \in Slots : i = blocks[p].tail
      BY <2>1, Positions DEF Slots
    <3>3. ~Held(p, i)
      <4>1. PICK s \in Nat : s = ring.slots
        BY <2>1 DEF Typed, RingTyped
      <4>2. PICK f \in 0..s - 1, t \in 0..s - 1 : f = blocks[p].front /\ t = blocks[p].tail
        BY <2>1, <4>1, Positions
      <4>3. ~(Dist(s, f, t) < Dist(s, f, t))
        BY <4>2 DEF Dist
      <4> QED
        BY <3>2, <4>1, <4>2, <4>3 DEF Held
    <3> QED
      BY <2>1, <3>1, <3>2, <3>3 DEF DataInv
  <2> QED
    BY <2>1, <2>2, <2>3, <2>4 DEF BlockTypeOK, Typed, BlockRecord
<1> QED
  BY <1>1, BlockInvariant, PTL

\* For any ring of blocks and any interleaving: the assertion nextBlockFront ==
\* nextBlockTail of inner_enqueue holds when try_enqueue moves on to a block.
THEOREM NextBlockIsEmptyHolds == BlockSpec => []NextBlockIsEmpty
<1>1. BlockInv => NextBlockIsEmpty
  <2> SUFFICES ASSUME BlockInv, ppc = "advance"
               PROVE  Empty(pblock)
    BY DEF NextBlockIsEmpty, Empty
  <2>1. NewBlock
    BY DEF BlockInv, RingInv
  <2> QED
    BY <2>1, NewIsEmpty DEF BlockInv
<1> QED
  BY <1>1, BlockInvariant, PTL

\* For any ring of blocks and any interleaving: the assertion nextBlockFront !=
\* nextBlockTail of try_dequeue holds when the consumer moves on to a block.
THEOREM NextBlockIsNotEmptyHolds == BlockSpec => []NextBlockIsNotEmpty
<1>1. BlockInv => NextBlockIsNotEmpty
  <2> SUFFICES ASSUME BlockInv, cpc \in {"next", "frontBlock"}
               PROVE  ~Empty(NextBlock(frontBlock))
    BY DEF NextBlockIsNotEmpty, Empty
  <2>1. ring.count \in Nat /\ frontBlock \in 0..ring.count - 1
    BY DEF BlockInv, Typed, RingTyped, Bs
  <2>2. NextBlock(frontBlock) = After(ring.count, frontBlock) /\ NextBlock(frontBlock) \in Bs
    BY <2>1, NextIsAfter DEF NextBlock, Bs
  <2>3. frontBlock # tailBlock
    BY DEF BlockInv, RingInv
  <2>4. InUse(NextBlock(frontBlock)) /\ NextBlock(frontBlock) # frontBlock
    BY <2>2, <2>3, NextIsInUse DEF BlockInv
  <2> QED
    BY <2>2, <2>4 DEF BlockInv, RingInv
<1> QED
  BY <1>1, BlockInvariant, PTL
-----------------------------------------------------------------------------
(***************************************************************************)
(* try_dequeue misses no element.                                          *)
(***************************************************************************)

\* A queue whose one block in use is empty has no element.
LEMMA OneEmptyBlock ==
    ASSUME Typed, frontBlock = tailBlock, Empty(frontBlock)
    PROVE  Contents = <<>>
<1> DEFINE In(k) == InBlock((frontBlock + k) % ring.count)
           ahead == (tailBlock + ring.count - frontBlock) % ring.count
<1>1. PICK n \in Nat : n >= 1 /\ n = ring.count
  BY DEF Typed, RingTyped
<1>2. PICK q \in 0..n - 1 : q = frontBlock /\ q = tailBlock
  BY <1>1 DEF Typed, Bs
<1>3. (q + n - q) % n = 0 /\ (q + 0) % n = q
  BY <1>1
<1>4. ahead = 0
  BY <1>1, <1>2, <1>3
<1>5. In(0) = <<>>
  <2>1. PICK s \in Nat : s >= 2 /\ s = ring.slots
    BY DEF Typed, RingTyped
  <2>2. q \in Bs
    BY <1>1 DEF Bs
  <2>3. PICK t \in 0..s - 1 : t = blocks[q].front /\ t = blocks[q].tail
    BY <1>2, <2>1, <2>2, Positions DEF Empty
  <2>4. (t + s - t) % s = 0
    BY <2>1
  <2>5. InBlock(q) = <<>>
    BY <2>1, <2>3, <2>4 DEF InBlock
  <2> QED
    BY <1>1, <1>2, <1>3, <2>5
<1> HIDE DEF In
<1> DEFINE Body(f) == [k \in 0..0 |-> (IF k = 0 THEN <<>> ELSE f[k - 1]) \o In(k)]
           upTo == CHOOSE f : f = Body(f)
<1>6. \E f : f = Body(f)
  <2> DEFINE g == [k \in 0..0 |-> <<>> \o In(0)]
  <2>1. Body(g) = g
    OBVIOUS
  <2> QED
    BY <2>1
<1>7. upTo = Body(upTo)
  <2> HIDE DEF Body
  <2> QED
    BY <1>6
<1>8. upTo[0] = <<>> \o In(0)
  <2> HIDE DEF upTo
  <2> QED
    BY <1>7
<1>9. upTo[0] = <<>>
  BY <1>5, <1>8
<1>10. Contents = upTo[0]
  BY <1>4 DEF Contents, In
<1> QED
  BY <1>9, <1>10

\* If the front block was found empty and is the tail block, it was the tail block
\* when it was looked at: the producer only ever moves away from the block the
\* consumer is at.
EmptyInv == cpc = "empty" /\ frontBlock = tailBlock => wasEmpty

\* Every step keeps EmptyInv.
LEMMA EmptyInvStep ==
    BlockInv /\ EmptyInv /\ [BlockNext]_blockVars => EmptyInv'
<1> SUFFICES ASSUME BlockInv, EmptyInv, [BlockNext]_blockVars,
                    cpc' = "empty", frontBlock' = tailBlock'
             PROVE  wasEmpty'
  BY DEF EmptyInv
<1>1. CASE TryGet
  <2>1. frontBlock = tailBlock /\ blocks[frontBlock].front = blocks[frontBlock].tail
    <3>1. UNCHANGED <<frontBlock, tailBlock>>
      BY <1>1 DEF TryGet, producerVars
    <3>2. cpc' = "empty" => blocks[frontBlock].front = blocks[frontBlock].tail
      BY <1>1 DEF TryGet, Reading
    <3> QED
      BY <3>1, <3>2
  <2>2. Contents = <<>>
    BY <2>1, OneEmptyBlock DEF BlockInv, Empty
  <2> QED
    BY <1>1, <2>2 DEF TryGet
<1>2. CASE TryEnqueue
  <2>1. UNCHANGED consumerVars
    BY <1>2 DEF TryEnqueue, TryPut, LookAhead, UseNextBlock, Construct, MoveTail,
                MoveTailBlock
  <2>2. frontBlock = tailBlock
    <3>1. CASE MoveTailBlock
      <4>1. pblock # frontBlock
        BY <3>1 DEF MoveTailBlock, BlockInv, RingInv, NewBlock
      <4> QED
        BY <2>1, <3>1, <4>1 DEF MoveTailBlock, consumerVars
    <3>2. CASE ~MoveTailBlock
      <4>1. tailBlock' = tailBlock
        BY <1>2, <3>2 DEF TryEnqueue, TryPut, LookAhead, UseNextBlock, Construct, MoveTail
      <4> QED
        BY <2>1, <4>1 DEF consumerVars
    <3> QED
      BY <3>1, <3>2
  <2> QED
    BY <2>1, <2>2 DEF EmptyInv, consumerVars
<1>3. CASE TryDequeue /\ ~TryGet
  <2>1. cpc' # "empty"
    BY <1>3 DEF TryDequeue, CompareTailBlock, LookAgain, ReadNextBlock, MoveFrontBlock,
                Take, MoveFront
  <2> QED
    BY <2>1
<1>4. CASE UNCHANGED blockVars
  BY <1>4 DEF EmptyInv, blockVars, producerVars, consumerVars
<1> QED
  BY <1>1, <1>2, <1>3, <1>4 DEF BlockNext

\* For any ring of blocks and any interleaving: try_dequeue returns false only if
\* the queue was empty when it was called, although it looks at the front block
\* and at tailBlock at different times (readerwriterqueue.h: try_dequeue).
THEOREM MissesOnlyIfEmptyHolds == BlockSpec => MissesOnlyIfEmpty
<1>1. BlockInit => EmptyInv
  BY DEF BlockInit, EmptyInv
<1>2. EmptyInv /\ [BlockNext]_blockVars
         => [cpc = "empty" /\ cpc' = "idle" => wasEmpty]_blockVars
  <2> SUFFICES ASSUME EmptyInv, BlockNext, cpc = "empty", cpc' = "idle"
               PROVE  wasEmpty
    OBVIOUS
  <2>1. CASE TryEnqueue
    <3>1. UNCHANGED consumerVars
      BY <2>1 DEF TryEnqueue, TryPut, LookAhead, UseNextBlock, Construct, MoveTail,
                  MoveTailBlock
    <3> QED
      BY <3>1 DEF consumerVars
  <2>2. CASE TryDequeue
    <3>1. frontBlock = tailBlock
      BY <2>2 DEF TryDequeue, TryGet, CompareTailBlock, LookAgain, ReadNextBlock,
                  MoveFrontBlock, Take, MoveFront
    <3> QED
      BY <3>1 DEF EmptyInv
  <2> QED
    BY <2>1, <2>2 DEF BlockNext
<1> QED
  BY <1>1, <1>2, BlockInvariant, EmptyInvStep, PTL DEF BlockSpec, MissesOnlyIfEmpty
-----------------------------------------------------------------------------
(***************************************************************************)
(* Sequences put one after the other, by induction over their number.      *)
(***************************************************************************)

\* One sequence after another, by a name of its own: the provers then take what
\* follows for a matter of equality.
Then(a, b) == a \o b

\* It is a sequence, and the order in which three are joined does not matter.
LEMMA ThenAssociative ==
    ASSUME NEW S, NEW a \in Seq(S), NEW b \in Seq(S), NEW c \in Seq(S)
    PROVE  Then(a, b) \in Seq(S) /\ Then(Then(a, b), c) = Then(a, Then(b, c))
BY ConcatProperties, ConcatAssociative DEF Then

\* Nothing before or after a sequence leaves it as it is.
LEMMA ThenNothing ==
    ASSUME NEW S, NEW a \in Seq(S)
    PROVE  Then(a, <<>>) = a /\ Then(<<>>, a) = a
BY ConcatEmptySeq DEF Then

\* The sequences in[1] to in[m], which are also in2[1] to in2[m].
Same(S, m, in, in2) == \A n \in 1..m : in[n] \in Seq(S) /\ in2[n] = in[n]

\* f[n] is start and the sequences in[1] to in[n], one after the other.
IsJoin(f, m, start, in) ==
    f = [n \in 0..m |-> IF n = 0 THEN start ELSE Then(f[n - 1], in[n])]

\* There is such a function for any number of sequences.
LEMMA JoinExists ==
    ASSUME NEW m \in Nat, NEW start, NEW in
    PROVE  \E f : IsJoin(f, m, start, in)
<1> DEFINE T == {n \in Nat : \E f : IsJoin(f, n, start, in)}
<1>1. 0 \in T
  <2>1. PICK g : g = [i \in 0..0 |-> start]
    OBVIOUS
  <2>2. IsJoin(g, 0, start, in)
    BY <2>1 DEF IsJoin
  <2> QED
    BY <2>2
<1>2. ASSUME NEW n \in T PROVE n + 1 \in T
  <2>1. PICK f : IsJoin(f, n, start, in)
    OBVIOUS
  <2>2. PICK g : g = [i \in 0..n + 1 |-> IF i = 0 THEN start ELSE Then(f[i - 1], in[i])]
    OBVIOUS
  <2>3. n \in Nat /\ n + 1 \in Nat
    OBVIOUS
  <2>4. ASSUME NEW i \in 0..n + 1, i # 0 PROVE g[i - 1] = f[i - 1]
    <3>1. i - 1 \in 0..n /\ i - 1 \in 0..n + 1
      BY <2>3, <2>4
    <3> QED
      BY <2>1, <2>2, <3>1 DEF IsJoin
  <2>5. IsJoin(g, n + 1, start, in)
    BY <2>2, <2>4 DEF IsJoin
  <2> QED
    BY <2>3, <2>5
<1>3. T = Nat
  <2> HIDE DEF T
  <2>1. T \in SUBSET Nat
    BY DEF T
  <2> QED
    BY <1>1, <1>2, <2>1, SetInduction
<1> QED
  BY <1>3

\* The sequences in[1] to in[m], one after the other.
Joined(in, m) == (CHOOSE f : IsJoin(f, m, <<>>, in))[m]

\* What a function that joins has at 0, and at every n after it.
LEMMA JoinStart ==
    ASSUME NEW f, NEW m \in Nat, NEW start, NEW in, IsJoin(f, m, start, in)
    PROVE  f[0] = start
<1>1. 0 \in 0..m
  OBVIOUS
<1> QED
  BY <1>1, Zenon DEF IsJoin

\* The same for a number after it.
LEMMA JoinStep ==
    ASSUME NEW f, NEW m \in Nat, NEW start, NEW in, IsJoin(f, m, start, in), NEW n \in 1..m
    PROVE  f[n] = Then(f[n - 1], in[n])
<1>1. n \in 0..m /\ n # 0
  OBVIOUS
<1> QED
  BY <1>1, Zenon DEF IsJoin

\* f joins in from start on, and g joins in2 from nothing on; the first m are the
\* same.
Alike(S, m, f, k, start, in, g, l, in2) ==
    /\ m \in Nat /\ k \in Nat /\ l \in Nat /\ m <= k /\ m <= l
    /\ start \in Seq(S) /\ Same(S, m, in, in2)
    /\ IsJoin(f, k, start, in) /\ IsJoin(g, l, <<>>, in2)

\* It has start first, and then what any other that joins the same sequences from
\* nothing has.
LEMMA JoinFrom ==
    ASSUME NEW S, NEW m, NEW f, NEW k, NEW start, NEW in, NEW g, NEW l, NEW in2,
           Alike(S, m, f, k, start, in, g, l, in2)
    PROVE  g[m] \in Seq(S) /\ f[m] = Then(start, g[m])
<1> USE DEF Alike
<1> DEFINE T == {n \in Nat : n <= m => g[n] \in Seq(S) /\ f[n] = Then(start, g[n])}
<1>1. 0 \in T
  <2>1. f[0] = start /\ g[0] = <<>>
    BY JoinStart
  <2>2. <<>> \in Seq(S) /\ Then(start, <<>>) = start
    BY ThenNothing
  <2>3. g[0] \in Seq(S) /\ f[0] = Then(start, g[0])
    BY <2>1, <2>2
  <2> QED
    BY <2>3
<1>2. ASSUME NEW n \in T PROVE n + 1 \in T
  <2>1. n \in Nat /\ n + 1 \in Nat /\ (n + 1) - 1 = n
    OBVIOUS
  <2>2. SUFFICES ASSUME n + 1 <= m
                 PROVE  g[n + 1] \in Seq(S) /\ f[n + 1] = Then(start, g[n + 1])
    BY <2>1
  <2>3. n + 1 \in 1..k /\ n + 1 \in 1..l /\ n + 1 \in 1..m /\ n <= m
    BY <2>1, <2>2
  <2>a. PICK a : a = g[n]
    OBVIOUS
  <2>b. PICK b : b = in[n + 1]
    OBVIOUS
  <2>4. a \in Seq(S) /\ f[n] = Then(start, a)
    BY <2>a, <2>3
  <2>5. b \in Seq(S) /\ in2[n + 1] = b
    BY <2>b, <2>3 DEF Same
  <2>6. f[n + 1] = Then(Then(start, a), b)
    <3>1. f[n + 1] = Then(f[(n + 1) - 1], in[n + 1])
      BY <2>3, JoinStep
    <3> QED
      BY <2>1, <2>4, <2>b, <3>1
  <2>7. g[n + 1] = Then(a, b)
    <3>1. g[n + 1] = Then(g[(n + 1) - 1], in2[n + 1])
      BY <2>3, JoinStep
    <3> QED
      BY <2>1, <2>5, <2>a, <3>1
  <2>8. Then(Then(start, a), b) = Then(start, Then(a, b)) /\ Then(a, b) \in Seq(S)
    <3>1. start \in Seq(S) /\ a \in Seq(S) /\ b \in Seq(S)
      BY <2>4, <2>5
    <3>2. Then(Then(start, a), b) = Then(start, Then(a, b))
      BY <3>1, ThenAssociative
    <3>3. Then(a, b) \in Seq(S)
      BY <3>1, ThenAssociative
    <3> QED
      BY <3>2, <3>3
  <2> QED
    BY <2>6, <2>7, <2>8
<1>3. T = Nat
  <2> HIDE DEF T
  <2>1. T \in SUBSET Nat
    BY DEF T
  <2> QED
    BY <1>1, <1>2, <2>1, SetInduction
<1> QED
  BY <1>3

\* Joined is such a function's last value.
LEMMA JoinedIs ==
    ASSUME NEW m \in Nat, NEW in
    PROVE  \E g : IsJoin(g, m, <<>>, in) /\ Joined(in, m) = g[m]
<1> DEFINE F == CHOOSE f : IsJoin(f, m, <<>>, in)
<1>1. IsJoin(F, m, <<>>, in)
  BY JoinExists, Zenon
<1>2. Joined(in, m) = F[m]
  BY DEF Joined
<1> QED
  BY <1>1, <1>2

\* Nothing is joined from no sequences.
LEMMA JoinedNone ==
    ASSUME NEW in
    PROVE  Joined(in, 0) = <<>>
<1>1. PICK g : IsJoin(g, 0, <<>>, in) /\ Joined(in, 0) = g[0]
  BY JoinedIs
<1> QED
  BY <1>1, JoinStart

\* What is joined depends on the sequences, and one more comes last.
LEMMA JoinedSteps ==
    ASSUME NEW S, NEW m \in Nat, NEW in, NEW in2, Same(S, m, in, in2)
    PROVE  /\ Joined(in, m) \in Seq(S)
           /\ Joined(in2, m) = Joined(in, m)
           /\ Joined(in2, m + 1) = Then(Joined(in, m), in2[m + 1])
<1>k. PICK k : k = m + 1
  OBVIOUS
<1>0. k \in Nat /\ 0 \in Nat /\ m <= k /\ m <= m /\ k \in 1..k /\ k - 1 = m /\ <<>> \in Seq(S)
  BY <1>k
<1>1. PICK f : IsJoin(f, m, <<>>, in) /\ Joined(in, m) = f[m]
  BY JoinedIs
<1>2. PICK g : IsJoin(g, m, <<>>, in2) /\ Joined(in2, m) = g[m]
  BY JoinedIs
<1>3. PICK h : IsJoin(h, k, <<>>, in2) /\ Joined(in2, k) = h[k]
  BY <1>0, JoinedIs
<1>s. Same(S, m, in, in) /\ Same(S, m, in2, in2)
  BY DEF Same
<1>5. f[m] \in Seq(S) /\ f[m] = Then(<<>>, f[m])
  <2>1. Alike(S, m, f, m, <<>>, in, f, m, in)
    BY <1>0, <1>1, <1>s DEF Alike
  <2> QED
    BY <2>1, JoinFrom
<1>6. g[m] \in Seq(S) /\ f[m] = Then(<<>>, g[m])
  <2>1. Alike(S, m, f, m, <<>>, in, g, m, in2)
    BY <1>0, <1>1, <1>2 DEF Alike
  <2> QED
    BY <2>1, JoinFrom
<1>8. h[m] = Then(<<>>, g[m])
  <2>1. Alike(S, m, h, k, <<>>, in2, g, m, in2)
    BY <1>0, <1>2, <1>3, <1>s DEF Alike
  <2> QED
    BY <2>1, JoinFrom
<1>9. h[k] = Then(h[m], in2[k])
  <2>1. h[k] = Then(h[k - 1], in2[k])
    BY <1>0, <1>3, JoinStep
  <2> QED
    BY <1>0, <2>1
<1>10. f[m] = g[m] /\ h[m] = g[m]
  BY <1>6, <1>8, ThenNothing
<1> QED
  BY <1>1, <1>2, <1>3, <1>5, <1>9, <1>10, <1>k

\* The first comes first.
LEMMA JoinedFirst ==
    ASSUME NEW S, NEW m \in Nat, NEW in, NEW in2,
           \A n \in 1..m + 1 : in[n] \in Seq(S),
           \A n \in 1..m : in2[n] = in[n + 1]
    PROVE  Joined(in, m + 1) = Then(in[1], Joined(in2, m))
<1>k. PICK k : k = m + 1
  OBVIOUS
<1>s. PICK start : start = in[1]
  OBVIOUS
<1>0. k \in Nat /\ 1 \in 1..k /\ start \in Seq(S) /\ 1 - 1 = 0
  BY <1>k, <1>s
<1>1. PICK f : IsJoin(f, k, <<>>, in) /\ Joined(in, k) = f[k]
  BY <1>0, JoinedIs
<1>2. PICK g : IsJoin(g, m, <<>>, in2) /\ Joined(in2, m) = g[m]
  BY JoinedIs
<1> DEFINE Good(n) == g[n] \in Seq(S) /\ f[n + 1] = Then(start, g[n])
           T == {n \in Nat : n <= m => Good(n)}
<1>3. 0 \in T
  <2>1. f[0] = <<>> /\ g[0] = <<>>
    BY <1>0, <1>1, <1>2, JoinStart
  <2>2. f[1] = Then(f[0], in[1])
    BY <1>0, <1>1, JoinStep
  <2>3. <<>> \in Seq(S) /\ Then(<<>>, start) = start /\ Then(start, <<>>) = start
    BY <1>0, ThenNothing
  <2>4. Good(0)
    BY <2>1, <2>2, <2>3, <1>s
  <2> HIDE DEF Good
  <2> QED
    BY <2>4
<1>4. ASSUME NEW n \in T PROVE n + 1 \in T
  <2>1. n \in Nat /\ n + 1 \in Nat /\ (n + 1) - 1 = n
    OBVIOUS
  <2>2. SUFFICES ASSUME n + 1 <= m PROVE Good(n + 1)
    BY <2>1
  <2>3. n <= m /\ n + 1 \in 1..m /\ (n + 1) + 1 \in 1..k /\ ((n + 1) + 1) - 1 = n + 1
    BY <2>1, <2>2, <1>k
  <2>a. PICK a : a = g[n]
    OBVIOUS
  <2>b. PICK b : b = in[(n + 1) + 1]
    OBVIOUS
  <2>4. a \in Seq(S) /\ f[n + 1] = Then(start, a)
    BY <2>3, <2>a
  <2>5. b \in Seq(S) /\ in2[n + 1] = b
    BY <1>k, <2>3, <2>b
  <2>6. f[(n + 1) + 1] = Then(Then(start, a), b)
    <3>1. f[(n + 1) + 1] = Then(f[((n + 1) + 1) - 1], in[(n + 1) + 1])
      BY <1>0, <1>1, <2>3, JoinStep
    <3> QED
      BY <2>3, <2>4, <2>b, <3>1
  <2>7. g[n + 1] = Then(a, b)
    <3>1. g[n + 1] = Then(g[(n + 1) - 1], in2[n + 1])
      BY <1>2, <2>3, JoinStep
    <3> QED
      BY <2>1, <2>5, <2>a, <3>1
  <2>8. Then(Then(start, a), b) = Then(start, Then(a, b)) /\ Then(a, b) \in Seq(S)
    BY <1>0, <2>4, <2>5, ThenAssociative
  <2> QED
    BY <2>6, <2>7, <2>8
<1>5. T = Nat
  <2> HIDE DEF T
  <2>1. T \in SUBSET Nat
    BY DEF T
  <2> QED
    BY <1>3, <1>4, <2>1, SetInduction
<1>6. f[m + 1] = Then(start, g[m])
  BY <1>5
<1> QED
  BY <1>1, <1>2, <1>6, <1>k, <1>s

\* As many elements as there are in each, times their number.
LEMMA JoinedLength ==
    ASSUME NEW S, NEW m \in Nat, NEW in, NEW least \in Nat, NEW most \in Nat,
           \A n \in 1..m : /\ in[n] \in Seq(S)
                          /\ least <= Len(in[n]) /\ Len(in[n]) <= most
    PROVE  /\ Len(Joined(in, m)) \in Nat
           /\ m * least <= Len(Joined(in, m))
           /\ Len(Joined(in, m)) <= m * most
<1>1. PICK g : IsJoin(g, m, <<>>, in) /\ Joined(in, m) = g[m]
  BY JoinedIs
<1> DEFINE Good(n) == /\ g[n] \in Seq(S) /\ Len(g[n]) \in Nat
                      /\ n * least <= Len(g[n]) /\ Len(g[n]) <= n * most
           T == {n \in Nat : n <= m => Good(n)}
<1>2. 0 \in T
  <2>1. g[0] = <<>>
    BY <1>1, JoinStart
  <2>2. <<>> \in Seq(S) /\ Len(<<>>) = 0 /\ 0 * least = 0 /\ 0 * most = 0
    OBVIOUS
  <2>3. Good(0)
    BY <2>1, <2>2
  <2> HIDE DEF Good
  <2> QED
    BY <2>3
<1>3. ASSUME NEW n \in T PROVE n + 1 \in T
  <2>1. n \in Nat /\ n + 1 \in Nat /\ (n + 1) - 1 = n
    OBVIOUS
  <2>2. SUFFICES ASSUME n + 1 <= m PROVE Good(n + 1)
    BY <2>1
  <2>3. n <= m /\ n + 1 \in 1..m
    BY <2>1, <2>2
  <2>a. PICK a : a = g[n]
    OBVIOUS
  <2>b. PICK b : b = in[n + 1]
    OBVIOUS
  <2>4. a \in Seq(S) /\ Len(a) \in Nat /\ n * least <= Len(a) /\ Len(a) <= n * most
    BY <2>3, <2>a
  <2>5. b \in Seq(S) /\ least <= Len(b) /\ Len(b) <= most
    BY <2>3, <2>b
  <2>6. g[n + 1] = Then(a, b)
    <3>1. g[n + 1] = Then(g[(n + 1) - 1], in[n + 1])
      BY <1>1, <2>3, JoinStep
    <3> QED
      BY <2>1, <2>a, <2>b, <3>1
  <2>7. Then(a, b) \in Seq(S) /\ Len(Then(a, b)) = Len(a) + Len(b) /\ Len(b) \in Nat
    BY <2>4, <2>5, ConcatProperties, LenProperties DEF Then
  <2>8. (n + 1) * least = n * least + least /\ (n + 1) * most = n * most + most
    BY <2>1
  <2>9. n * least \in Nat /\ n * most \in Nat
    BY <2>1
  <2>10. (n + 1) * least <= Len(a) + Len(b) /\ Len(a) + Len(b) <= (n + 1) * most
    BY <2>4, <2>5, <2>7, <2>8, <2>9
  <2> QED
    BY <2>4, <2>6, <2>7, <2>10
<1>4. T = Nat
  <2> HIDE DEF T
  <2>1. T \in SUBSET Nat
    BY DEF T
  <2> QED
    BY <1>2, <1>3, <2>1, SetInduction
<1>5. Good(m)
  BY <1>4
<1> QED
  BY <1>1, <1>5

\* The sequences in[0] to in[m].
All(in, m) == Then(in[0], Joined(in, m))
Seqs(S, in, m) == \A n \in 0..m : in[n] \in Seq(S)

\* An element appended to a part that comes last is appended to the whole.
LEMMA ThenAppend ==
    ASSUME NEW S, NEW a \in Seq(S), NEW b \in Seq(S), NEW e \in S
    PROVE  Then(a, Append(b, e)) = Append(Then(a, b), e)
<1>c. PICK c : c = <<e>>
  OBVIOUS
<1>1. c \in Seq(S)
  BY <1>c
<1>2. Append(b, e) = Then(b, c)
  BY <1>c, AppendIsConcat DEF Then
<1>3. Then(a, b) \in Seq(S)
  BY ConcatProperties DEF Then
<1>4. Append(Then(a, b), e) = Then(Then(a, b), c)
  BY <1>3, <1>c, AppendIsConcat DEF Then
<1>5. Then(Then(a, b), c) = Then(a, Then(b, c))
  BY <1>1, ThenAssociative
<1> QED
  BY <1>2, <1>4, <1>5

\* Its first element is the first part's, and the rest goes on with the rest of it.
LEMMA ThenTail ==
    ASSUME NEW S, NEW a \in Seq(S), a # <<>>, NEW b \in Seq(S)
    PROVE  /\ Then(a, b) # <<>>
           /\ Head(Then(a, b)) = Head(a)
           /\ Tail(Then(a, b)) = Then(Tail(a), b)
<1>1. Len(a) \in Nat \ {0} /\ Len(b) \in Nat /\ Tail(a) \in Seq(S) /\ Len(Tail(a)) = Len(a) - 1
  BY LenProperties, EmptySeq, HeadTailProperties
<1>c. PICK c : c = Then(a, b)
  OBVIOUS
<1>2. /\ c \in Seq(S) /\ Len(c) = Len(a) + Len(b)
      /\ \A i \in 1..Len(a) + Len(b) : c[i] = IF i <= Len(a) THEN a[i] ELSE b[i - Len(a)]
  BY <1>c, ConcatProperties DEF Then
<1>3. c # <<>> /\ Head(c) = c[1] /\ Head(a) = a[1] /\ c[1] = a[1]
  BY <1>1, <1>2, EmptySeq
<1>4. /\ Tail(c) \in Seq(S) /\ Len(Tail(c)) = Len(c) - 1
      /\ \A i \in 1..Len(Tail(c)) : Tail(c)[i] = c[i + 1]
  BY <1>2, <1>3, HeadTailProperties
<1>d. PICK d : d = Then(Tail(a), b)
  OBVIOUS
<1>5. /\ d \in Seq(S) /\ Len(d) = Len(Tail(a)) + Len(b)
      /\ \A i \in 1..Len(Tail(a)) + Len(b) :
            d[i] = IF i <= Len(Tail(a)) THEN Tail(a)[i] ELSE b[i - Len(Tail(a))]
  BY <1>1, <1>d, ConcatProperties DEF Then
<1>6. \A i \in 1..Len(Tail(a)) : Tail(a)[i] = a[i + 1]
  BY HeadTailProperties
<1>7. Len(Tail(c)) = Len(d)
  BY <1>1, <1>2, <1>4, <1>5
<1>8. ASSUME NEW i \in 1..Len(d) PROVE Tail(c)[i] = d[i]
  <2>1. i \in Nat /\ i \in 1..Len(Tail(c)) /\ i + 1 \in 1..Len(a) + Len(b)
    BY <1>1, <1>2, <1>4, <1>7
  <2>2. Tail(c)[i] = IF i + 1 <= Len(a) THEN a[i + 1] ELSE b[i + 1 - Len(a)]
    BY <1>2, <1>4, <2>1
  <2>3. CASE i + 1 <= Len(a)
    <3>1. i <= Len(Tail(a)) /\ i \in 1..Len(Tail(a))
      BY <1>1, <2>1, <2>3
    <3> QED
      BY <1>5, <1>6, <2>2, <2>3, <3>1
  <2>4. CASE ~(i + 1 <= Len(a))
    <3>1. ~(i <= Len(Tail(a))) /\ i - Len(Tail(a)) = i + 1 - Len(a)
      BY <1>1, <2>1, <2>4
    <3> QED
      BY <1>5, <2>2, <2>4, <3>1
  <2> QED
    BY <2>3, <2>4
<1>9. Tail(c) = d
  BY <1>4, <1>5, <1>7, <1>8, SeqEqual
<1> QED
  BY <1>3, <1>9, <1>c, <1>d

\* The whole is a sequence, and depends on nothing but its parts.
LEMMA AllSame ==
    ASSUME NEW S, NEW m \in Nat, NEW in, NEW in2, Seqs(S, in, m),
           \A n \in 0..m : in2[n] = in[n]
    PROVE  /\ Joined(in, m) \in Seq(S) /\ All(in, m) \in Seq(S)
           /\ Joined(in2, m) = Joined(in, m) /\ All(in2, m) = All(in, m)
<1>1. Same(S, m, in, in2) /\ in[0] \in Seq(S) /\ in2[0] = in[0]
  BY DEF Same, Seqs
<1>2. Joined(in, m) \in Seq(S) /\ Joined(in2, m) = Joined(in, m)
  BY <1>1, JoinedSteps
<1> QED
  BY <1>1, <1>2, ThenAssociative DEF All

\* An element appended to the last of several sequences is appended to them all.
LEMMA JoinedAppend ==
    ASSUME NEW S, NEW k \in Nat, NEW in, NEW in2, Same(S, k, in, in2),
           in[k + 1] \in Seq(S), NEW e \in S, in2[k + 1] = Append(in[k + 1], e)
    PROVE  /\ Joined(in2, k + 1) = Append(Joined(in, k + 1), e)
           /\ Joined(in, k + 1) \in Seq(S)
<1>a. PICK a : a = Joined(in, k)
  OBVIOUS
<1>b. PICK b : b = in[k + 1]
  OBVIOUS
<1>1. Same(S, k, in, in)
  BY DEF Same
<1>2. a \in Seq(S) /\ Joined(in, k + 1) = Then(a, b)
  BY <1>1, <1>a, <1>b, JoinedSteps
<1>3. Joined(in2, k + 1) = Then(a, in2[k + 1])
  <2>1. k \in Nat /\ Same(S, k, in, in2)
    OBVIOUS
  <2> QED
    <3>1. /\ Joined(in, k) \in Seq(S)
          /\ Joined(in2, k) = Joined(in, k)
          /\ Joined(in2, k + 1) = Then(Joined(in, k), in2[k + 1])
      BY ONLY <2>1, JoinedSteps
    <3> QED
      BY <1>a, <3>1
<1>4. Then(a, Append(b, e)) = Append(Then(a, b), e)
  BY <1>2, <1>b, ThenAppend
<1>5. Then(a, b) \in Seq(S)
  BY <1>2, <1>b, ConcatProperties DEF Then
<1> QED
  BY <1>2, <1>3, <1>4, <1>5, <1>b

\* The last of the parts in is longer by e in in2; and in2 has one more part, <<e>>.
Longer(S, in, in2, m, e) ==
    /\ m \in Nat /\ Seqs(S, in, m) /\ e \in S
    /\ \A n \in 0..m : n # m => in2[n] = in[n]
    /\ in2[m] = Append(in[m], e)

OneMore(S, in, in2, m, e) ==
    /\ m \in Nat /\ Seqs(S, in, m) /\ e \in S
    /\ \A n \in 0..m : in2[n] = in[n]
    /\ in2[m + 1] = <<e>>

\* An element is appended to the last part.
LEMMA AllLast ==
    ASSUME NEW S, NEW m, NEW in, NEW in2, NEW e, Longer(S, in, in2, m, e)
    PROVE  All(in2, m) = Append(All(in, m), e)
<1>0. /\ m \in Nat /\ Seqs(S, in, m) /\ e \in S
      /\ \A n \in 0..m : n # m => in2[n] = in[n]
      /\ in2[m] = Append(in[m], e)
  BY DEF Longer
<1> USE <1>0
<1>a. PICK a : a = in[0]
  OBVIOUS
<1>1. a \in Seq(S) /\ in[m] \in Seq(S)
  BY <1>a DEF Seqs
<1>2. CASE m = 0
  <2>1. Joined(in, m) = <<>> /\ Joined(in2, m) = <<>>
    BY <1>2, JoinedNone
  <2>2. in2[0] = Append(a, e) /\ in2[0] \in Seq(S)
    BY <1>1, <1>2, <1>a, AppendProperties
  <2> QED
    BY <1>1, <1>a, <2>1, <2>2, ThenNothing DEF All
<1>3. CASE m # 0
  <2>k. PICK k : k = m - 1
    OBVIOUS
  <2>1. k \in Nat /\ k + 1 = m
    BY <1>3, <2>k
  <2>2. Same(S, k, in, in2) /\ in2[0] = a
    BY <1>3, <1>a, <2>1 DEF Same, Seqs
  <2>3. in[k + 1] \in Seq(S) /\ in2[k + 1] = Append(in[k + 1], e)
    BY <1>1, <2>1
  <2>4. Joined(in2, k + 1) = Append(Joined(in, k + 1), e) /\ Joined(in, k + 1) \in Seq(S)
    BY <2>1, <2>2, <2>3, JoinedAppend
  <2>5. Joined(in2, m) = Append(Joined(in, m), e) /\ Joined(in, m) \in Seq(S)
    BY <2>1, <2>4
  <2>6. Then(a, Append(Joined(in, m), e)) = Append(Then(a, Joined(in, m)), e)
    BY <1>1, <2>5, ThenAppend
  <2> QED
    BY <1>a, <2>2, <2>5, <2>6 DEF All
<1> QED
  BY <1>2, <1>3

\* A new part with one element comes last.
LEMMA AllNew ==
    ASSUME NEW S, NEW m, NEW in, NEW in2, NEW e, OneMore(S, in, in2, m, e)
    PROVE  All(in2, m + 1) = Append(All(in, m), e)
<1>0. /\ m \in Nat /\ Seqs(S, in, m) /\ e \in S
      /\ \A n \in 0..m : in2[n] = in[n]
      /\ in2[m + 1] = <<e>>
  BY DEF OneMore
<1> USE <1>0
<1>1. in[0] \in Seq(S) /\ in2[0] = in[0] /\ Same(S, m, in, in2)
  BY DEF Seqs, Same
<1>j. PICK j : j = Joined(in, m)
  OBVIOUS
<1>a. PICK a : a = in[0]
  OBVIOUS
<1>2. a \in Seq(S) /\ j \in Seq(S) /\ Joined(in2, m + 1) = Then(j, in2[m + 1])
  BY <1>1, <1>a, <1>j, JoinedSteps, SMTT(30)
<1>3. Append(j, e) = Then(j, <<e>>)
  BY <1>2, AppendIsConcat DEF Then
<1>4. Then(a, Append(j, e)) = Append(Then(a, j), e)
  BY <1>2, ThenAppend
<1> QED
  BY <1>1, <1>2, <1>3, <1>4, <1>a, <1>j DEF All

\* A first part with no element is left out.
LEMMA AllDrop ==
    ASSUME NEW S, NEW m \in Nat, NEW in, NEW in2, Seqs(S, in, m + 1), in[0] = <<>>,
           \A n \in 0..m : in2[n] = in[n + 1]
    PROVE  All(in2, m) = All(in, m + 1)
<1>1. \A n \in 1..m + 1 : in[n] \in Seq(S)
  BY DEF Seqs
<1>2. \A n \in 1..m : in2[n] = in[n + 1]
  OBVIOUS
<1>3. in2[0] = in[1]
  OBVIOUS
<1>4. Joined(in, m + 1) = Then(in[1], Joined(in2, m))
  BY <1>1, <1>2, JoinedFirst
<1>5. Then(in[1], Joined(in2, m)) \in Seq(S)
  <2>1. \A n \in 1..m : n \in 1..m + 1 /\ n + 1 \in 1..m + 1
    OBVIOUS
  <2>2. Same(S, m, in2, in2) /\ in[1] \in Seq(S)
    BY <1>1, <1>2, <2>1 DEF Same
  <2>3. Joined(in2, m) \in Seq(S)
    BY <2>2, JoinedSteps
  <2> QED
    BY <2>2, <2>3, ThenAssociative
<1> QED
  BY <1>3, <1>4, <1>5, ThenNothing DEF All

\* What is taken from the first part is taken from the whole.
LEMMA AllFirst ==
    ASSUME NEW S, NEW m \in Nat, NEW in, Seqs(S, in, m), in[0] # <<>>
    PROVE  /\ All(in, m) # <<>>
           /\ Head(All(in, m)) = Head(in[0])
           /\ Tail(All(in, m)) = Then(Tail(in[0]), Joined(in, m))
<1>1. in[0] \in Seq(S) /\ Joined(in, m) \in Seq(S)
  BY AllSame DEF Seqs
<1> QED
  BY <1>1, ThenTail DEF All

-----------------------------------------------------------------------------
(***************************************************************************)
(* The contents of the queue, block by block.                              *)
(***************************************************************************)

Values == Elements \cup {Raw}

\* How many blocks follow the front block up to the tail block, the n-th of them,
\* and what they hold.
Ahead == Dist(ring.count, frontBlock, tailBlock)
Place(c, q, n) == IF q + n < c THEN q + n ELSE q + n - c
Parts == [n \in 0..Ahead |-> InBlock(Place(ring.count, frontBlock, n))]

\* The blocks in use, one by one.
LEMMA Places ==
    ASSUME NEW c \in Nat, NEW q \in 0..c - 1, NEW t \in 0..c - 1
    PROVE  /\ Dist(c, q, t) \in Nat /\ Dist(c, q, t) < c
           /\ \A n \in 0..Dist(c, q, t) :
                 /\ Place(c, q, n) \in 0..c - 1
                 /\ (q + n) % c = Place(c, q, n)
                 /\ Place(c, q, n) = q <=> n = 0
                 /\ Place(c, q, n) = t <=> n = Dist(c, q, t)
                 /\ IF q <= t THEN q <= Place(c, q, n) /\ Place(c, q, n) <= t
                    ELSE q <= Place(c, q, n) \/ Place(c, q, n) <= t
           /\ \A n \in 0..Dist(c, q, t) - 1 : Place(c, After(c, q), n) = Place(c, q, n + 1)
           /\ After(c, t) # q => /\ Dist(c, q, After(c, t)) = Dist(c, q, t) + 1
                                /\ Place(c, q, Dist(c, q, t) + 1) = After(c, t)
BY DEF Dist, Place, After

\* What a block holds, by the positions of the block.
LEMMA InBlockIs ==
    ASSUME Typed, NEW b \in Bs, NEW s, NEW f, NEW t, NEW data,
           s = ring.slots, f = blocks[b].front, t = blocks[b].tail, data = blocks[b].data
    PROVE  /\ s \in Nat /\ s >= 2 /\ f \in 0..s - 1 /\ t \in 0..s - 1
           /\ data \in [0..s - 1 -> Values]
           /\ InBlock(b) = [i \in 1..Dist(s, f, t) |-> data[(f + i - 1) % s]]
           /\ Dist(s, f, t) \in 0..s - 1
<1>1. s \in Nat /\ s >= 2
  BY DEF Typed, RingTyped
<1>2. f \in 0..s - 1 /\ t \in 0..s - 1 /\ data \in [0..s - 1 -> Values]
  BY Positions DEF Slots, Values
<1>3. (t + s - f) % s = Dist(s, f, t) /\ Dist(s, f, t) \in 0..s - 1
  <2>1. (t + s - f) % s = Dist(s, f, t)
    BY <1>1, <1>2, ModIsDist
  <2>2. Dist(s, f, t) \in 0..s - 1
    BY <1>1, <1>2, DistBounds
  <2> QED
    BY <2>1, <2>2
<1>4. InBlock(b) = [i \in 1..((t + s - f) % s) |-> data[(f + i - 1) % s]]
  BY DEF InBlock
<1> QED
  BY <1>1, <1>2, <1>3, <1>4

\* It is a sequence of as many elements as tail is ahead of front.
LEMMA InBlockType ==
    ASSUME Typed, NEW b \in Bs
    PROVE  /\ InBlock(b) \in Seq(Values)
           /\ Len(InBlock(b)) = Dist(ring.slots, blocks[b].front, blocks[b].tail)
           /\ Len(InBlock(b)) \in 0..ring.slots - 1
<1>1. PICK s, f, t, data : s = ring.slots /\ f = blocks[b].front /\ t = blocks[b].tail
                           /\ data = blocks[b].data
  OBVIOUS
<1>d. PICK d : d = Dist(s, f, t)
  OBVIOUS
<1>2. /\ s \in Nat /\ s >= 2 /\ f \in 0..s - 1 /\ t \in 0..s - 1
      /\ data \in [0..s - 1 -> Values] /\ d \in 0..s - 1
      /\ InBlock(b) = [i \in 1..d |-> data[(f + i - 1) % s]]
  BY <1>1, <1>d, InBlockIs, SMTT(30)
<1>3. \A i \in 1..d : data[(f + i - 1) % s] \in Values
  BY <1>2
<1>4. InBlock(b) \in Seq(Values) /\ Len(InBlock(b)) = d
  BY <1>2, <1>3
<1> QED
  BY <1>1, <1>2, <1>4, <1>d

\* The parts are sequences, and Contents is all of them.
PartsInv ==
    /\ Ahead \in Nat
    /\ Seqs(Values, Parts, Ahead)
    /\ Contents = All(Parts, Ahead)
    /\ All(Parts, Ahead) \in Seq(Values)

\* Contents is defined by recursion over the blocks in use, which All is too.
LEMMA ContentsIsAll == Typed => PartsInv
<1> SUFFICES ASSUME Typed PROVE PartsInv
  OBVIOUS
<1>1. PICK c, q, t : c = ring.count /\ q = frontBlock /\ t = tailBlock
  OBVIOUS
<1>2. c \in Nat /\ q \in 0..c - 1 /\ t \in 0..c - 1
  BY <1>1 DEF Typed, RingTyped, Bs
<1>m. PICK m : m = Ahead
  OBVIOUS
<1>in. PICK in : in = Parts
  OBVIOUS
<1>3. /\ m \in Nat /\ m = Dist(c, q, t)
      /\ \A n \in 0..m : Place(c, q, n) \in 0..c - 1 /\ (q + n) % c = Place(c, q, n)
  <2>1. /\ Dist(c, q, t) \in Nat
        /\ \A n \in 0..Dist(c, q, t) :
              Place(c, q, n) \in 0..c - 1 /\ (q + n) % c = Place(c, q, n)
    BY <1>2, Places
  <2> QED
    BY <1>1, <1>m, <2>1 DEF Ahead
<1>4. \A n \in 0..m : in[n] = InBlock((q + n) % c) /\ in[n] \in Seq(Values)
  BY <1>1, <1>3, <1>m, <1>in, InBlockType DEF Parts, Bs
<1>5. Seqs(Values, in, m)
  BY <1>4 DEF Seqs
<1> DEFINE Body(f) == [n \in 0..m |-> (IF n = 0 THEN <<>> ELSE f[n - 1]) \o InBlock((q + n) % c)]
           upTo == CHOOSE f : f = Body(f)
<1>6. ASSUME NEW f PROVE f = Body(f) <=> IsJoin(f, m, in[0], in)
  <2>1. ASSUME NEW n \in 0..m
        PROVE  (IF n = 0 THEN <<>> ELSE f[n - 1]) \o InBlock((q + n) % c)
                 = (IF n = 0 THEN in[0] ELSE Then(f[n - 1], in[n]))
    <3>1. InBlock((q + n) % c) = in[n]
      BY <1>4
    <3>2. CASE n = 0
      <4>1. <<>> \o in[0] = in[0]
        BY <1>4, <3>2, ConcatEmptySeq
      <4> QED
        BY <3>1, <3>2, <4>1
    <3>3. CASE n # 0
      BY <3>1, <3>3 DEF Then
    <3> QED
      BY <3>2, <3>3
  <2>2. Body(f) = [n \in 0..m |-> IF n = 0 THEN in[0] ELSE Then(f[n - 1], in[n])]
    BY <2>1, Zenon
  <2> HIDE DEF Body
  <2> QED
    BY <2>2 DEF IsJoin
<1>7. \E f : f = Body(f)
  <2> HIDE DEF Body
  <2> QED
    BY <1>3, <1>6, JoinExists
<1>8. upTo = Body(upTo)
  <2> HIDE DEF Body
  <2> QED
    BY <1>7, Zenon
<1>9. IsJoin(upTo, m, in[0], in)
  <2> HIDE DEF Body, upTo
  <2> QED
    BY <1>6, <1>8
<1>10. upTo[m] = All(in, m)
  <2> HIDE DEF Body, upTo
  <2>1. PICK g : IsJoin(g, m, <<>>, in) /\ Joined(in, m) = g[m]
    BY <1>3, JoinedIs
  <2>2. Alike(Values, m, upTo, m, in[0], in, g, m, in)
    BY <1>3, <1>5, <1>9, <2>1 DEF Alike, Same, Seqs
  <2> QED
    BY <2>1, <2>2, JoinFrom DEF All
<1>11. Contents = upTo[m]
  <2>1. (t + c - q) % c = m
    BY <1>2, <1>3, ModIsDist
  <2> QED
    BY <1>1, <2>1 DEF Contents
<1>12. All(in, m) \in Seq(Values)
  BY <1>3, <1>5, AllSame
<1> HIDE DEF upTo
<1> QED
  BY <1>3, <1>5, <1>10, <1>11, <1>12, <1>m, <1>in DEF PartsInv

\* What is in the slots from f on to t.
Slice(s, f, t, data) == [i \in 1..Dist(s, f, t) |-> data[Place(s, f, i - 1)]]

\* Which is a sequence of values.
LEMMA SliceType ==
    ASSUME NEW s \in Nat, NEW f \in 0..s - 1, NEW t \in 0..s - 1,
           NEW data \in [0..s - 1 -> Values]
    PROVE  /\ Slice(s, f, t, data) \in Seq(Values)
           /\ Len(Slice(s, f, t, data)) = Dist(s, f, t)
           /\ Dist(s, f, t) \in Nat
           /\ \A i \in 1..Dist(s, f, t) : /\ Place(s, f, i - 1) \in 0..s - 1
                                          /\ Place(s, f, i - 1) = (f + i - 1) % s
                                          /\ Place(s, f, i - 1) # t
                                          /\ Place(s, f, i - 1) = f <=> i = 1
<1>1. Dist(s, f, t) \in Nat
  BY DEF Dist
<1>2. ASSUME NEW i \in 1..Dist(s, f, t)
      PROVE  /\ Place(s, f, i - 1) \in 0..s - 1
             /\ Place(s, f, i - 1) = (f + i - 1) % s
             /\ Place(s, f, i - 1) # t
             /\ Place(s, f, i - 1) = f <=> i = 1
  BY DEF Dist, Place
<1>d. PICK d : d = Dist(s, f, t)
  OBVIOUS
<1>3. \A i \in 1..d : data[Place(s, f, i - 1)] \in Values
  BY <1>2, <1>d
<1>4. Slice(s, f, t, data) = [i \in 1..d |-> data[Place(s, f, i - 1)]]
  BY <1>d DEF Slice
<1>5. Slice(s, f, t, data) \in Seq(Values) /\ Len(Slice(s, f, t, data)) = d
  BY <1>1, <1>3, <1>4, <1>d
<1> QED
  BY <1>1, <1>2, <1>5, <1>d

\* The tail moves: what was at tail comes last.
LEMMA SliceTail ==
    ASSUME NEW s \in Nat, NEW f \in 0..s - 1, NEW t \in 0..s - 1,
           NEW data \in [0..s - 1 -> Values], After(s, t) # f
    PROVE  Slice(s, f, After(s, t), data) = Append(Slice(s, f, t, data), data[t])
<1>d. PICK d : d = Dist(s, f, t)
  OBVIOUS
<1>1. d \in Nat /\ Dist(s, f, After(s, t)) = d + 1 /\ Place(s, f, d) = t /\ (d + 1) - 1 = d
  BY <1>d DEF Dist, Place, After
<1>a. PICK a : a = Slice(s, f, t, data)
  OBVIOUS
<1>2. /\ a \in Seq(Values) /\ Len(a) = d
      /\ \A i \in 1..d : a[i] = data[Place(s, f, i - 1)]
  <2>1. a \in Seq(Values) /\ Len(a) = d
    BY <1>a, <1>d, SliceType
  <2>2. \A i \in 1..d : a[i] = data[Place(s, f, i - 1)]
    BY <1>a, <1>d DEF Slice
  <2> QED
    BY <2>1, <2>2
<1>b. PICK b : b = Append(a, data[t])
  OBVIOUS
<1>3. /\ b = [i \in 1..d + 1 |-> IF i = d + 1 THEN data[t] ELSE a[i]]
  <2>1. data[t] \in Values
    OBVIOUS
  <2>2. b \in Seq(Values) /\ Len(b) = d + 1 /\ DOMAIN b = 1..d + 1
    BY <1>2, <1>b, <2>1, AppendProperties
  <2>3. \A i \in 1..d + 1 : b[i] = IF i = d + 1 THEN data[t] ELSE a[i]
    BY <1>1, <1>2, <1>b, <2>1, AppendProperties
  <2> QED
    BY <2>2, <2>3
<1>4. ASSUME NEW i \in 1..d + 1
      PROVE  (IF i = d + 1 THEN data[t] ELSE a[i]) = data[Place(s, f, i - 1)]
  <2>1. CASE i = d + 1
    BY <1>1, <2>1
  <2>2. CASE i # d + 1
    <3>1. i \in 1..d
      BY <1>1, <2>2
    <3> QED
      BY <1>2, <2>2, <3>1
  <2> QED
    BY <2>1, <2>2
<1> QED
  BY <1>1, <1>3, <1>4, <1>a, <1>b DEF Slice

\* The front moves: the first element is gone.
LEMMA SliceFront ==
    ASSUME NEW s \in Nat, NEW f \in 0..s - 1, NEW t \in 0..s - 1,
           NEW data \in [0..s - 1 -> Values], f # t
    PROVE  /\ Slice(s, f, t, data) # <<>>
           /\ Head(Slice(s, f, t, data)) = data[f]
           /\ Tail(Slice(s, f, t, data)) = Slice(s, After(s, f), t, data)
<1>d. PICK d : d = Dist(s, f, t)
  OBVIOUS
<1>1. /\ d \in Nat \ {0} /\ Dist(s, After(s, f), t) = d - 1 /\ After(s, f) \in 0..s - 1
      /\ Place(s, f, 1 - 1) = f
  BY <1>d DEF Dist, Place, After
<1>a. PICK a : a = Slice(s, f, t, data)
  OBVIOUS
<1>2. /\ a \in Seq(Values) /\ Len(a) = d
      /\ \A i \in 1..d : a[i] = data[Place(s, f, i - 1)]
  <2>1. a \in Seq(Values) /\ Len(a) = d
    BY <1>a, <1>d, SliceType
  <2>2. \A i \in 1..d : a[i] = data[Place(s, f, i - 1)]
    BY <1>a, <1>d DEF Slice
  <2> QED
    BY <2>1, <2>2
<1>3. a # <<>> /\ Head(a) = data[f]
  BY <1>1, <1>2, EmptySeq
<1>4. \A i \in 1..d - 1 : Place(s, After(s, f), i - 1) = Place(s, f, (i + 1) - 1)
  BY <1>d DEF Dist, Place, After
<1>5. /\ Tail(a) = [i \in 1..d - 1 |-> a[i + 1]]
      /\ \A i \in 1..d - 1 : a[i + 1] = data[Place(s, After(s, f), i - 1)]
  <2>1. Tail(a) = [i \in 1..d - 1 |-> a[i + 1]]
    <3>b. PICK b : b = Tail(a)
      OBVIOUS
    <3>1. /\ b \in Seq(Values) /\ Len(b) = d - 1
          /\ \A i \in 1..Len(b) : b[i] = a[i + 1]
      BY <1>2, <1>3, <3>b, HeadTailProperties
    <3>2. b = [i \in 1..Len(b) |-> b[i]]
      BY <3>1
    <3>3. b = [i \in 1..d - 1 |-> a[i + 1]]
      BY <3>1, <3>2
    <3> QED
      BY <3>b, <3>3
  <2>2. \A i \in 1..d - 1 : i + 1 \in 1..d
    BY <1>1
  <2> QED
    BY <1>2, <1>4, <2>1, <2>2
<1>6. Slice(s, After(s, f), t, data)
        = [i \in 1..d - 1 |-> data[Place(s, After(s, f), i - 1)]]
  BY <1>1 DEF Slice
<1>7. [i \in 1..d - 1 |-> data[Place(s, After(s, f), i - 1)]] = [i \in 1..d - 1 |-> a[i + 1]]
  BY <1>5
<1> QED
  BY <1>3, <1>5, <1>6, <1>7, <1>a

\* A slot that is not between front and tail does not matter; front's is the first.
LEMMA SliceData ==
    ASSUME NEW s \in Nat, NEW f \in 0..s - 1, NEW t \in 0..s - 1,
           NEW data \in [0..s - 1 -> Values], NEW data2 \in [0..s - 1 -> Values]
    PROVE  /\ (\A i \in 0..s - 1 : i # t => data2[i] = data[i]) =>
                 Slice(s, f, t, data2) = Slice(s, f, t, data)
           /\ f # t /\ (\A i \in 0..s - 1 : i # f => data2[i] = data[i]) =>
                 Tail(Slice(s, f, t, data2)) = Tail(Slice(s, f, t, data))
<1>1. ASSUME \A i \in 0..s - 1 : i # t => data2[i] = data[i]
      PROVE  Slice(s, f, t, data2) = Slice(s, f, t, data)
  <2>0. \A i \in 1..Dist(s, f, t) : /\ Place(s, f, i - 1) \in 0..s - 1
                                     /\ Place(s, f, i - 1) # t
    BY SliceType
  <2>1. \A i \in 1..Dist(s, f, t) : data2[Place(s, f, i - 1)] = data[Place(s, f, i - 1)]
    BY <1>1, <2>0
  <2> QED
    BY <2>1 DEF Slice
<1>2. ASSUME f # t, \A i \in 0..s - 1 : i # f => data2[i] = data[i]
      PROVE  Tail(Slice(s, f, t, data2)) = Tail(Slice(s, f, t, data))
  <2>g. PICK g : g = After(s, f)
    OBVIOUS
  <2>1. g \in 0..s - 1 /\ \A i \in 1..Dist(s, g, t) : /\ Place(s, g, i - 1) # f
                                                     /\ Place(s, g, i - 1) \in 0..s - 1
    BY <1>2, <2>g DEF Dist, Place, After
  <2>2. Slice(s, g, t, data2) = Slice(s, g, t, data)
    BY <1>2, <2>1 DEF Slice
  <2>3. Tail(Slice(s, f, t, data)) = Slice(s, g, t, data)
    BY <1>2, <2>g, SliceFront
  <2>4. Tail(Slice(s, f, t, data2)) = Slice(s, g, t, data2)
    BY <1>2, <2>g, SliceFront
  <2> QED
    BY <2>2, <2>3, <2>4
<1> QED
  BY <1>1, <1>2

\* Nothing is between a slot and itself.
LEMMA SliceEmpty ==
    ASSUME NEW s \in Nat, NEW f \in 0..s - 1, NEW data
    PROVE  Slice(s, f, f, data) = <<>>
<1>1. Dist(s, f, f) = 0
  BY DEF Dist
<1> QED
  BY <1>1 DEF Slice

\* What a block holds is what is in its slots from front on to tail.
SlicesInv ==
    \A b \in Bs : /\ InBlock(b) = Slice(ring.slots, blocks[b].front, blocks[b].tail,
                                        blocks[b].data)
                  /\ InBlock(b) \in Seq(Values)
                  /\ Len(InBlock(b)) = Dist(ring.slots, blocks[b].front, blocks[b].tail)

\* They do, for InBlock goes around the ring of slots and Slice does too.
LEMMA BlocksAreSlices == Typed => SlicesInv
<1> SUFFICES ASSUME Typed, NEW b \in Bs
             PROVE  /\ InBlock(b) = Slice(ring.slots, blocks[b].front, blocks[b].tail,
                                          blocks[b].data)
                    /\ InBlock(b) \in Seq(Values)
                    /\ Len(InBlock(b)) = Dist(ring.slots, blocks[b].front, blocks[b].tail)
  BY DEF SlicesInv
<1>1. PICK s, f, t, data : s = ring.slots /\ f = blocks[b].front /\ t = blocks[b].tail
                           /\ data = blocks[b].data
  OBVIOUS
<1>2. /\ s \in Nat /\ s >= 2 /\ f \in 0..s - 1 /\ t \in 0..s - 1
      /\ data \in [0..s - 1 -> Values]
      /\ InBlock(b) = [i \in 1..Dist(s, f, t) |-> data[(f + i - 1) % s]]
      /\ Dist(s, f, t) \in 0..s - 1
  BY <1>1, InBlockIs, SMTT(30)
<1>3. /\ Slice(s, f, t, data) \in Seq(Values)
      /\ Len(Slice(s, f, t, data)) = Dist(s, f, t)
  BY <1>2, SliceType
<1>4. \A i \in 1..Dist(s, f, t) : Place(s, f, i - 1) = (f + i - 1) % s
  BY <1>2, SliceType
<1>5. InBlock(b) = Slice(s, f, t, data)
  BY <1>2, <1>4 DEF Slice
<1> QED
  BY <1>1, <1>3, <1>5

-----------------------------------------------------------------------------
(***************************************************************************)
(* A ring of c blocks in use from q on to t that hold sequences, and what  *)
(* a change in one of them makes of the whole.                             *)
(***************************************************************************)

Ring(c, q, t, hold) ==
    /\ c \in Nat /\ q \in 0..c - 1 /\ t \in 0..c - 1
    /\ hold \in [0..c - 1 -> Seq(Values)]

PartsOf(c, q, t, hold) == [n \in 0..Dist(c, q, t) |-> hold[Place(c, q, n)]]
Whole(c, q, t, hold) == All(PartsOf(c, q, t, hold), Dist(c, q, t))

Between(q, t, b) == IF q <= t THEN q <= b /\ b <= t ELSE q <= b \/ b <= t

\* in is what the m + 1 blocks in use hold, one by one.
IsParts(c, q, t, hold, in, m) ==
    /\ m \in Nat /\ m = Dist(c, q, t) /\ m < c
    /\ Seqs(Values, in, m)
    /\ \A n \in 0..m : /\ in[n] = hold[Place(c, q, n)]
                       /\ Place(c, q, n) \in 0..c - 1
                       /\ Between(q, t, Place(c, q, n))
                       /\ Place(c, q, n) = q <=> n = 0
                       /\ Place(c, q, n) = t <=> n = m

\* They are sequences, and the whole is all of them.
LEMMA RingParts ==
    ASSUME NEW c, NEW q, NEW t, NEW hold, Ring(c, q, t, hold)
    PROVE  \E in, m : /\ IsParts(c, q, t, hold, in, m)
                      /\ Whole(c, q, t, hold) = All(in, m)
                      /\ All(in, m) \in Seq(Values)
<1>1. c \in Nat /\ q \in 0..c - 1 /\ t \in 0..c - 1 /\ hold \in [0..c - 1 -> Seq(Values)]
  BY DEF Ring
<1>2. PICK in, m : in = PartsOf(c, q, t, hold) /\ m = Dist(c, q, t)
  OBVIOUS
<1>3. m \in Nat /\ m < c
  BY <1>1, <1>2 DEF Dist
<1>4. ASSUME NEW n \in 0..m
      PROVE  /\ in[n] = hold[Place(c, q, n)]
             /\ in[n] \in Seq(Values)
             /\ Place(c, q, n) \in 0..c - 1
             /\ Between(q, t, Place(c, q, n))
             /\ Place(c, q, n) = q <=> n = 0
             /\ Place(c, q, n) = t <=> n = m
  <2>1. /\ Place(c, q, n) \in 0..c - 1
        /\ Between(q, t, Place(c, q, n))
        /\ Place(c, q, n) = q <=> n = 0
        /\ Place(c, q, n) = t <=> n = m
    BY <1>1, <1>2, <1>3 DEF Dist, Place, Between
  <2>2. in[n] = hold[Place(c, q, n)]
    BY <1>2 DEF PartsOf
  <2>3. in[n] \in Seq(Values)
    BY <1>1, <2>1, <2>2
  <2> QED
    BY <2>1, <2>2, <2>3
<1>5. Seqs(Values, in, m)
  BY <1>4 DEF Seqs
<1>6. IsParts(c, q, t, hold, in, m)
  BY <1>2, <1>3, <1>4, <1>5 DEF IsParts
<1>7. All(in, m) \in Seq(Values)
  BY <1>3, <1>5, AllSame
<1>8. Whole(c, q, t, hold) = All(in, m)
  BY <1>2 DEF Whole
<1> QED
  BY <1>6, <1>7, <1>8

\* Nothing changes in the blocks in use.
LEMMA WholeSame ==
    ASSUME NEW c, NEW q, NEW t, NEW hold, Ring(c, q, t, hold), NEW hold2,
           \A b \in 0..c - 1 : Between(q, t, b) => hold2[b] = hold[b]
    PROVE  Whole(c, q, t, hold2) = Whole(c, q, t, hold)
<1>1. PICK in, m : IsParts(c, q, t, hold, in, m) /\ Whole(c, q, t, hold) = All(in, m)
  BY RingParts
<1>2. m \in Nat /\ m = Dist(c, q, t) /\ Seqs(Values, in, m)
  BY <1>1 DEF IsParts
<1>3. PICK in2 : in2 = PartsOf(c, q, t, hold2)
  OBVIOUS
<1>4. ASSUME NEW n \in 0..m PROVE in2[n] = in[n]
  <2>1. in2[n] = hold2[Place(c, q, n)]
    BY <1>2, <1>3 DEF PartsOf
  <2>2. /\ in[n] = hold[Place(c, q, n)] /\ Place(c, q, n) \in 0..c - 1
        /\ Between(q, t, Place(c, q, n))
    BY <1>1 DEF IsParts
  <2> QED
    BY <2>1, <2>2
<1>5. \A n \in 0..m : in2[n] = in[n]
  BY <1>4
<1>6. /\ Joined(in, m) \in Seq(Values) /\ All(in, m) \in Seq(Values)
      /\ Joined(in2, m) = Joined(in, m) /\ All(in2, m) = All(in, m)
  BY <1>2, <1>5, AllSame
<1> QED
  BY <1>1, <1>2, <1>3, <1>6 DEF Whole

\* Block t holds one element more, and the others what they held.
Grows(c, t, hold, hold2, e) ==
    /\ e \in Values /\ hold2[t] = Append(hold[t], e)
    /\ \A b \in 0..c - 1 : b # t => hold2[b] = hold[b]

\* An element is appended to the last block.
LEMMA WholeLast ==
    ASSUME NEW c, NEW q, NEW t, NEW hold, Ring(c, q, t, hold), NEW hold2, NEW e,
           Grows(c, t, hold, hold2, e)
    PROVE  Whole(c, q, t, hold2) = Append(Whole(c, q, t, hold), e)
<1>e. /\ e \in Values /\ hold2[t] = Append(hold[t], e)
      /\ \A b \in 0..c - 1 : b # t => hold2[b] = hold[b]
  BY DEF Grows
<1> USE <1>e
<1>1. PICK in, m : IsParts(c, q, t, hold, in, m) /\ Whole(c, q, t, hold) = All(in, m)
  BY RingParts
<1>2. m \in Nat /\ m = Dist(c, q, t) /\ Seqs(Values, in, m)
  BY <1>1 DEF IsParts
<1>3. PICK in2 : in2 = PartsOf(c, q, t, hold2)
  OBVIOUS
<1>4. ASSUME NEW n \in 0..m
      PROVE  /\ n # m => in2[n] = in[n]
             /\ n = m => in2[n] = Append(in[n], e)
  <2>1. in2[n] = hold2[Place(c, q, n)]
    BY <1>2, <1>3 DEF PartsOf
  <2>2. /\ in[n] = hold[Place(c, q, n)] /\ Place(c, q, n) \in 0..c - 1
        /\ Place(c, q, n) = t <=> n = m
    BY <1>1 DEF IsParts
  <2> QED
    BY <2>1, <2>2
<1>5. m \in 0..m
  BY <1>2
<1>6. in2[m] = Append(in[m], e)
  BY <1>4, <1>5
<1>7. \A n \in 0..m : n # m => in2[n] = in[n]
  BY <1>4
<1>8. All(in2, m) = Append(All(in, m), e)
  <2>1. Longer(Values, in, in2, m, e)
    BY <1>2, <1>6, <1>7, <1>e DEF Longer
  <2> QED
    BY <2>1, AllLast
<1> QED
  BY <1>1, <1>2, <1>3, <1>8 DEF Whole

\* A block with one element comes last.
LEMMA WholeNew ==
    ASSUME NEW c, NEW q, NEW t, NEW hold, Ring(c, q, t, hold), NEW e \in Values,
           NEW t2, t2 = After(c, t), t2 # q, hold[t2] = <<e>>
    PROVE  Whole(c, q, t2, hold) = Append(Whole(c, q, t, hold), e)
<1>e. e \in Values
  OBVIOUS
<1>1. PICK in, m : IsParts(c, q, t, hold, in, m) /\ Whole(c, q, t, hold) = All(in, m)
  BY RingParts
<1>2. m \in Nat /\ m = Dist(c, q, t) /\ Seqs(Values, in, m)
  BY <1>1 DEF IsParts
<1>3. PICK in2 : in2 = PartsOf(c, q, t2, hold)
  OBVIOUS
<1>4. Dist(c, q, t2) = m + 1 /\ Place(c, q, m + 1) = t2
  BY <1>2 DEF Ring, Dist, Place, After
<1>5. \A n \in 0..m + 1 : in2[n] = hold[Place(c, q, n)]
  BY <1>3, <1>4 DEF PartsOf
<1>6. \A n \in 0..m : in2[n] = in[n]
  <2>1. \A n \in 0..m : in[n] = hold[Place(c, q, n)] /\ n \in 0..m + 1
    BY <1>1, <1>2 DEF IsParts
  <2> QED
    BY <1>5, <2>1
<1>7. in2[m + 1] = <<e>>
  <2>1. m + 1 \in 0..m + 1
    BY <1>2
  <2> QED
    BY <1>4, <1>5, <2>1
<1>8. All(in2, m + 1) = Append(All(in, m), e)
  <2>1. OneMore(Values, in, in2, m, e)
    BY <1>2, <1>6, <1>7, <1>e DEF OneMore
  <2> QED
    BY <2>1, AllNew
<1> QED
  BY <1>1, <1>3, <1>4, <1>8 DEF Whole

\* The first block, which is empty, is left.
LEMMA WholeDrop ==
    ASSUME NEW c, NEW q, NEW t, NEW hold, Ring(c, q, t, hold), q # t, hold[q] = <<>>,
           NEW q2, q2 = After(c, q)
    PROVE  Whole(c, q2, t, hold) = Whole(c, q, t, hold)
<1>1. PICK in, k : IsParts(c, q, t, hold, in, k) /\ Whole(c, q, t, hold) = All(in, k)
  BY RingParts
<1>2. PICK m : m = Dist(c, q2, t)
  OBVIOUS
<1>3. /\ m \in Nat /\ Dist(c, q, t) = m + 1 /\ Place(c, q, 0) = q
      /\ \A n \in 0..m : Place(c, q2, n) = Place(c, q, n + 1)
  BY <1>2 DEF Ring, Dist, Place, After
<1>4. k = m + 1 /\ Seqs(Values, in, m + 1)
  BY <1>1, <1>3 DEF IsParts
<1>5. PICK in2 : in2 = PartsOf(c, q2, t, hold)
  OBVIOUS
<1>6. \A n \in 0..m : in2[n] = hold[Place(c, q2, n)]
  BY <1>2, <1>5 DEF PartsOf
<1>7. \A n \in 0..m + 1 : in[n] = hold[Place(c, q, n)]
  BY <1>1, <1>4 DEF IsParts
<1>8. \A n \in 0..m : in2[n] = in[n + 1]
  <2>1. \A n \in 0..m : n + 1 \in 0..m + 1
    BY <1>3
  <2> QED
    BY <1>3, <1>6, <1>7, <2>1
<1>9. in[0] = <<>>
  <2>1. 0 \in 0..m + 1
    BY <1>3
  <2> QED
    BY <1>3, <1>7, <2>1
<1>10. All(in2, m) = All(in, m + 1)
  BY <1>3, <1>4, <1>8, <1>9, AllDrop
<1> QED
  BY <1>1, <1>2, <1>4, <1>5, <1>10 DEF Whole

\* The first block is not empty: its first element is the first of the whole, and
\* what is left of the block is what is left of the whole.
LEMMA WholeFirst ==
    ASSUME NEW c, NEW q, NEW t, NEW hold, Ring(c, q, t, hold),
           NEW hold2, Ring(c, q, t, hold2), hold[q] # <<>>,
           \A b \in 0..c - 1 : b # q => hold2[b] = hold[b]
    PROVE  /\ Whole(c, q, t, hold) # <<>>
           /\ Head(Whole(c, q, t, hold)) = Head(hold[q])
           /\ hold2[q] = Tail(hold[q]) =>
                 Whole(c, q, t, hold2) = Tail(Whole(c, q, t, hold))
           /\ hold2[q] # <<>> /\ Tail(hold2[q]) = Tail(hold[q]) =>
                 Tail(Whole(c, q, t, hold2)) = Tail(Whole(c, q, t, hold))
<1>1. PICK in, m : IsParts(c, q, t, hold, in, m) /\ Whole(c, q, t, hold) = All(in, m)
  BY RingParts
<1>2. m \in Nat /\ m = Dist(c, q, t) /\ Seqs(Values, in, m)
  BY <1>1 DEF IsParts
<1>3. PICK in2, m2 : /\ IsParts(c, q, t, hold2, in2, m2)
                     /\ Whole(c, q, t, hold2) = All(in2, m2)
  BY RingParts
<1>4. m2 = m /\ Seqs(Values, in2, m)
  BY <1>2, <1>3 DEF IsParts
<1>5. ASSUME NEW n \in 0..m
      PROVE  /\ n = 0 => in[n] = hold[q] /\ in2[n] = hold2[q]
             /\ n # 0 => in2[n] = in[n]
             /\ in[n] \in Seq(Values)
  <2>1. in2[n] = hold2[Place(c, q, n)]
    BY <1>3, <1>4 DEF IsParts
  <2>2. /\ in[n] = hold[Place(c, q, n)] /\ Place(c, q, n) \in 0..c - 1
        /\ Place(c, q, n) = q <=> n = 0
    BY <1>1 DEF IsParts
  <2>3. in[n] \in Seq(Values)
    BY <1>2 DEF Seqs
  <2> QED
    BY <2>1, <2>2, <2>3
<1>6. 0 \in 0..m
  BY <1>2
<1>7. in[0] = hold[q] /\ in2[0] = hold2[q]
  BY <1>5, <1>6
<1>8. /\ All(in, m) # <<>> /\ Head(All(in, m)) = Head(in[0])
      /\ Tail(All(in, m)) = Then(Tail(in[0]), Joined(in, m))
  BY <1>2, <1>7, AllFirst
<1>9. Joined(in2, m) = Joined(in, m)
  <2>1. ASSUME NEW n \in 1..m PROVE in[n] \in Seq(Values) /\ in2[n] = in[n]
    <3>1. n \in 0..m /\ n # 0
      BY <1>2
    <3> QED
      BY <1>5, <3>1
  <2>2. Same(Values, m, in, in2)
    BY <2>1 DEF Same
  <2>3. /\ Joined(in, m) \in Seq(Values)
        /\ Joined(in2, m) = Joined(in, m)
        /\ Joined(in2, m + 1) = Then(Joined(in, m), in2[m + 1])
    BY <1>2, <2>2, JoinedSteps
  <2> QED
    BY <2>3
<1>10. hold2[q] = Tail(hold[q]) => All(in2, m) = Tail(All(in, m))
  BY <1>7, <1>8, <1>9 DEF All
<1>11. ASSUME hold2[q] # <<>>, Tail(hold2[q]) = Tail(hold[q])
       PROVE  Tail(All(in2, m)) = Tail(All(in, m))
  <2>1. Tail(All(in2, m)) = Then(Tail(in2[0]), Joined(in2, m))
    BY <1>2, <1>4, <1>7, <1>11, AllFirst
  <2> QED
    BY <1>7, <1>8, <1>9, <1>11, <2>1
<1> QED
  BY <1>1, <1>3, <1>4, <1>7, <1>8, <1>10, <1>11

\* What each block holds, from front on to tail; and the contents of the queue.
Hold == [b \in Bs |-> InBlock(b)]

HoldIs(b) ==
    Hold[b] = Slice(ring.slots, blocks[b].front, blocks[b].tail, blocks[b].data)

WholeInv ==
    /\ Ring(ring.count, frontBlock, tailBlock, Hold)
    /\ Contents = Whole(ring.count, frontBlock, tailBlock, Hold)
    /\ Contents \in Seq(Values)
    /\ \A b \in Bs : HoldIs(b)

\* The contents are the whole of what the blocks in use hold.
LEMMA ContentsIsWhole == Typed => WholeInv
<1> SUFFICES ASSUME Typed PROVE WholeInv
  OBVIOUS
<1>1. PICK c, q, t, h, m : /\ c = ring.count /\ q = frontBlock /\ t = tailBlock
                           /\ h = Hold /\ m = Dist(c, q, t)
  OBVIOUS
<1>2. c \in Nat /\ q \in 0..c - 1 /\ t \in 0..c - 1
  BY <1>1 DEF Typed, RingTyped, Bs
<1>3. SlicesInv
  BY BlocksAreSlices
<1>4. \A b \in Bs : h[b] = InBlock(b)
  BY <1>1 DEF Hold
<1>5. \A b \in Bs : HoldIs(b)
  BY <1>1, <1>3, <1>4 DEF HoldIs, SlicesInv
<1>6. Ring(c, q, t, h)
  <2>1. h = [b \in Bs |-> InBlock(b)] /\ \A b \in Bs : InBlock(b) \in Seq(Values)
    BY <1>1, <1>3 DEF Hold, SlicesInv
  <2>2. h \in [Bs -> Seq(Values)]
    BY <2>1
  <2>3. Bs = 0..c - 1
    BY <1>1 DEF Bs
  <2> QED
    BY <1>2, <2>2, <2>3 DEF Ring
<1>7. PartsInv
  BY ContentsIsAll
<1>8. Parts = PartsOf(c, q, t, h)
  <2>1. \A n \in 0..m : Place(c, q, n) \in Bs
    <3>1. /\ Dist(c, q, t) \in Nat
          /\ \A n \in 0..Dist(c, q, t) : Place(c, q, n) \in 0..c - 1
      BY <1>2, Places
    <3> QED
      BY <1>1, <3>1 DEF Bs
  <2>2. \A n \in 0..m : h[Place(c, q, n)] = InBlock(Place(c, q, n))
    BY <1>4, <2>1
  <2>3. PartsOf(c, q, t, h) = [n \in 0..m |-> h[Place(c, q, n)]]
    BY <1>1 DEF PartsOf
  <2>4. Parts = [n \in 0..m |-> InBlock(Place(c, q, n))]
    BY <1>1 DEF Parts, Ahead
  <2> QED
    BY <2>2, <2>3, <2>4
<1>9. Contents = Whole(c, q, t, h) /\ Contents \in Seq(Values)
  BY <1>1, <1>7, <1>8 DEF PartsInv, Whole, Ahead
<1> QED
  BY <1>1, <1>5, <1>6, <1>9 DEF WholeInv

\* The same after a step.
LEMMA ContentsIsWholeNext == (Typed => WholeInv)'
BY ContentsIsWhole, PTL

\* What the parts are before and after a step that leaves the ring as it is.
LEMMA Wholes ==
    ASSUME Typed, Typed', UNCHANGED ring
    PROVE  \E c, s, q, t, h, q2, t2, h2 :
              /\ c = ring.count /\ s = ring.slots /\ q = frontBlock /\ t = tailBlock
              /\ q2 = frontBlock' /\ t2 = tailBlock'
              /\ Ring(c, q, t, h) /\ Contents = Whole(c, q, t, h)
              /\ Ring(c, q2, t2, h2) /\ Contents' = Whole(c, q2, t2, h2)
              /\ h = Hold /\ h2 = Hold'
<1>1. WholeInv
  BY ContentsIsWhole
<1>2. WholeInv'
  BY ContentsIsWholeNext
<1>3. PICK c, s, q, t, h, q2, t2, h2 :
         /\ c = ring.count /\ s = ring.slots /\ q = frontBlock /\ t = tailBlock
         /\ q2 = frontBlock' /\ t2 = tailBlock' /\ h = Hold /\ h2 = Hold'
  OBVIOUS
<1>4. Ring(c, q, t, h) /\ Contents = Whole(c, q, t, h)
  BY <1>1, <1>3 DEF WholeInv
<1>5. Ring(c, q2, t2, h2) /\ Contents' = Whole(c, q2, t2, h2)
  BY <1>2, <1>3 DEF WholeInv
<1> QED
  BY <1>3, <1>4, <1>5

\* A block whose positions stay holds the same, whatever is written at tail.
LEMMA HoldStays ==
    ASSUME Typed, Typed', UNCHANGED ring, NEW b \in Bs,
           UNCHANGED <<blocks[b].front, blocks[b].tail>>,
           \A i \in Slots : i # blocks[b].tail => blocks'[b].data[i] = blocks[b].data[i]
    PROVE  Hold'[b] = Hold[b]
<1>1. PICK s, f, t, data, data2 :
         /\ s = ring.slots /\ f = blocks[b].front /\ t = blocks[b].tail
         /\ data = blocks[b].data /\ data2 = blocks'[b].data
  OBVIOUS
<1>2. Bs' = Bs /\ ring'.slots = s /\ blocks'[b].front = f /\ blocks'[b].tail = t
  BY <1>1 DEF Bs
<1>3. Hold[b] = Slice(s, f, t, data)
  BY <1>1, ContentsIsWhole DEF WholeInv, HoldIs
<1>4. Hold'[b] = Slice(s, f, t, data2)
  BY <1>1, <1>2, ContentsIsWholeNext DEF WholeInv, HoldIs
<1>5. /\ s \in Nat /\ f \in 0..s - 1 /\ t \in 0..s - 1
      /\ data \in [0..s - 1 -> Values] /\ data2 \in [0..s - 1 -> Values]
  <2>1. s \in Nat /\ f \in 0..s - 1 /\ t \in 0..s - 1 /\ data \in [0..s - 1 -> Values]
    BY <1>1, Positions DEF Slots, Values, Typed, RingTyped
  <2>2. blocks'[b] \in BlockRecord'
    BY <1>2 DEF Typed
  <2>3. data2 \in [0..s - 1 -> Values]
    BY <1>1, <1>2, <2>2 DEF BlockRecord, Slots, Values
  <2> QED
    BY <2>1, <2>3
<1>6. \A i \in 0..s - 1 : i # t => data2[i] = data[i]
  BY <1>1 DEF Slots
<1>7. Slice(s, f, t, data2) = Slice(s, f, t, data)
  BY <1>5, <1>6, SliceData
<1> QED
  BY <1>3, <1>4, <1>7

\* A step that changes no block in use but for the slot at its tail, or a copy,
\* leaves the contents as they are.
LEMMA ContentsStay ==
    ASSUME Typed, Typed', UNCHANGED <<ring, frontBlock, tailBlock>>,
           \A b \in Bs : InUse(b) =>
              /\ UNCHANGED <<blocks[b].front, blocks[b].tail>>
              /\ \A i \in Slots : i # blocks[b].tail =>
                                     blocks'[b].data[i] = blocks[b].data[i]
    PROVE  Contents' = Contents
<1>1. PICK c, s, q, t, h, q2, t2, h2 :
         /\ c = ring.count /\ s = ring.slots /\ q = frontBlock /\ t = tailBlock
         /\ q2 = frontBlock' /\ t2 = tailBlock'
         /\ Ring(c, q, t, h) /\ Contents = Whole(c, q, t, h)
         /\ Ring(c, q2, t2, h2) /\ Contents' = Whole(c, q2, t2, h2)
         /\ h = Hold /\ h2 = Hold'
  BY Wholes
<1>2. ASSUME NEW b \in 0..c - 1, Between(q, t, b)
      PROVE  h2[b] = h[b]
  <2>1. b \in Bs /\ InUse(b)
    BY <1>1, <1>2 DEF Bs, InUse, Between
  <2>2. Hold'[b] = Hold[b]
    BY <2>1, HoldStays
  <2> QED
    BY <1>1, <2>2
<1>3. Whole(c, q, t, h2) = Whole(c, q, t, h)
  BY <1>1, <1>2, WholeSame
<1> QED
  BY <1>1, <1>3

-----------------------------------------------------------------------------
(***************************************************************************)
(* What the steps of either thread do to the blocks.                       *)
(***************************************************************************)

\* try_enqueue moves the tail of the block it writes to, in one step, and writes to
\* the slot at tail, in another.
PutEffect ==
    /\ UNCHANGED <<ring, consumerVars>>
    /\ \A b \in Bs : /\ blocks'[b].front = blocks[b].front
                     /\ ppc # "construct" => blocks'[b].data = blocks[b].data
                     /\ ppc # "tail" => blocks'[b].tail = blocks[b].tail
                     /\ b # pblock => /\ blocks'[b].tail = blocks[b].tail
                                      /\ blocks'[b].data = blocks[b].data
                     /\ \A i \in Slots : i # blocks[b].tail =>
                           blocks'[b].data[i] = blocks[b].data[i]
    /\ ppc = "tail" => blocks'[pblock].tail = After(ring.slots, blocks[pblock].tail)
    /\ ppc = "construct" => blocks'[pblock].data[blocks[pblock].tail] = element

\* All its steps do.
LEMMA EnqueueEffect ==
    ASSUME BlockInv, TryEnqueue
    PROVE  PutEffect
<1>0. UNCHANGED <<ring, consumerVars>> /\ Typed /\ blocks \in [Bs -> BlockRecord]
  BY DEF TryEnqueue, TryPut, LookAhead, UseNextBlock, Construct, MoveTail, MoveTailBlock,
         BlockInv, Typed
<1>1. PICK s \in Nat, p \in Bs : s = ring.slots /\ s >= 2 /\ p = pblock
  BY DEF BlockInv, Typed, RingTyped
<1>2. PICK t \in Slots : t = blocks[p].tail
  BY <1>0, Positions DEF Slots
<1>3. CASE LookAhead \/ MoveTailBlock
  <2>1. blocks' = blocks /\ ppc \in {"full", "tailBlock"}
    BY <1>3 DEF LookAhead, MoveTailBlock
  <2> QED
    BY <1>0, <2>1 DEF PutEffect
<1>4. CASE TryPut \/ UseNextBlock
  <2>1. ppc \in {"idle", "advance"} /\ \E b \in Bs : RenewsFront(b)
    <3>1. CASE TryPut
      BY <1>0, <3>1 DEF TryPut, RenewsFront, Typed
    <3>2. CASE UseNextBlock
      BY <1>0, <3>2 DEF UseNextBlock, RenewsFront, Typed
    <3> QED
      BY <1>4, <3>1, <3>2
  <2>2. \A b \in Bs : UNCHANGED <<blocks[b].front, blocks[b].tail, blocks[b].localTail,
                                  blocks[b].data>>
    <3>1. PICK b \in Bs : RenewsFront(b)
      BY <2>1
    <3>2. CursorInv /\ ring' = ring
      BY <1>0 DEF BlockInv
    <3> QED
      BY <1>0, <3>1, <3>2, RenewFront
  <2> QED
    BY <1>0, <2>1, <2>2 DEF PutEffect
<1>5. CASE Construct
  <2>1. ppc = "construct" /\ blocks' = [blocks EXCEPT ![p].data[t] = element]
    BY <1>1, <1>2, <1>5 DEF Construct
  <2>2. PICK v \in Elements \cup {Raw} : v = element
    BY <1>0 DEF Typed
  <2>c. /\ blocks \in [Bs -> BlockRecord]
        /\ blocks' = [blocks EXCEPT ![p].data[t] = v]
    BY <1>0, <2>1, <2>2
  <2>3. /\ blocks' \in [Bs -> BlockRecord]
        /\ Others(p)
        /\ blocks'[p].data[t] = v
        /\ \A j \in Slots \ {t} : blocks'[p].data[j] = blocks[p].data[j]
        /\ UNCHANGED <<blocks[p].front, blocks[p].tail, blocks[p].localFront,
                       blocks[p].localTail>>
    BY <2>c DEF BlockRecord, Others
  <2> QED
    BY <1>0, <1>1, <1>2, <2>1, <2>2, <2>3 DEF PutEffect, Others
<1>6. CASE MoveTail
  <2>1. NextSlot(t) = After(s, t) /\ After(s, t) \in Slots
    BY <1>1, NextIsAfter DEF NextSlot, Slots
  <2>2. ppc = "tail" /\ blocks' = [blocks EXCEPT ![p].tail = After(s, t)]
    BY <1>1, <1>2, <1>6, <2>1 DEF MoveTail
  <2>3. /\ blocks' \in [Bs -> BlockRecord]
        /\ Others(p)
        /\ blocks'[p].tail = After(s, t)
        /\ UNCHANGED <<blocks[p].front, blocks[p].localFront, blocks[p].localTail,
                       blocks[p].data>>
    BY <1>0, <2>1, <2>2, PutTail
  <2> QED
    BY <1>0, <1>1, <1>2, <2>2, <2>3 DEF PutEffect, Others
<1> QED
  BY <1>3, <1>4, <1>5, <1>6 DEF TryEnqueue

\* try_dequeue gives up the slot at front of the front block, in one step, and moves
\* the front, in another.
GetEffect ==
    /\ UNCHANGED <<ring, producerVars>>
    /\ \A b \in Bs : /\ blocks'[b].tail = blocks[b].tail
                     /\ cpc # "take" => blocks'[b].data = blocks[b].data
                     /\ cpc # "front" => blocks'[b].front = blocks[b].front
                     /\ b # frontBlock => /\ blocks'[b].front = blocks[b].front
                                          /\ blocks'[b].data = blocks[b].data
                     /\ \A i \in Slots : i # blocks[b].front =>
                           blocks'[b].data[i] = blocks[b].data[i]
    /\ cpc = "front" =>
          blocks'[frontBlock].front = After(ring.slots, blocks[frontBlock].front)

\* All its steps do.
LEMMA DequeueEffect ==
    ASSUME BlockInv, TryDequeue
    PROVE  GetEffect
<1>0. UNCHANGED <<ring, producerVars>> /\ Typed /\ blocks \in [Bs -> BlockRecord]
  BY DEF TryDequeue, TryGet, CompareTailBlock, LookAgain, ReadNextBlock, MoveFrontBlock,
         Take, MoveFront, BlockInv, Typed
<1>1. PICK s \in Nat, q \in Bs : s = ring.slots /\ s >= 2 /\ q = frontBlock
  BY DEF BlockInv, Typed, RingTyped
<1>2. PICK f \in Slots : f = blocks[q].front
  BY <1>0, Positions DEF Slots
<1>3. CASE CompareTailBlock \/ MoveFrontBlock
  <2>1. blocks' = blocks /\ cpc \in {"empty", "frontBlock"}
    BY <1>3 DEF CompareTailBlock, MoveFrontBlock
  <2> QED
    BY <1>0, <2>1 DEF GetEffect
<1>4. CASE TryGet \/ LookAgain \/ ReadNextBlock
  <2>1. cpc \in {"idle", "again", "next"} /\ \E b \in Bs : RenewsTail(b)
    <3>1. CASE TryGet
      BY <1>0, <1>1, <3>1 DEF TryGet, RenewsTail, Reading
    <3>2. CASE LookAgain
      BY <1>0, <1>1, <3>2 DEF LookAgain, RenewsTail, Reading
    <3>3. CASE ReadNextBlock
      <4>1. NextBlock(frontBlock) \in Bs
        <5>1. ring.count \in Nat /\ frontBlock \in 0..ring.count - 1
          BY <1>0 DEF Typed, RingTyped, Bs
        <5> QED
          BY <5>1, NextIsAfter DEF NextBlock, Bs
      <4> QED
        BY <3>3, <4>1 DEF ReadNextBlock, RenewsTail
    <3> QED
      BY <1>4, <3>1, <3>2, <3>3
  <2>2. \A b \in Bs : UNCHANGED <<blocks[b].front, blocks[b].tail, blocks[b].localFront,
                                  blocks[b].data>>
    <3>1. PICK b \in Bs : RenewsTail(b)
      BY <2>1
    <3>2. CursorInv /\ ring' = ring
      BY <1>0 DEF BlockInv
    <3> QED
      BY <1>0, <3>1, <3>2, RenewTail
  <2> QED
    BY <1>0, <2>1, <2>2 DEF GetEffect
<1>5. CASE Take
  <2>1. cpc = "take" /\ blocks' = [blocks EXCEPT ![q].data[f] = Raw]
    BY <1>1, <1>2, <1>5 DEF Take, Reading
  <2>2. Raw \in Elements \cup {Raw}
    OBVIOUS
  <2>3. /\ blocks' \in [Bs -> BlockRecord]
        /\ Others(q)
        /\ blocks'[q].data[f] = Raw
        /\ \A j \in Slots \ {f} : blocks'[q].data[j] = blocks[q].data[j]
        /\ UNCHANGED <<blocks[q].front, blocks[q].tail, blocks[q].localFront,
                       blocks[q].localTail>>
    BY <1>0, <2>1, <2>2, PutData
  <2> QED
    BY <1>0, <1>1, <1>2, <2>1, <2>3 DEF GetEffect, Others
<1>6. CASE MoveFront
  <2>1. NextSlot(f) = After(s, f) /\ After(s, f) \in Slots
    BY <1>1, NextIsAfter DEF NextSlot, Slots
  <2>2. cpc = "front" /\ blocks' = [blocks EXCEPT ![q].front = After(s, f)]
    BY <1>1, <1>2, <1>6, <2>1 DEF MoveFront
  <2>3. /\ blocks' \in [Bs -> BlockRecord]
        /\ Others(q)
        /\ blocks'[q].front = After(s, f)
        /\ UNCHANGED <<blocks[q].tail, blocks[q].localFront, blocks[q].localTail,
                       blocks[q].data>>
    BY <1>0, <2>1, <2>2, PutFront
  <2> QED
    BY <1>0, <1>1, <1>2, <2>2, <2>3 DEF GetEffect, Others
<1> QED
  BY <1>3, <1>4, <1>5, <1>6 DEF TryDequeue

-----------------------------------------------------------------------------
(***************************************************************************)
(* What else is invariant: the element on its way, and which blocks are    *)
(* full.                                                                   *)
(***************************************************************************)

\* What is at tail, and in a new block, is the element that try_enqueue was given.
ElementInv ==
    /\ ppc = "tail" => blocks[pblock].data[blocks[pblock].tail] = element
    /\ ppc = "tailBlock" => Hold[pblock] = <<element>>

Filled(b) == After(ring.slots, blocks[b].tail) = blocks[b].front

\* The producer has left the tail block for a new one, or is about to.
Leaving ==
    \/ ppc \in {"full", "advance", "tailBlock"}
    \/ ppc \in {"construct", "tail"} /\ pblock # tailBlock

\* It leaves only full blocks behind, and only the consumer takes from the first.
FilledInv ==
    /\ \A b \in Bs : InUse(b) /\ b # frontBlock /\ b # tailBlock => Filled(b)
    /\ Leaving /\ tailBlock # frontBlock => Filled(tailBlock)

\* There is no block left: the queue was full when try_enqueue looked.
FullInv ==
    ppc = "full" /\ After(ring.count, tailBlock) = frontBlock => wasFull

\* One block is large enough, or all but one are together.
SizeInv ==
    /\ ring.maxSize \in Nat
    /\ ring.count = 1 => ring.maxSize < ring.slots
    /\ ring.count # 1 => ring.maxSize <= (ring.count - 1) * (ring.slots - 1)

MoreInv == ElementInv /\ FilledInv /\ FullInv /\ SizeInv

\* When the tail of its block has moved, the block has the element at tail, last.
LEMMA HoldGrows ==
    ASSUME BlockInv, BlockInv', TryEnqueue, ppc = "tail", NEW p \in Bs, p = pblock
    PROVE  Hold'[p] = Append(Hold[p], blocks[p].data[blocks[p].tail])
<1>0. PutEffect /\ Typed /\ Typed'
  BY EnqueueEffect DEF BlockInv
<1>1. PICK s, f, t, data :
         /\ s = ring.slots /\ f = blocks[p].front /\ t = blocks[p].tail
         /\ data = blocks[p].data
  OBVIOUS
<1>2. /\ Bs' = Bs /\ ring'.slots = s /\ blocks'[p].front = f
      /\ blocks'[p].tail = After(s, t) /\ blocks'[p].data = data
  BY <1>0, <1>1 DEF PutEffect, Bs
<1>3. Hold[p] = Slice(s, f, t, data)
  BY <1>0, <1>1, ContentsIsWhole DEF WholeInv, HoldIs
<1>4. Hold'[p] = Slice(s, f, After(s, t), data)
  BY <1>0, <1>1, <1>2, ContentsIsWholeNext DEF WholeInv, HoldIs
<1>5. s \in Nat /\ f \in 0..s - 1 /\ t \in 0..s - 1 /\ data \in [0..s - 1 -> Values]
  BY <1>0, <1>1, Positions DEF Slots, Values, Typed, RingTyped
<1>6. After(s, t) # f
  BY <1>1, RoomToWrite DEF BlockInv
<1>7. Slice(s, f, After(s, t), data) = Append(Slice(s, f, t, data), data[t])
  BY <1>5, <1>6, SliceTail
<1> QED
  BY <1>1, <1>3, <1>4, <1>7

\* A block that holds nothing.
LEMMA HoldEmpty ==
    ASSUME Typed, NEW b \in Bs
    PROVE  Hold[b] = <<>> <=> Empty(b)
<1>1. PICK s, f, t, data :
         /\ s = ring.slots /\ f = blocks[b].front /\ t = blocks[b].tail
         /\ data = blocks[b].data
  OBVIOUS
<1>2. Hold[b] = Slice(s, f, t, data)
  BY <1>1, ContentsIsWhole DEF WholeInv, HoldIs
<1>3. s \in Nat /\ f \in 0..s - 1 /\ t \in 0..s - 1 /\ data \in [0..s - 1 -> Values]
  BY <1>1, Positions DEF Slots, Values, Typed, RingTyped
<1>4. CASE f = t
  BY <1>1, <1>2, <1>3, <1>4, SliceEmpty DEF Empty
<1>5. CASE f # t
  <2>1. Slice(s, f, t, data) # <<>>
    BY <1>3, <1>5, SliceFront
  <2> QED
    BY <1>1, <1>2, <1>5, <2>1 DEF Empty
<1> QED
  BY <1>4, <1>5

\* Either thread keeps ElementInv.
LEMMA ElementPut ==
    ASSUME BlockInv, BlockInv', ElementInv, TryEnqueue
    PROVE  ElementInv'
<1>1. PutEffect
  BY EnqueueEffect
<1>2. CASE Construct
  <2>1. /\ ppc = "construct" /\ ppc' = "tail" /\ pblock' = pblock /\ element' = element
        /\ pblock \in Bs
    BY <1>2 DEF Construct, BlockInv, Typed
  <2>2. /\ blocks'[pblock].data[blocks[pblock].tail] = element
        /\ blocks'[pblock].tail = blocks[pblock].tail
    BY <1>1, <2>1 DEF PutEffect
  <2> QED
    BY <2>1, <2>2 DEF ElementInv
<1>3. CASE ~Construct /\ ~MoveTail
  <2>1. ppc' \notin {"tail", "tailBlock"}
    BY <1>3 DEF TryEnqueue, TryPut, LookAhead, UseNextBlock, MoveTailBlock
  <2> QED
    BY <2>1 DEF ElementInv
<1>4. CASE MoveTail
  <2>1. ppc' # "tail"
    BY <1>4 DEF MoveTail
  <2>2. ASSUME ppc' = "tailBlock" PROVE Hold'[pblock'] = <<element'>>
    <3>1. /\ ppc = "tail" /\ pblock # tailBlock /\ pblock' = pblock /\ element' = element
          /\ pblock \in Bs
      BY <1>4, <2>2 DEF MoveTail, BlockInv, Typed
    <3>2. NewBlock
      BY <3>1 DEF BlockInv, RingInv
    <3>3. Hold[pblock] = <<>>
      BY <3>1, <3>2, NewIsEmpty, HoldEmpty DEF BlockInv
    <3>4. Hold'[pblock] = Append(Hold[pblock], blocks[pblock].data[blocks[pblock].tail])
      BY <3>1, HoldGrows
    <3>5. blocks[pblock].data[blocks[pblock].tail] = element
      BY <3>1 DEF ElementInv
    <3>6. Append(<<>>, element) = <<element>>
      OBVIOUS
    <3> QED
      BY <3>1, <3>3, <3>4, <3>5, <3>6
  <2> QED
    BY <2>1, <2>2 DEF ElementInv
<1> QED
  BY <1>2, <1>3, <1>4

\* The consumer writes to the slot at front, and to no block that is new.
LEMMA ElementGet ==
    ASSUME BlockInv, BlockInv', ElementInv, TryDequeue
    PROVE  ElementInv'
<1>1. GetEffect /\ Typed /\ Typed'
  BY DequeueEffect DEF BlockInv
<1>2. PICK p \in Bs : p = pblock
  BY <1>1 DEF Typed
<1>3. UNCHANGED <<ring, ppc, pblock, element, tailBlock>>
  BY <1>1 DEF GetEffect, producerVars
<1>4. ASSUME ppc = "tail"
      PROVE  blocks'[p].data[blocks'[p].tail] = element
  <2>1. blocks[p].data[blocks[p].tail] = element
    BY <1>2, <1>4 DEF ElementInv
  <2>2. PICK t \in Slots : t = blocks[p].tail /\ t = blocks'[p].tail
    BY <1>1, <1>2, Positions DEF GetEffect, Slots
  <2>3. CASE p # frontBlock \/ cpc # "take"
    BY <1>1, <2>1, <2>2, <2>3 DEF GetEffect
  <2>4. CASE p = frontBlock /\ cpc = "take"
    <3>1. t # blocks[p].front
      BY <2>2, <2>4, ElementToTake DEF BlockInv
    <3>2. blocks'[p].data[t] = blocks[p].data[t]
      BY <1>1, <3>1 DEF GetEffect
    <3> QED
      BY <2>1, <2>2, <3>2
  <2> QED
    BY <2>3, <2>4
<1>5. ASSUME ppc = "tailBlock"
      PROVE  Hold'[p] = <<element>>
  <2>1. p # frontBlock
    BY <1>2, <1>5 DEF BlockInv, RingInv, NewBlock
  <2>2. /\ UNCHANGED <<blocks[p].front, blocks[p].tail>>
        /\ \A i \in Slots : i # blocks[p].tail => blocks'[p].data[i] = blocks[p].data[i]
    BY <1>1, <2>1 DEF GetEffect
  <2>3. Hold'[p] = Hold[p]
    BY <1>1, <1>3, <2>2, HoldStays
  <2> QED
    BY <1>2, <1>5, <2>3 DEF ElementInv
<1> QED
  BY <1>2, <1>3, <1>4, <1>5 DEF ElementInv

\* The producer leaves full blocks behind.
LEMMA FilledPut ==
    ASSUME BlockInv, FilledInv, TryEnqueue
    PROVE  FilledInv'
<1>1. PutEffect /\ Typed
  BY EnqueueEffect DEF BlockInv
<1>2. UNCHANGED <<ring, frontBlock>> /\ Bs' = Bs
  BY <1>1 DEF PutEffect, consumerVars, Bs
<1>3. CASE TryPut
  <2>1. UNCHANGED tailBlock /\ ppc = "idle" /\ pblock' = tailBlock
        /\ ppc' \in {"construct", "full"}
    BY <1>3 DEF TryPut
  <2>2. \A b \in Bs : Filled(b)' <=> Filled(b)
    BY <1>1, <1>2, <2>1 DEF PutEffect, Filled
  <2>3. \A b \in Bs : InUse(b)' <=> InUse(b)
    BY <1>2, <2>1 DEF InUse
  <2>4. ppc' = "full" => Filled(tailBlock)
    <3>1. PICK s \in Nat, p \in Bs : s = ring.slots /\ p = tailBlock
      BY <1>1 DEF Typed, RingTyped
    <3>2. PICK t \in 0..s - 1 : t = blocks[p].tail
      BY <1>1, <3>1, Positions
    <3>3. NextSlot(t) = After(s, t)
      BY <3>1, NextIsAfter DEF NextSlot
    <3>4. ppc' = "full" => NextSlot(t) = blocks[p].front
      BY <1>3, <3>1, <3>2 DEF TryPut
    <3> QED
      BY <3>1, <3>2, <3>3, <3>4 DEF Filled
  <2>5. PICK t \in Bs : t = tailBlock
    BY <1>1 DEF Typed
  <2>6. Leaving' => ppc' = "full"
    BY <2>1 DEF Leaving
  <2>7. \A b \in Bs : InUse(b)' /\ b # frontBlock /\ b # tailBlock => Filled(b)'
    BY <2>2, <2>3 DEF FilledInv
  <2>8. Leaving' => Filled(t)'
    BY <2>2, <2>4, <2>5, <2>6
  <2> QED
    BY <1>2, <2>1, <2>5, <2>7, <2>8 DEF FilledInv, Filled
<1>4. CASE MoveTailBlock
  <2>1. /\ UNCHANGED blocks /\ ppc = "tailBlock" /\ ppc' = "idle" /\ tailBlock' = pblock
        /\ NewBlock
    BY <1>4 DEF MoveTailBlock, BlockInv, RingInv
  <2>2. \A b \in Bs : InUse(b)' <=> InUse(b) \/ b = pblock
    BY <1>1, <1>2, <2>1 DEF Typed, RingTyped, InUse, NewBlock, After, Bs
  <2>3. \A b \in Bs : Filled(b)' <=> Filled(b)
    BY <1>2, <2>1 DEF Filled
  <2>4. tailBlock # frontBlock => Filled(tailBlock)
    BY <2>1 DEF FilledInv, Leaving
  <2>5. \A b \in Bs : InUse(b)' /\ b # frontBlock /\ b # pblock => Filled(b)'
    BY <2>2, <2>3, <2>4 DEF FilledInv
  <2>6. ~Leaving'
    BY <2>1 DEF Leaving
  <2> QED
    BY <1>2, <2>1, <2>5, <2>6 DEF FilledInv
<1>5. CASE ~TryPut /\ ~MoveTailBlock
  <2>1. UNCHANGED tailBlock
    BY <1>5 DEF TryEnqueue, LookAhead, UseNextBlock, Construct, MoveTail
  <2>2. \A b \in Bs : InUse(b)' <=> InUse(b)
    BY <1>2, <2>1 DEF InUse
  <2>3. Leaving' => Leaving
    BY <1>5, <2>1 DEF TryEnqueue, LookAhead, UseNextBlock, Construct, MoveTail, Leaving
  <2>4. \A b \in Bs : b # pblock \/ ppc # "tail" => (Filled(b)' <=> Filled(b))
    BY <1>1, <1>2 DEF PutEffect, Filled
  <2>5. ppc = "tail" => pblock = tailBlock \/ ~InUse(pblock)
    BY <1>1 DEF BlockInv, RingInv, NewBlock, Typed, RingTyped, InUse, After, Bs
  <2>6. \A b \in Bs : InUse(b)' /\ b # frontBlock /\ b # tailBlock => Filled(b)'
    BY <2>2, <2>4, <2>5 DEF FilledInv
  <2>7. PICK t \in Bs : t = tailBlock
    BY <1>1 DEF Typed
  <2>8. Leaving /\ ppc = "tail" => pblock # t
    BY <2>7 DEF Leaving
  <2>9. Leaving' /\ t # frontBlock => Filled(t)'
    BY <2>3, <2>4, <2>7, <2>8 DEF FilledInv
  <2> QED
    BY <1>2, <2>1, <2>6, <2>7, <2>9 DEF FilledInv, Filled
<1> QED
  BY <1>3, <1>4, <1>5

\* The consumer takes from the first block only, and moves on to the next.
LEMMA FilledGet ==
    ASSUME BlockInv, BlockInv', FilledInv, TryDequeue
    PROVE  FilledInv'
<1>1. GetEffect /\ Typed
  BY DequeueEffect DEF BlockInv
<1>2. UNCHANGED <<ring, ppc, pblock, tailBlock>> /\ Bs' = Bs
  BY <1>1 DEF GetEffect, producerVars, Bs
<1>3. Leaving' <=> Leaving
  BY <1>2 DEF Leaving
<1>4. \A b \in Bs : b # frontBlock => (Filled(b)' <=> Filled(b))
  BY <1>1, <1>2 DEF GetEffect, Filled
<1>5. PICK t \in Bs : t = tailBlock
  BY <1>1 DEF Typed
<1>6. CASE MoveFrontBlock
  <2>1. /\ cpc = "frontBlock" /\ frontBlock' = NextBlock(frontBlock)
        /\ frontBlock # tailBlock
    BY <1>6 DEF MoveFrontBlock, BlockInv, RingInv
  <2>2. frontBlock' = After(ring.count, frontBlock)
    <3>1. ring.count \in Nat /\ frontBlock \in 0..ring.count - 1
      BY <1>1 DEF Typed, RingTyped, Bs
    <3> QED
      BY <2>1, <3>1, NextIsAfter DEF NextBlock
  <2>3. \A b \in Bs : InUse(b)' <=> InUse(b) /\ b # frontBlock
    BY <1>1, <1>2, <2>1, <2>2 DEF Typed, RingTyped, InUse, After, Bs
  <2>4. \A b \in Bs : InUse(b)' /\ b # tailBlock => Filled(b)'
    BY <1>4, <2>3 DEF FilledInv
  <2>5. Leaving => Filled(t)'
    BY <1>4, <1>5, <2>1 DEF FilledInv
  <2> QED
    BY <1>2, <1>3, <1>5, <2>4, <2>5 DEF FilledInv, Filled
<1>7. CASE ~MoveFrontBlock
  <2>1. frontBlock' = frontBlock
    BY <1>7 DEF TryDequeue, TryGet, CompareTailBlock, LookAgain, ReadNextBlock, Take,
                MoveFront
  <2>2. \A b \in Bs : InUse(b)' <=> InUse(b)
    BY <1>2, <2>1 DEF InUse
  <2>3. \A b \in Bs : InUse(b)' /\ b # frontBlock /\ b # tailBlock => Filled(b)'
    BY <1>4, <2>2 DEF FilledInv
  <2>4. Leaving /\ t # frontBlock => Filled(t)'
    BY <1>4, <1>5 DEF FilledInv
  <2> QED
    BY <1>2, <1>3, <1>5, <2>1, <2>3, <2>4 DEF FilledInv, Filled
<1> QED
  BY <1>6, <1>7

\* A full block holds all but one of its slots, and no block holds more.
LEMMA HoldLength ==
    ASSUME Typed, NEW b \in Bs
    PROVE  /\ Hold[b] \in Seq(Values) /\ Len(Hold[b]) \in Nat
           /\ Len(Hold[b]) <= ring.slots - 1
           /\ Filled(b) => Len(Hold[b]) = ring.slots - 1
<1>1. PICK s, f, t, data :
         /\ s = ring.slots /\ f = blocks[b].front /\ t = blocks[b].tail
         /\ data = blocks[b].data
  OBVIOUS
<1>2. Hold[b] = Slice(s, f, t, data)
  BY <1>1, ContentsIsWhole DEF WholeInv, HoldIs
<1>3. s \in Nat /\ f \in 0..s - 1 /\ t \in 0..s - 1 /\ data \in [0..s - 1 -> Values]
  BY <1>1, Positions DEF Slots, Values, Typed, RingTyped
<1>4. /\ Slice(s, f, t, data) \in Seq(Values)
      /\ Len(Slice(s, f, t, data)) = Dist(s, f, t)
      /\ Dist(s, f, t) \in Nat
  BY <1>3, SliceType
<1>5. /\ Dist(s, f, t) <= s - 1
      /\ After(s, t) = f => Dist(s, f, t) = s - 1
  BY <1>3 DEF Dist, After
<1> QED
  BY <1>1, <1>2, <1>4, <1>5 DEF Filled

\* Fewer times the same is no more.
LEMMA TimesLeq ==
    ASSUME NEW a \in Nat, NEW b \in Nat, NEW k \in Nat, a <= b
    PROVE  a * k <= b * k
<1>1. PICK d \in Nat : b = a + d
  <2>1. b - a \in Nat /\ b = a + (b - a)
    OBVIOUS
  <2> QED
    BY <2>1
<1>2. (a + d) * k = a * k + d * k /\ a * k \in Nat /\ d * k \in Nat
  OBVIOUS
<1> QED
  BY <1>1, <1>2

\* The length of the whole is that of the first part and that of the rest.
LEMMA AllLength ==
    ASSUME NEW S, NEW m \in Nat, NEW in, Seqs(S, in, m), NEW least \in Nat, NEW most \in Nat,
           \A n \in 1..m : least <= Len(in[n]) /\ Len(in[n]) <= most,
           Len(in[0]) <= most
    PROVE  /\ Len(in[0]) \in Nat /\ Len(All(in, m)) \in Nat
           /\ Len(in[0]) + m * least <= Len(All(in, m))
           /\ Len(All(in, m)) <= (m + 1) * most
<1>1. \A n \in 1..m : in[n] \in Seq(S)
  BY DEF Seqs
<1>2. /\ Len(Joined(in, m)) \in Nat
      /\ m * least <= Len(Joined(in, m))
      /\ Len(Joined(in, m)) <= m * most
  BY <1>1, JoinedLength
<1>3. in[0] \in Seq(S) /\ Joined(in, m) \in Seq(S)
  BY AllSame DEF Seqs
<1>4. Len(in[0]) \in Nat /\ Len(All(in, m)) = Len(in[0]) + Len(Joined(in, m))
  BY <1>3, LenProperties, ConcatProperties DEF All, Then
<1>5. (m + 1) * most = m * most + most /\ m * least \in Nat /\ m * most \in Nat
  OBVIOUS
<1> QED
  BY <1>2, <1>4, <1>5

\* The queue never holds more than all blocks together.
LEMMA ContentsBound ==
    ASSUME Typed
    PROVE  /\ Len(Contents) \in Nat
           /\ Len(Contents) <= ring.count * (ring.slots - 1)
<1>1. PICK c, s, q, t, h : /\ c = ring.count /\ s = ring.slots /\ q = frontBlock
                           /\ t = tailBlock /\ h = Hold
  OBVIOUS
<1>2. Ring(c, q, t, h) /\ Contents = Whole(c, q, t, h)
  BY <1>1, ContentsIsWhole DEF WholeInv
<1>3. PICK in, m : IsParts(c, q, t, h, in, m) /\ Whole(c, q, t, h) = All(in, m)
  BY <1>2, RingParts
<1>4. m \in Nat /\ m < c /\ Seqs(Values, in, m) /\ c \in Nat
  BY <1>2, <1>3 DEF IsParts, Ring
<1>k. PICK k \in Nat : k = s - 1
  BY <1>1 DEF Typed, RingTyped
<1>5. ASSUME NEW n \in 0..m PROVE 0 <= Len(in[n]) /\ Len(in[n]) <= k
  <2>1. in[n] = h[Place(c, q, n)] /\ Place(c, q, n) \in 0..c - 1
    BY <1>3 DEF IsParts
  <2>2. Place(c, q, n) \in Bs
    BY <1>1, <2>1 DEF Bs
  <2>3. Len(Hold[Place(c, q, n)]) \in Nat /\ Len(Hold[Place(c, q, n)]) <= ring.slots - 1
    BY <2>2, HoldLength
  <2> QED
    BY <1>1, <1>k, <2>1, <2>3
<1>6. \A n \in 1..m : n \in 0..m
  OBVIOUS
<1>7. 0 \in 0..m /\ 0 \in Nat
  BY <1>4
<1>8. /\ Len(All(in, m)) \in Nat
      /\ Len(All(in, m)) <= (m + 1) * k
  <2>1. \A n \in 1..m : 0 <= Len(in[n]) /\ Len(in[n]) <= k
    BY <1>5, <1>6
  <2>2. Len(in[0]) <= k
    BY <1>5, <1>7
  <2>3. /\ Len(in[0]) \in Nat /\ Len(All(in, m)) \in Nat
        /\ Len(in[0]) + m * 0 <= Len(All(in, m))
        /\ Len(All(in, m)) <= (m + 1) * k
    BY <1>4, <1>7, <1>k, <2>1, <2>2, AllLength
  <2> QED
    BY <2>3
<1>9. (m + 1) * k <= c * k
  BY <1>4, <1>k, TimesLeq
<1>10. (m + 1) * k \in Nat /\ c * k \in Nat
  BY <1>4, <1>k
<1> QED
  BY <1>1, <1>2, <1>3, <1>8, <1>9, <1>10, <1>k

\* If the tail block is full and the next is the one the consumer reads, the queue
\* holds what it was made for.
LEMMA FullLength ==
    ASSUME BlockInv, FilledInv, SizeInv, Filled(tailBlock),
           After(ring.count, tailBlock) = frontBlock
    PROVE  Len(Contents) >= ring.maxSize
<1>0. Typed /\ RingTyped
  BY DEF BlockInv, Typed
<1>1. PICK c, s, q, t, h : /\ c = ring.count /\ s = ring.slots /\ q = frontBlock
                           /\ t = tailBlock /\ h = Hold
  OBVIOUS
<1>2. Ring(c, q, t, h) /\ Contents = Whole(c, q, t, h)
  BY <1>0, <1>1, ContentsIsWhole DEF WholeInv
<1>3. PICK in, m : IsParts(c, q, t, h, in, m) /\ Whole(c, q, t, h) = All(in, m)
  BY <1>2, RingParts
<1>4. m \in Nat /\ m < c /\ Seqs(Values, in, m) /\ c \in Nat /\ q \in 0..c - 1 /\ t \in 0..c - 1
      /\ m = Dist(c, q, t)
  BY <1>2, <1>3 DEF IsParts, Ring
<1>5. m = c - 1
  BY <1>1, <1>4 DEF Dist, After
<1>k. PICK k \in Nat : k = s - 1
  BY <1>0, <1>1 DEF RingTyped
<1>6. ASSUME NEW n \in 0..m
      PROVE  /\ Len(in[n]) \in Nat
             /\ Len(in[n]) <= k
             /\ n # 0 \/ m = 0 => Len(in[n]) = k
  <2>1. PICK b : b = Place(c, q, n)
    OBVIOUS
  <2>2. /\ in[n] = h[b] /\ b \in 0..c - 1 /\ Between(q, t, b)
        /\ b = q <=> n = 0
        /\ b = t <=> n = m
    BY <1>3, <2>1 DEF IsParts
  <2>3. b \in Bs /\ InUse(b)
    BY <1>1, <2>2 DEF Bs, InUse, Between
  <2>4. /\ Len(Hold[b]) \in Nat
        /\ Len(Hold[b]) <= ring.slots - 1
        /\ Filled(b) => Len(Hold[b]) = ring.slots - 1
    BY <1>0, <2>3, HoldLength
  <2>5. n # 0 \/ m = 0 => Filled(b)
    <3>1. n # 0 \/ m = 0 => b # q \/ b = t
      BY <1>4, <2>2
    <3>2. b # q => Filled(b)
      BY <1>1, <2>3 DEF FilledInv
    <3> QED
      BY <1>1, <3>1, <3>2
  <2> QED
    BY <1>1, <1>k, <2>2, <2>4, <2>5
<1>7. /\ Len(in[0]) \in Nat /\ Len(All(in, m)) \in Nat
      /\ Len(in[0]) + m * k <= Len(All(in, m))
      /\ Len(All(in, m)) <= (m + 1) * k
  <2>1. \A n \in 1..m : n \in 0..m /\ n # 0
    OBVIOUS
  <2>2. \A n \in 1..m : k <= Len(in[n]) /\ Len(in[n]) <= k
    BY <1>6, <2>1, <1>k
  <2>3. 0 \in 0..m
    BY <1>4
  <2>4. Len(in[0]) <= k
    BY <1>6, <2>3
  <2> QED
    BY <1>4, <1>k, <2>2, <2>4, AllLength
<1>8. CASE c = 1
  <2>1. m = 0 /\ 0 \in 0..m
    BY <1>5, <1>8
  <2>2. Len(in[0]) = k
    BY <1>6, <2>1
  <2>3. m * k = 0
    BY <2>1, <1>k
  <2>4. k <= Len(Contents) /\ Len(Contents) \in Nat
    BY <1>2, <1>3, <1>7, <2>2, <2>3, <1>k
  <2>5. ring.maxSize \in Nat /\ ring.maxSize < s
    BY <1>1, <1>8 DEF SizeInv
  <2>6. s \in Nat
    BY <1>0, <1>1 DEF RingTyped
  <2> QED
    BY <1>k, <2>4, <2>5, <2>6
<1>9. CASE c # 1
  <2>1. ring.maxSize \in Nat /\ ring.maxSize <= m * k
    BY <1>1, <1>5, <1>9, <1>k DEF SizeInv
  <2>2. m * k \in Nat
    BY <1>4, <1>k
  <2> QED
    BY <1>2, <1>3, <1>7, <2>1, <2>2
<1> QED
  BY <1>8, <1>9

\* try_enqueue finds no block left only if the queue was full when it looked.
LEMMA FullPut ==
    ASSUME BlockInv, FilledInv, SizeInv, FullInv, TryEnqueue
    PROVE  FullInv'
<1>1. Typed /\ UNCHANGED <<ring, frontBlock>>
  BY EnqueueEffect DEF BlockInv, PutEffect, consumerVars
<1>2. CASE TryPut
  <2> SUFFICES ASSUME ppc' = "full", After(ring.count, tailBlock) = frontBlock
               PROVE  wasFull'
    BY <1>1, <1>2 DEF FullInv, TryPut
  <2>1. PICK s \in Nat, p \in Bs : s = ring.slots /\ p = tailBlock
    BY <1>1 DEF Typed, RingTyped
  <2>2. PICK t \in 0..s - 1 : t = blocks[p].tail
    BY <1>1, <2>1, Positions
  <2>3. NextSlot(t) = After(s, t)
    BY <2>1, NextIsAfter DEF NextSlot
  <2>4. NextSlot(t) = blocks[p].front
    BY <1>2, <2>1, <2>2 DEF TryPut
  <2>5. Filled(tailBlock)
    BY <2>1, <2>2, <2>3, <2>4 DEF Filled
  <2>6. Len(Contents) >= ring.maxSize
    BY <2>5, FullLength
  <2> QED
    BY <1>2, <2>6 DEF TryPut
<1>3. CASE ~TryPut
  <2>1. ppc' # "full"
    BY <1>3 DEF TryEnqueue, LookAhead, UseNextBlock, Construct, MoveTail, MoveTailBlock
  <2> QED
    BY <2>1 DEF FullInv
<1> QED
  BY <1>2, <1>3

\* The consumer does not move on to the block after the tail block.
LEMMA FullGet ==
    ASSUME BlockInv, FullInv, TryDequeue
    PROVE  FullInv'
<1>1. Typed /\ UNCHANGED <<ring, ppc, tailBlock, wasFull>>
  BY DequeueEffect DEF BlockInv, GetEffect, producerVars
<1>2. CASE MoveFrontBlock
  <2>1. PICK c, q, t : c = ring.count /\ q = frontBlock /\ t = tailBlock
    OBVIOUS
  <2>2. c \in Nat /\ q \in 0..c - 1 /\ t \in 0..c - 1
    BY <1>1, <2>1 DEF Typed, RingTyped, Bs
  <2>3. q # t /\ frontBlock' = NextBlock(q)
    BY <1>2, <2>1 DEF MoveFrontBlock, BlockInv, RingInv
  <2>4. frontBlock' = After(c, q)
    BY <2>1, <2>2, <2>3, NextIsAfter DEF NextBlock
  <2>5. After(c, t) # After(c, q)
    BY <2>2, <2>3 DEF After
  <2> QED
    BY <1>1, <2>1, <2>4, <2>5 DEF FullInv
<1>3. CASE ~MoveFrontBlock
  <2>1. frontBlock' = frontBlock
    BY <1>3 DEF TryDequeue, TryGet, CompareTailBlock, LookAgain, ReadNextBlock, Take,
                MoveFront
  <2> QED
    BY <1>1, <2>1 DEF FullInv
<1> QED
  BY <1>2, <1>3

\* The constructor makes blocks enough.
LEMMA SizeInit ==
    ASSUME BlockInit
    PROVE  SizeInv
<1>1. PICK n \in Sizes :
         ring = [maxSize |-> n, count |-> BlockCount(n), slots |-> BlockSize(n)]
  BY DEF BlockInit
<1>2. n \in Nat /\ n >= 1
  BY SizesAssumption
<1>3. MaxBlockSize \in Nat /\ MaxBlockSize >= 2
  BY BlockSizeAssumption
<1>4. CASE OneBlock(n)
  <2>1. ring.count = 1 /\ ring.slots = CeilToPow2(n + 1) /\ ring.maxSize = n
    BY <1>1, <1>4 DEF BlockCount, BlockSize
  <2>2. CeilToPow2(n + 1) \in Nat /\ CeilToPow2(n + 1) > n
    <3>1. n + 1 \in Nat \ {0}
      BY <1>2
    <3>2. PICK p : p = CeilToPow2(n + 1)
      OBVIOUS
    <3>3. p \in Nat /\ p >= n + 1
      BY <3>1, <3>2, CeilToPow2Suffices
    <3> QED
      BY <1>2, <3>2, <3>3
  <2> QED
    BY <1>2, <2>1, <2>2 DEF SizeInv
<1>5. CASE ~OneBlock(n)
  <2>1. PICK d : d = MaxBlockSize - 1
    OBVIOUS
  <2>2. d \in Nat /\ d >= 1
    BY <1>3, <2>1
  <2>3. PICK x : x = n + MaxBlockSize * 2 - 3
    OBVIOUS
  <2>4. x \in Nat /\ x = n - 1 + 2 * d
    BY <1>2, <1>3, <2>1, <2>3
  <2>5. PICK k : k = x \div d
    OBVIOUS
  <2>6. PICK r : r = x % d
    OBVIOUS
  <2>7. k \in Nat /\ r \in Nat /\ r < d /\ x = d * k + r
    BY <2>2, <2>4, <2>5, <2>6
  <2>8. ring.count = k /\ ring.slots = d + 1 /\ ring.maxSize = n
    BY <1>1, <1>3, <1>5, <2>1, <2>3, <2>5 DEF BlockCount, BlockSize
  <2>9. k >= 1
    <3>1. k = 0 => d * k = 0
      BY <2>2
    <3> QED
      BY <1>2, <2>2, <2>4, <2>7, <3>1
  <2>10. (k - 1) * d = d * k - d
    BY <2>2, <2>7
  <2>11. d * k \in Nat
    BY <2>2, <2>7
  <2>12. n <= (k - 1) * d
    BY <1>2, <2>2, <2>4, <2>7, <2>10, <2>11
  <2>13. k # 1
    <3>1. k = 1 => (k - 1) * d = 0
      BY <2>2
    <3> QED
      BY <1>2, <2>12, <3>1
  <2>14. ring.slots - 1 = d
    BY <2>2, <2>8
  <2> QED
    BY <1>2, <2>8, <2>12, <2>13, <2>14 DEF SizeInv
<1> QED
  BY <1>4, <1>5

\* MoreInv holds of a queue that was just made, and every step keeps it.
LEMMA MoreInit == BlockInit => MoreInv
<1> SUFFICES ASSUME BlockInit
             PROVE  MoreInv
  OBVIOUS
<1>1. BlockInv /\ SizeInv
  BY BlockInitInv, SizeInit
<1>2. frontBlock = 0 /\ tailBlock = 0 /\ ppc = "idle"
  BY DEF BlockInit
<1>3. FilledInv
  BY <1>1, <1>2 DEF FilledInv, Leaving, InUse, Bs, BlockInv, Typed, RingTyped
<1> QED
  BY <1>1, <1>2, <1>3 DEF MoreInv, ElementInv, FullInv

\* Steps of either thread keep it.
LEMMA MoreNext ==
    ASSUME BlockInv, BlockInv', MoreInv, [BlockNext]_blockVars
    PROVE  MoreInv'
<1>1. CASE TryEnqueue
  <2>1. ring' = ring
    BY <1>1, EnqueueEffect DEF PutEffect
  <2>2. SizeInv'
    BY <2>1 DEF MoreInv, SizeInv
  <2> QED
    BY <1>1, <2>2, ElementPut, FilledPut, FullPut DEF MoreInv
<1>2. CASE TryDequeue
  <2>1. ring' = ring
    BY <1>2, DequeueEffect DEF GetEffect
  <2>2. SizeInv'
    BY <2>1 DEF MoreInv, SizeInv
  <2> QED
    BY <1>2, <2>2, ElementGet, FilledGet, FullGet DEF MoreInv
<1>3. CASE UNCHANGED blockVars
  <2>1. /\ UNCHANGED <<ring, blocks, frontBlock, tailBlock, ppc, pblock, element, wasFull>>
        /\ Bs' = Bs
    BY <1>3 DEF blockVars, producerVars, consumerVars, Bs
  <2>2. Hold' = Hold
    BY <2>1 DEF Hold, InBlock
  <2>3. ElementInv'
    BY <2>1, <2>2 DEF MoreInv, ElementInv
  <2>4. FilledInv'
    BY <2>1 DEF MoreInv, FilledInv, Leaving, InUse, Filled
  <2>5. FullInv' /\ SizeInv'
    BY <2>1 DEF MoreInv, FullInv, SizeInv
  <2> QED
    BY <2>3, <2>4, <2>5 DEF MoreInv
<1> QED
  BY <1>1, <1>2, <1>3 DEF BlockNext

\* MoreInv holds in every state of every run: what the next two theorems rest on.
THEOREM MoreInvariant == BlockSpec => []MoreInv
<1>1. BlockInv /\ BlockInv' /\ MoreInv /\ [BlockNext]_blockVars => MoreInv'
  BY MoreNext
<1> QED
  BY <1>1, MoreInit, BlockInvariant, PTL DEF BlockSpec

\* For any ring of blocks and any interleaving: try_enqueue returns false only if
\* there were maxSize elements in the queue when it was called, although one block
\* is full and the consumer may have emptied others (readerwriterqueue.h:
\* ReaderWriterQueue(size_t), inner_enqueue).
THEOREM RefusesOnlyIfFullHolds == BlockSpec => RefusesOnlyIfFull
<1>1. BlockInv /\ MoreInv /\ [BlockNext]_blockVars
         => [ppc = "full" /\ ppc' = "idle" => wasFull]_blockVars
  <2> SUFFICES ASSUME BlockInv, MoreInv, BlockNext, ppc = "full", ppc' = "idle"
               PROVE  wasFull
    OBVIOUS
  <2>1. CASE TryDequeue
    <3>1. ppc' = ppc
      BY <2>1, DequeueEffect DEF GetEffect, producerVars
    <3> QED
      BY <3>1
  <2>2. CASE TryEnqueue
    <3>1. NextBlock(tailBlock) = frontBlock
      BY <2>2 DEF TryEnqueue, TryPut, LookAhead, UseNextBlock, Construct, MoveTail,
                  MoveTailBlock
    <3>2. ring.count \in Nat /\ tailBlock \in 0..ring.count - 1
      BY DEF BlockInv, Typed, RingTyped, Bs
    <3>3. After(ring.count, tailBlock) = frontBlock
      BY <3>1, <3>2, NextIsAfter DEF NextBlock
    <3> QED
      BY <3>3 DEF MoreInv, FullInv
  <2> QED
    BY <2>1, <2>2 DEF BlockNext
<1> QED
  BY <1>1, BlockInvariant, MoreInvariant, PTL DEF BlockSpec, RefusesOnlyIfFull

-----------------------------------------------------------------------------
(***************************************************************************)
(* The blocks implement the bounded queue.                                 *)
(***************************************************************************)

\* A step of try_enqueue leaves the contents, or makes its element visible.
LEMMA PutContents ==
    ASSUME BlockInv, BlockInv', ElementInv, TryEnqueue
    PROVE  Contents' = Contents \/ Contents' = Append(Contents, element)
<1>1. PutEffect /\ Typed /\ Typed' /\ ring' = ring /\ frontBlock' = frontBlock
  BY EnqueueEffect DEF BlockInv, PutEffect, consumerVars
<1>2. PICK c, s, q, t, h, q2, t2, h2 :
         /\ c = ring.count /\ s = ring.slots /\ q = frontBlock /\ t = tailBlock
         /\ q2 = frontBlock' /\ t2 = tailBlock'
         /\ Ring(c, q, t, h) /\ Contents = Whole(c, q, t, h)
         /\ Ring(c, q2, t2, h2) /\ Contents' = Whole(c, q2, t2, h2)
         /\ h = Hold /\ h2 = Hold'
  BY <1>1, Wholes
<1>e. PICK e \in Values : e = element
  BY <1>1 DEF Typed, Values
<1>3. CASE MoveTail /\ pblock = tailBlock
  <2>1. ppc = "tail" /\ t2 = t /\ q2 = q /\ t \in Bs
    BY <1>1, <1>2, <1>3 DEF MoveTail, Typed
  <2>2. h2[t] = Append(h[t], e)
    <3>1. Hold'[t] = Append(Hold[t], blocks[t].data[blocks[t].tail])
      BY <1>2, <1>3, <2>1, HoldGrows
    <3>2. blocks[t].data[blocks[t].tail] = e
      BY <1>2, <1>3, <1>e, <2>1 DEF ElementInv
    <3> QED
      BY <1>2, <3>1, <3>2
  <2>3. ASSUME NEW b \in 0..c - 1, b # t PROVE h2[b] = h[b]
    <3>1. b \in Bs /\ b # pblock
      BY <1>2, <1>3, <2>3 DEF Bs
    <3>2. /\ UNCHANGED <<blocks[b].front, blocks[b].tail>>
          /\ \A i \in Slots : i # blocks[b].tail => blocks'[b].data[i] = blocks[b].data[i]
      BY <1>1, <3>1 DEF PutEffect
    <3>3. Hold'[b] = Hold[b]
      BY <1>1, <3>1, <3>2, HoldStays
    <3> QED
      BY <1>2, <3>3
  <2>4. e \in Values
    OBVIOUS
  <2>5. Whole(c, q, t, h2) = Append(Whole(c, q, t, h), e)
    <3>1. Grows(c, t, h, h2, e)
      BY <2>2, <2>3, <2>4 DEF Grows
    <3> QED
      BY <1>2, <3>1, WholeLast
  <2> QED
    BY <1>2, <1>e, <2>1, <2>5
<1>4. CASE MoveTailBlock
  <2>1. /\ ppc = "tailBlock" /\ UNCHANGED blocks /\ tailBlock' = pblock /\ NewBlock
    BY <1>4 DEF MoveTailBlock, BlockInv, RingInv
  <2>2. t2 = After(c, t) /\ t2 # q /\ q2 = q
    BY <1>1, <1>2, <2>1 DEF NewBlock
  <2>3. Hold' = Hold
    BY <1>1, <2>1 DEF Hold, InBlock, Bs
  <2>4. h2 = h /\ h[t2] = <<e>>
    BY <1>2, <1>e, <2>1, <2>3 DEF ElementInv
  <2>5. e \in Values
    OBVIOUS
  <2>6. Whole(c, q, t2, h) = Append(Whole(c, q, t, h), e)
    BY <1>2, <2>2, <2>4, <2>5, WholeNew
  <2> QED
    BY <1>2, <1>e, <2>2, <2>4, <2>6
<1>5. CASE ~(MoveTail /\ pblock = tailBlock) /\ ~MoveTailBlock
  <2>1. tailBlock' = tailBlock
    BY <1>5 DEF TryEnqueue, TryPut, LookAhead, UseNextBlock, Construct, MoveTail
  <2>2. ppc = "tail" => MoveTail
    BY <1>5 DEF TryEnqueue, TryPut, LookAhead, UseNextBlock, Construct, MoveTail
  <2>3. ppc = "tail" => ~InUse(pblock)
    <3>1. ppc = "tail" => NewBlock
      BY <1>5, <2>2 DEF BlockInv, RingInv
    <3> QED
      BY <1>1, <3>1 DEF Typed, RingTyped, NewBlock, InUse, After, Bs
  <2>4. \A b \in Bs : InUse(b) =>
           /\ UNCHANGED <<blocks[b].front, blocks[b].tail>>
           /\ \A i \in Slots : i # blocks[b].tail =>
                                  blocks'[b].data[i] = blocks[b].data[i]
    BY <1>1, <2>3 DEF PutEffect
  <2>5. Contents' = Contents
    BY <1>1, <2>1, <2>4, ContentsStay
  <2> QED
    BY <2>5
<1> QED
  BY <1>3, <1>4, <1>5

\* A step of try_dequeue at the front block that takes or gives up a slot.
LEMMA FirstBlock ==
    ASSUME BlockInv, BlockInv', TryDequeue, cpc \in {"take", "front"}, NEW q \in Bs,
           q = frontBlock
    PROVE  /\ Hold[q] # <<>> /\ Head(Hold[q]) = blocks[q].data[blocks[q].front]
           /\ cpc = "front" => Hold'[q] = Tail(Hold[q])
           /\ cpc = "take" => Hold'[q] # <<>> /\ Tail(Hold'[q]) = Tail(Hold[q])
<1>0. GetEffect /\ Typed /\ Typed'
  BY DequeueEffect DEF BlockInv
<1>1. PICK s, f, t, data, f2, data2 :
         /\ s = ring.slots /\ f = blocks[q].front /\ t = blocks[q].tail
         /\ data = blocks[q].data /\ f2 = blocks'[q].front /\ data2 = blocks'[q].data
  OBVIOUS
<1>2. Bs' = Bs /\ ring'.slots = s /\ blocks'[q].tail = t
  BY <1>0, <1>1 DEF GetEffect, Bs
<1>3. Hold[q] = Slice(s, f, t, data)
  BY <1>0, <1>1, ContentsIsWhole DEF WholeInv, HoldIs
<1>4. Hold'[q] = Slice(s, f2, t, data2)
  BY <1>0, <1>1, <1>2, ContentsIsWholeNext DEF WholeInv, HoldIs
<1>5. /\ s \in Nat /\ f \in 0..s - 1 /\ t \in 0..s - 1
      /\ data \in [0..s - 1 -> Values] /\ data2 \in [0..s - 1 -> Values]
  <2>1. s \in Nat /\ f \in 0..s - 1 /\ t \in 0..s - 1 /\ data \in [0..s - 1 -> Values]
    BY <1>0, <1>1, Positions DEF Slots, Values, Typed, RingTyped
  <2>2. blocks'[q] \in BlockRecord'
    BY <1>0, <1>2 DEF Typed
  <2>3. data2 \in [0..s - 1 -> Values]
    BY <1>1, <1>2, <2>2 DEF BlockRecord, Slots, Values
  <2> QED
    BY <2>1, <2>3
<1>6. f # t
  BY <1>0, <1>1, ElementToTake DEF BlockInv
<1>7. /\ Slice(s, f, t, data) # <<>>
      /\ Head(Slice(s, f, t, data)) = data[f]
      /\ Tail(Slice(s, f, t, data)) = Slice(s, After(s, f), t, data)
  BY <1>5, <1>6, SliceFront
<1>8. ASSUME cpc = "front"
      PROVE  Hold'[q] = Tail(Hold[q])
  <2>1. f2 = After(s, f) /\ data2 = data
    BY <1>0, <1>1, <1>8 DEF GetEffect
  <2> QED
    BY <1>3, <1>4, <1>7, <2>1
<1>9. ASSUME cpc = "take"
      PROVE  Hold'[q] # <<>> /\ Tail(Hold'[q]) = Tail(Hold[q])
  <2>1. f2 = f /\ \A i \in 0..s - 1 : i # f => data2[i] = data[i]
    BY <1>0, <1>1, <1>9 DEF GetEffect, Slots
  <2>2. Tail(Slice(s, f, t, data2)) = Tail(Slice(s, f, t, data))
    BY <1>5, <1>6, <2>1, SliceData
  <2>3. Slice(s, f, t, data2) # <<>>
    BY <1>5, <1>6, SliceFront
  <2> QED
    BY <1>3, <1>4, <2>1, <2>2, <2>3
<1> QED
  BY <1>1, <1>3, <1>7, <1>8, <1>9

\* There is a first element while try_dequeue takes it or gives it up.
LEMMA TakesFirst ==
    ASSUME Typed, CursorInv, cpc \in {"take", "front"}
    PROVE  Contents # <<>>
<1>1. PICK c, s, q, t, h : /\ c = ring.count /\ s = ring.slots /\ q = frontBlock
                           /\ t = tailBlock /\ h = Hold
  OBVIOUS
<1>2. Ring(c, q, t, h) /\ Contents = Whole(c, q, t, h)
  BY <1>1, ContentsIsWhole DEF WholeInv
<1>3. q \in Bs /\ ~Empty(q)
  BY <1>1, ElementToTake DEF Typed, Empty
<1>4. h[q] # <<>>
  BY <1>1, <1>3, HoldEmpty
<1>5. /\ Whole(c, q, t, h) # <<>>
      /\ Head(Whole(c, q, t, h)) = Head(h[q])
      /\ h[q] = Tail(h[q]) => Whole(c, q, t, h) = Tail(Whole(c, q, t, h))
      /\ h[q] # <<>> /\ Tail(h[q]) = Tail(h[q]) =>
            Tail(Whole(c, q, t, h)) = Tail(Whole(c, q, t, h))
  BY <1>2, <1>4, WholeFirst
<1> QED
  BY <1>2, <1>5

\* A step of try_dequeue leaves the contents, takes the first element, or removes it.
LEMMA GetContents ==
    ASSUME BlockInv, BlockInv', TryDequeue
    PROVE  /\ cpc \notin {"take", "front"} => Contents' = Contents
           /\ cpc \in {"take", "front"} => Contents # <<>>
           /\ cpc = "take" => /\ blocks[frontBlock].data[blocks[frontBlock].front]
                                    = Head(Contents)
                              /\ Tail(Contents') = Tail(Contents)
           /\ cpc = "front" => Contents' = Tail(Contents)
<1>1. GetEffect /\ Typed /\ Typed' /\ ring' = ring /\ tailBlock' = tailBlock
  BY DequeueEffect DEF BlockInv, GetEffect, producerVars
<1>2. PICK c, s, q, t, h, q2, t2, h2 :
         /\ c = ring.count /\ s = ring.slots /\ q = frontBlock /\ t = tailBlock
         /\ q2 = frontBlock' /\ t2 = tailBlock'
         /\ Ring(c, q, t, h) /\ Contents = Whole(c, q, t, h)
         /\ Ring(c, q2, t2, h2) /\ Contents' = Whole(c, q2, t2, h2)
         /\ h = Hold /\ h2 = Hold'
  BY <1>1, Wholes
<1>3. q \in Bs
  BY <1>1, <1>2 DEF Typed
<1>4. ASSUME cpc \in {"take", "front"}
      PROVE  /\ Contents # <<>> /\ Head(Contents) = Head(h[q])
             /\ h2[q] = Tail(h[q]) => Contents' = Tail(Contents)
             /\ h2[q] # <<>> /\ Tail(h2[q]) = Tail(h[q]) => Tail(Contents') = Tail(Contents)
             /\ Head(h[q]) = blocks[q].data[blocks[q].front]
             /\ cpc = "front" => h2[q] = Tail(h[q])
             /\ cpc = "take" => h2[q] # <<>> /\ Tail(h2[q]) = Tail(h[q])
  <2>1. q2 = q /\ t2 = t
    BY <1>1, <1>2, <1>4 DEF TryDequeue, TryGet, CompareTailBlock, LookAgain, ReadNextBlock,
                            MoveFrontBlock, Take, MoveFront
  <2>2. /\ Hold[q] # <<>> /\ Head(Hold[q]) = blocks[q].data[blocks[q].front]
        /\ cpc = "front" => Hold'[q] = Tail(Hold[q])
        /\ cpc = "take" => Hold'[q] # <<>> /\ Tail(Hold'[q]) = Tail(Hold[q])
    BY <1>2, <1>3, <1>4, FirstBlock
  <2>3. ASSUME NEW b \in 0..c - 1, b # q PROVE h2[b] = h[b]
    <3>1. b \in Bs /\ b # frontBlock
      BY <1>2, <2>3 DEF Bs
    <3>2. /\ UNCHANGED <<blocks[b].front, blocks[b].tail>>
          /\ \A i \in Slots : i # blocks[b].tail => blocks'[b].data[i] = blocks[b].data[i]
      BY <1>1, <3>1 DEF GetEffect
    <3>3. Hold'[b] = Hold[b]
      BY <1>1, <3>1, <3>2, HoldStays
    <3> QED
      BY <1>2, <3>3
  <2>4. h[q] # <<>>
    BY <1>2, <2>2
  <2>5. /\ Whole(c, q, t, h) # <<>>
        /\ Head(Whole(c, q, t, h)) = Head(h[q])
        /\ h2[q] = Tail(h[q]) => Whole(c, q, t, h2) = Tail(Whole(c, q, t, h))
        /\ h2[q] # <<>> /\ Tail(h2[q]) = Tail(h[q]) =>
              Tail(Whole(c, q, t, h2)) = Tail(Whole(c, q, t, h))
    <3>1. Ring(c, q, t, h) /\ Ring(c, q, t, h2)
      BY <1>2, <2>1
    <3> QED
      BY <2>3, <2>4, <3>1, WholeFirst
  <2> QED
    BY <1>2, <2>1, <2>2, <2>5
<1>5. ASSUME cpc \notin {"take", "front"}
      PROVE  Contents' = Contents
  <2>1. CASE MoveFrontBlock
    <3>1. /\ cpc = "frontBlock" /\ UNCHANGED blocks /\ frontBlock' = NextBlock(frontBlock)
          /\ frontBlock # tailBlock /\ Empty(frontBlock)
      BY <2>1 DEF MoveFrontBlock, BlockInv, RingInv
    <3>2. Hold' = Hold
      BY <1>1, <3>1 DEF Hold, InBlock, Bs
    <3>3. h[q] = <<>>
      BY <1>1, <1>2, <1>3, <3>1, HoldEmpty
    <3>4. q2 = After(c, q)
      <4>1. c \in Nat /\ q \in 0..c - 1
        BY <1>2 DEF Ring
      <4> QED
        BY <1>2, <3>1, <4>1, NextIsAfter DEF NextBlock
    <3>5. h2 = h /\ t2 = t /\ q # t
      BY <1>1, <1>2, <3>1, <3>2
    <3>6. Whole(c, q2, t, h) = Whole(c, q, t, h)
      BY <1>2, <3>3, <3>4, <3>5, WholeDrop
    <3> QED
      BY <1>2, <3>5, <3>6
  <2>2. CASE ~MoveFrontBlock
    <3>1. frontBlock' = frontBlock
      BY <2>2 DEF TryDequeue, TryGet, CompareTailBlock, LookAgain, ReadNextBlock, Take,
                  MoveFront
    <3>2. \A b \in Bs : InUse(b) =>
             /\ UNCHANGED <<blocks[b].front, blocks[b].tail>>
             /\ \A i \in Slots : i # blocks[b].tail =>
                                    blocks'[b].data[i] = blocks[b].data[i]
      BY <1>1, <1>5 DEF GetEffect
    <3> QED
      BY <1>1, <3>1, <3>2, ContentsStay
  <2> QED
    BY <2>1, <2>2
<1> QED
  BY <1>2, <1>4, <1>5

\* The mapped variable.
FifoNow == IF cpc = "front" THEN Tail(Contents) ELSE Contents

\* At first the queue is empty.
LEMMA FifoInit == BlockInit => FifoNow = <<>> /\ result \in Elements
<1> SUFFICES ASSUME BlockInit
             PROVE  FifoNow = <<>> /\ result \in Elements
  OBVIOUS
<1>1. BlockInv
  BY BlockInitInv
<1>2. cpc = "idle" /\ frontBlock = 0 /\ tailBlock = 0
  BY DEF BlockInit
<1>3. Empty(frontBlock)
  <2>1. 0 \in Bs
    BY <1>1 DEF BlockInv, Typed, RingTyped, Bs
  <2>2. blocks[0] = Block(ring.slots)
    BY <2>1 DEF BlockInit, Bs
  <2> QED
    BY <1>2, <2>2 DEF Empty, Block
<1>4. Contents = <<>>
  BY <1>1, <1>2, <1>3, OneEmptyBlock DEF BlockInv
<1> QED
  BY <1>1, <1>2, <1>4 DEF FifoNow, BlockInv, Typed

\* What is appended to a sequence comes after what is left when its first element is
\* taken.
LEMMA TailAppend ==
    ASSUME NEW S, NEW a \in Seq(S), a # <<>>, NEW e \in S
    PROVE  /\ Tail(Append(a, e)) = Append(Tail(a), e)
           /\ Len(Tail(a)) = Len(a) - 1 /\ Len(a) \in Nat
<1>1. PICK c : c = <<e>>
  OBVIOUS
<1>2. c \in Seq(S)
  BY <1>1
<1>3. Tail(a) \in Seq(S) /\ Len(Tail(a)) = Len(a) - 1 /\ Len(a) \in Nat
  BY HeadTailProperties, LenProperties
<1>4. Append(a, e) = Then(a, c) /\ Append(Tail(a), e) = Then(Tail(a), c)
  BY <1>1, <1>3, AppendIsConcat DEF Then
<1>5. /\ Then(a, c) # <<>>
      /\ Head(Then(a, c)) = Head(a)
      /\ Tail(Then(a, c)) = Then(Tail(a), c)
  BY <1>2, ThenTail
<1> QED
  BY <1>3, <1>4, <1>5

\* Every step of the blocks is one of the bounded queue, or leaves it as it is.
LEMMA FifoStep ==
    ASSUME BlockInv, BlockInv', MoreInv, BlockNext
    PROVE  \/ /\ FifoNow # <<>> /\ result' = Head(FifoNow) /\ FifoNow' = Tail(FifoNow)
           \/ /\ Len(FifoNow) < ring.count * (ring.slots - 1)
              /\ element \in Elements
              /\ FifoNow' = Append(FifoNow, element) /\ result' = result
           \/ FifoNow' = FifoNow /\ result' = result
<1>1. Typed /\ Typed' /\ ElementInv /\ element \in Elements /\ element \in Values
  BY DEF BlockInv, Typed, MoreInv, Values
<1>2. Contents \in Seq(Values) /\ Contents' \in Seq(Values)
  <2>1. WholeInv
    BY <1>1, ContentsIsWhole
  <2>2. WholeInv'
    BY <1>1, ContentsIsWholeNext
  <2> QED
    BY <2>1, <2>2 DEF WholeInv
<1>3. CASE TryEnqueue
  <2>1. UNCHANGED <<ring, cpc, result>>
    BY <1>3, EnqueueEffect DEF PutEffect, consumerVars
  <2>2. CASE Contents' = Contents
    BY <2>1, <2>2 DEF FifoNow
  <2>3. CASE Contents' = Append(Contents, element)
    <3>1. PICK a, e, m : a = Contents /\ e = element /\ m = ring.count * (ring.slots - 1)
      OBVIOUS
    <3>2. a \in Seq(Values) /\ e \in Values /\ m \in Nat
      BY <1>1, <1>2, <3>1 DEF Typed, RingTyped
    <3>3. Len(a) \in Nat /\ Len(a) < m
      <4>1. Len(Contents)' \in Nat /\ Len(Contents)' <= m
        <5>1. (Typed => /\ Len(Contents) \in Nat
                        /\ Len(Contents) <= ring.count * (ring.slots - 1))'
          BY ContentsBound, PTL
        <5> QED
          BY <1>1, <2>1, <3>1, <5>1
      <4>2. Len(Append(a, e)) = Len(a) + 1 /\ Len(a) \in Nat
        BY <3>2, AppendProperties, LenProperties
      <4> QED
        BY <2>3, <3>1, <3>2, <4>1, <4>2
    <3>4. CASE cpc = "front"
      <4>1. a # <<>>
        BY <1>1, <3>1, <3>4, TakesFirst DEF BlockInv
      <4>2. /\ Tail(Append(a, e)) = Append(Tail(a), e)
            /\ Len(Tail(a)) = Len(a) - 1 /\ Len(a) \in Nat
        BY <3>2, <4>1, TailAppend
      <4>3. FifoNow = Tail(a) /\ FifoNow' = Append(Tail(a), e)
        BY <2>1, <2>3, <3>1, <3>4, <4>2 DEF FifoNow
      <4>4. Len(Tail(a)) < m
        BY <3>2, <3>3, <4>2
      <4> QED
        BY <1>1, <2>1, <3>1, <4>3, <4>4
    <3>5. CASE cpc # "front"
      <4>1. FifoNow = a /\ FifoNow' = Append(a, e)
        BY <2>1, <2>3, <3>1, <3>5 DEF FifoNow
      <4> QED
        BY <1>1, <2>1, <3>1, <3>3, <4>1
    <3> QED
      BY <3>4, <3>5
  <2> QED
    BY <1>1, <1>3, <2>2, <2>3, PutContents
<1>4. CASE TryDequeue
  <2>1. /\ cpc \notin {"take", "front"} => Contents' = Contents
        /\ cpc \in {"take", "front"} => Contents # <<>>
        /\ cpc = "take" => /\ blocks[frontBlock].data[blocks[frontBlock].front]
                                 = Head(Contents)
                           /\ Tail(Contents') = Tail(Contents)
        /\ cpc = "front" => Contents' = Tail(Contents)
    BY <1>4, GetContents
  <2>2. CASE Take
    <3>1. /\ cpc = "take" /\ cpc' = "front"
          /\ result' = blocks[frontBlock].data[blocks[frontBlock].front]
      BY <2>2 DEF Take, Reading
    <3> QED
      BY <2>1, <3>1 DEF FifoNow
  <2>3. CASE MoveFront
    <3>1. cpc = "front" /\ cpc' = "idle" /\ result' = result
      BY <2>3 DEF MoveFront
    <3> QED
      BY <2>1, <3>1 DEF FifoNow
  <2>4. CASE ~Take /\ ~MoveFront
    <3>1. cpc \notin {"take", "front"} /\ cpc' # "front" /\ result' = result
      BY <1>4, <2>4 DEF TryDequeue, TryGet, CompareTailBlock, LookAgain, ReadNextBlock,
                        MoveFrontBlock
    <3> QED
      BY <2>1, <3>1 DEF FifoNow
  <2> QED
    BY <2>2, <2>3, <2>4
<1> QED
  BY <1>3, <1>4 DEF BlockNext

\* For any ring of blocks and any interleaving of the two threads, every run of the
\* blocks is a run of a bounded first in, first out queue: an element goes in, at the
\* end and while there is room, with the step that makes it visible to the consumer,
\* and out, from the front, with the step that reads it; no other step of either
\* thread shows (readerwriterqueue.h: inner_enqueue, try_dequeue).
THEOREM BlocksImplementFifo == BlockSpec => Fifo!Spec
<1>1. BlockInit => FifoNow = <<>> /\ result \in Elements
  BY FifoInit
<1>2. BlockInv /\ BlockInv' /\ MoreInv /\ [BlockNext]_blockVars
         => [Fifo!Next]_(Fifo!vars)
  <2> SUFFICES ASSUME BlockInv, BlockInv', MoreInv, [BlockNext]_blockVars
               PROVE  [Fifo!Next]_(Fifo!vars)
    OBVIOUS
  <2>1. CASE BlockNext
    <3>1. \/ /\ FifoNow # <<>> /\ result' = Head(FifoNow) /\ FifoNow' = Tail(FifoNow)
          \/ /\ Len(FifoNow) < ring.count * (ring.slots - 1)
             /\ element \in Elements
             /\ FifoNow' = Append(FifoNow, element) /\ result' = result
          \/ FifoNow' = FifoNow /\ result' = result
      BY <2>1, FifoStep
    <3>2. CASE FifoNow # <<>> /\ result' = Head(FifoNow) /\ FifoNow' = Tail(FifoNow)
      BY <3>2 DEF Fifo!Next, Fifo!Get, FifoNow
    <3>3. CASE /\ Len(FifoNow) < ring.count * (ring.slots - 1)
               /\ element \in Elements
               /\ FifoNow' = Append(FifoNow, element) /\ result' = result
      <4>1. Fifo!Put(element)
        BY <3>3 DEF Fifo!Put, FifoNow
      <4> QED
        BY <3>3, <4>1 DEF Fifo!Next
    <3>4. CASE FifoNow' = FifoNow /\ result' = result
      BY <3>4 DEF Fifo!vars, FifoNow
    <3> QED
      BY <3>1, <3>2, <3>3, <3>4
  <2>2. CASE UNCHANGED blockVars
    BY <2>2 DEF blockVars, producerVars, consumerVars, Fifo!vars, Contents, InBlock
  <2> QED
    BY <2>1, <2>2
<1>3. FifoNow = <<>> /\ result \in Elements
         => (IF cpc = "front" THEN Tail(Contents) ELSE Contents) = <<>> /\ result \in Elements
  BY DEF FifoNow
<1> QED
  BY <1>1, <1>2, <1>3, BlockInvariant, MoreInvariant, PTL DEF BlockSpec, Fifo!Spec
=============================================================================
