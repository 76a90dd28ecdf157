------------------------- MODULE StreamSocketsProofs -------------------------
(***************************************************************************)
(* Proofs about StreamSockets: the vector of descriptors stays ascending,  *)
(* whatever the two threads do to it at the same time, and a descriptor is *)
(* the connection of one consumer for ever.                                *)
(***************************************************************************)
EXTENDS StreamSockets, SequenceTheorems, TLAPS

\* A vector of descriptors of the first k connections.  It starts at FirstFd, so
\* the one at i is at least the i-th.
Vector(v, k) ==
    /\ v \in Seq(Int)
    /\ Len(v) <= k
    /\ \A i \in DOMAIN v : v[i] \in FirstFd + i - 1..FirstFd + k - 1
    /\ \A i, j \in DOMAIN v : i < j => v[i] < v[j]

\* The connections whose push_back is done.
Settled == Len(accepted) - (IF pushing = NoFd THEN 0 ELSE 1)

\* SocketTypeOK, without the index, which is not inductive: the descriptor that is
\* being pushed is greater than those in the vector, and what the vector was when
\* push_back began was such a vector too, and no shorter than it is now.
SocketsInv ==
    /\ peer \in [Peers -> {"away", "open", "closed"}]
    /\ accepted \in Seq(Peers)
    /\ \A i \in DOMAIN accepted : peer[accepted[i]] # "away"
    /\ \A i, j \in DOMAIN accepted : accepted[i] = accepted[j] => i = j
    /\ pushing # NoFd => pushing = FirstFd + Len(accepted) - 1 /\ Len(accepted) >= 1
    /\ Vector(socket_fds, Settled)
    /\ pushing # NoFd => Vector(before, Settled) /\ Len(socket_fds) <= Len(before)
    /\ races \in Nat

Descriptor(i) == FirstFd - 1 + i
-----------------------------------------------------------------------------
(***************************************************************************)
(* The vector.                                                             *)
(***************************************************************************)

\* A piece of a vector.
LEMMA Piece ==
    ASSUME NEW n \in Nat, NEW v \in Seq(Int), Len(v) = n,
           NEW m \in Nat, NEW l \in Nat, 1 <= m, m <= l + 1, l <= n
    PROVE  /\ SubSeq(v, m, l) \in Seq(Int)
           /\ Len(SubSeq(v, m, l)) = l - m + 1
           /\ \A k \in 1..l - m + 1 : SubSeq(v, m, l)[k] = v[m + k - 1]
<1>1. \A k \in m..l : v[k] \in Int
  OBVIOUS
<1>2. /\ SubSeq(v, m, l) \in Seq(Int)
      /\ Len(SubSeq(v, m, l)) = IF m <= l THEN l - m + 1 ELSE 0
      /\ \A k \in 1..l - m + 1 : SubSeq(v, m, l)[k] = v[m + k - 1]
  BY <1>1, SubSeqProperties
<1>3. (IF m <= l THEN l - m + 1 ELSE 0) = l - m + 1
  OBVIOUS
<1> QED
  BY <1>2, <1>3

\* What is left when the element at i goes.
LEMMA RemoveAtIs ==
    ASSUME NEW n \in Nat, NEW v \in Seq(Int), Len(v) = n, NEW i \in 1..n
    PROVE  /\ RemoveAt(v, i) \in Seq(Int)
           /\ Len(RemoveAt(v, i)) = n - 1
           /\ \A k \in 1..n - 1 : RemoveAt(v, i)[k] = IF k < i THEN v[k] ELSE v[k + 1]
<1>a. PICK a : a = SubSeq(v, 1, i - 1)
  OBVIOUS
<1>b. PICK b : b = SubSeq(v, i + 1, n)
  OBVIOUS
<1>1. a \in Seq(Int) /\ Len(a) = i - 1 - 1 + 1 /\ \A k \in 1..i - 1 - 1 + 1 : a[k] = v[1 + k - 1]
  BY <1>a, Piece
<1>2. b \in Seq(Int) /\ Len(b) = n - (i + 1) + 1
        /\ \A k \in 1..n - (i + 1) + 1 : b[k] = v[(i + 1) + k - 1]
  BY <1>b, Piece
<1>c. PICK la \in Nat, lb \in Nat : la = i - 1 /\ lb = n - i
  OBVIOUS
<1>3. Len(a) = la /\ \A k \in 1..la : a[k] = v[k]
  BY <1>1, <1>c
<1>4. Len(b) = lb /\ \A k \in 1..lb : b[k] = v[i + k]
  BY <1>2, <1>c
<1>w. PICK w : w = a \o b
  OBVIOUS
<1>5. w \in Seq(Int) /\ Len(w) = la + lb
        /\ \A k \in 1..la + lb : w[k] = IF k <= la THEN a[k] ELSE b[k - la]
  <2>1. a \in Seq(Int) /\ b \in Seq(Int) /\ Len(a) = la /\ Len(b) = lb
    BY <1>1, <1>2, <1>3, <1>4
  <2>2. /\ a \o b \in Seq(Int)
        /\ Len(a \o b) = Len(a) + Len(b)
        /\ \A k \in 1..Len(a) + Len(b) :
              (a \o b)[k] = IF k <= Len(a) THEN a[k] ELSE b[k - Len(a)]
    BY <2>1, ConcatProperties, Zenon
  <2> QED
    BY <2>1, <2>2, <1>w, Zenon
<1>6. la + lb = n - 1
  BY <1>c
<1>7. ASSUME NEW k \in 1..n - 1
      PROVE  w[k] = IF k < i THEN v[k] ELSE v[k + 1]
  <2>1. w[k] = IF k <= la THEN a[k] ELSE b[k - la]
    BY <1>5, <1>6
  <2>2. CASE k < i
    <3>1. k <= la /\ k \in 1..la
      BY <1>c, <2>2
    <3> QED
      BY <1>3, <2>1, <2>2, <3>1
  <2>3. CASE ~(k < i)
    <3>1. ~(k <= la) /\ k - la \in 1..lb /\ i + (k - la) = k + 1
      BY <1>c, <2>3
    <3> QED
      BY <1>4, <2>1, <2>3, <3>1
  <2> QED
    BY <2>2, <2>3
<1>8. RemoveAt(v, i) = w
  BY <1>a, <1>b, <1>w DEF RemoveAt
<1> QED
  BY <1>5, <1>6, <1>7, <1>8

\* A vector stays one when an element is removed.
LEMMA VectorRemove ==
    ASSUME NEW k \in Nat, NEW v, Vector(v, k), NEW i \in DOMAIN v
    PROVE  Vector(RemoveAt(v, i), k) /\ Len(RemoveAt(v, i)) < Len(v)
<1> PICK w : w = RemoveAt(v, i)
  OBVIOUS
<1> PICK n : n = Len(v)
  OBVIOUS
<1>1. v \in Seq(Int) /\ n \in Nat /\ i \in 1..n /\ DOMAIN v = 1..n /\ n <= k
  BY DEF Vector
<1>2. /\ w \in Seq(Int)
      /\ Len(w) = n - 1
      /\ \A j \in 1..n - 1 : w[j] = IF j < i THEN v[j] ELSE v[j + 1]
  BY <1>1, RemoveAtIs
<1>3. DOMAIN w = 1..n - 1
  BY <1>1, <1>2
<1> DEFINE From(j) == IF j < i THEN j ELSE j + 1
<1>4. \A j \in 1..n - 1 : From(j) \in 1..n /\ w[j] = v[From(j)]
  BY <1>1, <1>2, SMTT(30)
<1>5. \A j, l \in 1..n - 1 : j < l => From(j) < From(l)
  BY <1>1
<1> HIDE DEF From
<1>6. \A j \in 1..n - 1 : w[j] \in FirstFd + j - 1..FirstFd + k - 1
  <2>1. \A x \in 1..n : v[x] \in FirstFd + x - 1..FirstFd + k - 1
    BY <1>1 DEF Vector
  <2>2. \A j \in 1..n - 1 : From(j) >= j
    BY DEF From
  <2>3. FirstFd \in Nat
    BY FirstFdAssumption
  <2> QED
    BY <1>1, <1>4, <2>1, <2>2, <2>3, SMTT(30)
<1>7. \A j, l \in 1..n - 1 : j < l => w[j] < w[l]
  <2>1. \A x, y \in 1..n : x < y => v[x] < v[y]
    BY <1>1 DEF Vector
  <2> QED
    BY <1>4, <1>5, <2>1
<1>8. Len(w) <= k /\ Len(w) < Len(v)
  BY <1>1, <1>2
<1> QED
  BY <1>2, <1>3, <1>6, <1>7, <1>8 DEF Vector

\* A vector stays one when the descriptor of the next connection is appended.
LEMMA VectorAppend ==
    ASSUME NEW k \in Nat, NEW v, Vector(v, k)
    PROVE  Vector(Append(v, FirstFd + k), k + 1)
<1>1. PICK w : w = Append(v, FirstFd + k)
  OBVIOUS
<1>2. v \in Seq(Int) /\ Len(v) \in Nat /\ FirstFd \in Nat
  BY FirstFdAssumption DEF Vector
<1>3. w \in Seq(Int) /\ Len(w) = Len(v) + 1
  BY <1>1, <1>2
<1>4. /\ \A i \in DOMAIN v : w[i] = v[i]
      /\ w[Len(v) + 1] = FirstFd + k
      /\ DOMAIN w = 1..Len(v) + 1 /\ DOMAIN v = 1..Len(v)
  BY <1>1, <1>2
<1>5. \A i \in DOMAIN w : w[i] \in FirstFd + i - 1..FirstFd + (k + 1) - 1
  BY <1>2, <1>4, SMTT(30) DEF Vector
<1>6. ASSUME NEW i \in DOMAIN w, NEW j \in DOMAIN w, i < j
      PROVE  w[i] < w[j]
  <2>1. i \in DOMAIN v
    BY <1>2, <1>4, <1>6
  <2>2. CASE j \in DOMAIN v
    BY <1>4, <1>6, <2>1, <2>2 DEF Vector
  <2>3. CASE j = Len(v) + 1
    BY <1>2, <1>4, <2>1, <2>3 DEF Vector
  <2> QED
    BY <1>2, <1>4, <2>2, <2>3
<1>7. Len(w) <= k + 1
  BY <1>2, <1>3 DEF Vector
<1> QED
  BY <1>1, <1>3, <1>5, <1>6, <1>7 DEF Vector

\* A vector of k connections is one of more.
LEMMA VectorMore ==
    ASSUME NEW k \in Nat, NEW m \in Nat, k <= m, NEW v, Vector(v, k)
    PROVE  Vector(v, m)
<1>1. FirstFd \in Nat
  BY FirstFdAssumption
<1> QED
  BY <1>1 DEF Vector

\* Its elements are descriptors.
LEMMA VectorRange ==
    ASSUME NEW k \in Nat, NEW v, Vector(v, k), NEW i \in DOMAIN v
    PROVE  v[i] \in FirstFd..FirstFd + k - 1
<1>1. i \in Nat /\ i >= 1 /\ FirstFd \in Nat
  BY FirstFdAssumption DEF Vector
<1>2. v[i] \in FirstFd + i - 1..FirstFd + k - 1
  BY DEF Vector
<1> QED
  BY <1>1, <1>2

\* No descriptor is in a vector twice.
LEMMA OnceInVector ==
    ASSUME NEW k, NEW v, Vector(v, k), NEW i \in DOMAIN v, NEW j \in DOMAIN v,
           v[i] = v[j]
    PROVE  i = j
<1>1. i \in Nat /\ j \in Nat /\ v[i] \in Int
  BY DEF Vector
<1> QED
  BY <1>1, SMTT(30) DEF Vector
-----------------------------------------------------------------------------
(***************************************************************************)
(* Descriptors.                                                            *)
(***************************************************************************)

\* A consumer that was accepted has the descriptor of its place among them.
LEMMA FdOfIs ==
    ASSUME SocketsInv, NEW i \in DOMAIN accepted, NEW c, accepted[i] = c
    PROVE  Accepted(c) /\ FdOf(c) = Descriptor(i)
<1>1. \A j \in DOMAIN accepted : accepted[j] = c => j = i
  BY DEF SocketsInv
<1>2. (CHOOSE j \in DOMAIN accepted : accepted[j] = c) = i
  BY <1>1
<1> QED
  BY <1>2 DEF Accepted, FdOf, Descriptor

\* One descriptor, one consumer.
LEMMA FdOfDiffers ==
    ASSUME SocketsInv, NEW c, NEW d, Accepted(c), Accepted(d), FdOf(c) = FdOf(d)
    PROVE  c = d
<1>1. PICK i \in DOMAIN accepted : accepted[i] = c
  BY DEF Accepted
<1>2. PICK j \in DOMAIN accepted : accepted[j] = d
  BY DEF Accepted
<1>3. Descriptor(i) = Descriptor(j)
  BY <1>1, <1>2, FdOfIs
<1>4. i \in Nat /\ j \in Nat /\ FirstFd \in Nat
  BY FirstFdAssumption DEF SocketsInv
<1>5. i = j
  BY <1>3, <1>4 DEF Descriptor
<1> QED
  BY <1>1, <1>2, <1>5

\* Descriptors are numbers from FirstFd on, one for each connection.
LEMMA FdOfRange ==
    ASSUME SocketsInv, NEW c, Accepted(c)
    PROVE  FdOf(c) \in FirstFd..FirstFd + Len(accepted) - 1
<1>1. PICK i \in DOMAIN accepted : accepted[i] = c
  BY DEF Accepted
<1>2. FdOf(c) = Descriptor(i)
  BY <1>1, FdOfIs
<1>3. i \in 1..Len(accepted) /\ Len(accepted) \in Nat /\ FirstFd \in Nat
  BY FirstFdAssumption DEF SocketsInv
<1> QED
  BY <1>2, <1>3 DEF Descriptor

\* Each of those numbers is the descriptor of a consumer that was accepted.
LEMMA FdIsOfSome ==
    ASSUME SocketsInv, NEW fd \in FirstFd..FirstFd + Len(accepted) - 1
    PROVE  \E c \in Peers : Accepted(c) /\ FdOf(c) = fd
<1>1. Len(accepted) \in Nat /\ FirstFd \in Nat
  BY FirstFdAssumption DEF SocketsInv
<1>2. PICK i : i = fd - FirstFd + 1
  OBVIOUS
<1>3. i \in 1..Len(accepted) /\ Descriptor(i) = fd
  BY <1>1, <1>2 DEF Descriptor
<1>4. i \in DOMAIN accepted /\ accepted[i] \in Peers
  BY <1>3 DEF SocketsInv
<1> QED
  BY <1>3, <1>4, FdOfIs
-----------------------------------------------------------------------------
(***************************************************************************)
(* The steps.                                                              *)
(***************************************************************************)

\* The number of settled connections.
LEMMA SettledIs ==
    ASSUME SocketsInv
    PROVE  /\ Len(accepted) \in Nat /\ Settled \in Nat
           /\ pushing = NoFd => Settled = Len(accepted)
           /\ pushing # NoFd => Settled = Len(accepted) - 1 /\ pushing = FirstFd + Settled
<1>1. FirstFd \in Nat /\ Len(accepted) \in Nat
  BY FirstFdAssumption DEF SocketsInv
<1> QED
  BY <1>1 DEF SocketsInv, Settled

\* At the start there is no connection.
LEMMA SocketInitInv == SocketInit => SocketsInv
<1> SUFFICES ASSUME SocketInit PROVE SocketsInv
  OBVIOUS
<1>1. Vector(<<>>, 0)
  BY DEF Vector
<1>2. Settled = 0
  BY DEF SocketInit, Settled
<1> QED
  BY <1>1, <1>2 DEF SocketInit, SocketsInv

\* A step that leaves the connections, the vector and the push_back alone.
LEMMA SocketsKept ==
    ASSUME SocketsInv, UNCHANGED <<vectorVars, peer, accepted>>, races' \in Nat
    PROVE  SocketsInv'
BY DEF SocketsInv, Settled, vectorVars

\* A consumer connects or goes away.
LEMMA PeerStep ==
    ASSUME SocketsInv, NEW c \in Peers, Connect(c) \/ Close(c)
    PROVE  SocketsInv'
<1>1. UNCHANGED <<socket_fds, pushing, before, accepted, races>>
  BY DEF Connect, Close, vectorVars
<1>2. peer' \in [Peers -> {"away", "open", "closed"}]
  BY DEF Connect, Close, SocketsInv
<1>3. \A d \in Peers : peer[d] # "away" => peer'[d] # "away"
  BY DEF Connect, Close, SocketsInv
<1>4. \A i \in DOMAIN accepted : accepted[i] \in Peers
  BY DEF SocketsInv
<1>5. \A i \in DOMAIN accepted : peer'[accepted[i]] # "away"
  BY <1>3, <1>4 DEF SocketsInv
<1>6. Settled' = Settled
  BY <1>1 DEF Settled
<1> QED
  BY <1>1, <1>2, <1>5, <1>6 DEF SocketsInv

\* A connection is accepted.
LEMMA AcceptStep ==
    ASSUME SocketsInv, NEW c \in Peers, AcceptFd(c)
    PROVE  SocketsInv'
<1>a. PICK n : n = Len(accepted)
  OBVIOUS
<1>1. /\ pushing = NoFd /\ peer[c] # "away" /\ ~Accepted(c)
      /\ accepted' = Append(accepted, c)
      /\ pushing' = FirstFd + n
      /\ before' = socket_fds
      /\ UNCHANGED <<peer, socket_fds, races>>
  BY <1>a DEF AcceptFd
<1>2. accepted \in Seq(Peers) /\ n \in Nat /\ FirstFd \in Nat /\ FirstFd >= 1
  BY <1>a, FirstFdAssumption DEF SocketsInv
<1>3. /\ accepted' \in Seq(Peers)
      /\ Len(accepted') = n + 1
      /\ DOMAIN accepted = 1..n /\ DOMAIN accepted' = 1..n + 1
      /\ \A i \in 1..n : accepted'[i] = accepted[i]
      /\ accepted'[n + 1] = c
  BY <1>a, <1>1, <1>2
<1>4. \A i \in DOMAIN accepted' : peer'[accepted'[i]] # "away"
  BY <1>1, <1>2, <1>3 DEF SocketsInv
<1>5. \A i, j \in DOMAIN accepted' : accepted'[i] = accepted'[j] => i = j
  <2>1. \A i \in 1..n : accepted[i] # c
    BY <1>1, <1>3 DEF Accepted
  <2> QED
    BY <1>2, <1>3, <2>1 DEF SocketsInv
<1>6. Settled' = n /\ Settled = n /\ pushing' # NoFd
  BY <1>a, <1>1, <1>2, <1>3 DEF Settled, NoFd
<1>7. Vector(socket_fds, n)
  BY <1>6 DEF SocketsInv
<1>8. Len(socket_fds) \in Nat
  BY <1>7 DEF Vector
<1>9. pushing' = FirstFd + Len(accepted') - 1 /\ Len(accepted') >= 1
  BY <1>1, <1>2, <1>3
<1> QED
  BY <1>1, <1>3, <1>4, <1>5, <1>6, <1>7, <1>8, <1>9 DEF SocketsInv

\* push_back is done: the vector is one of one connection more, whatever it was
\* that was overwritten.
LEMMA PushBackVector ==
    ASSUME SocketsInv, PushBack
    PROVE  /\ Vector(socket_fds', Len(accepted))
           /\ Len(socket_fds') >= Len(socket_fds)
           /\ socket_fds = before => socket_fds' = Append(socket_fds, pushing)
           /\ Settled' = Len(accepted)
           /\ races' \in Nat /\ races <= races' /\ (socket_fds # before => races' # 0)
           /\ races' = 0 => socket_fds' = Append(socket_fds, pushing)
<1>a. PICK k : k = Settled
  OBVIOUS
<1>1. /\ pushing # NoFd /\ pushing' = NoFd
      /\ \/ socket_fds' = Append(socket_fds, pushing)
         \/ socket_fds # before /\ socket_fds' \in {Append(before, pushing), socket_fds}
      /\ races' = races + (IF socket_fds # before THEN 1 ELSE 0)
      /\ UNCHANGED <<peer, accepted>>
  BY DEF PushBack
<1>2. k \in Nat /\ Len(accepted) = k + 1 /\ pushing = FirstFd + k
  BY <1>a, <1>1, SettledIs
<1>3. Vector(socket_fds, k) /\ Vector(before, k) /\ Len(socket_fds) <= Len(before)
  BY <1>a, <1>1 DEF SocketsInv
<1>4. Vector(Append(socket_fds, pushing), k + 1) /\ Vector(Append(before, pushing), k + 1)
  BY <1>2, <1>3, VectorAppend
<1>5. Vector(socket_fds, k + 1)
  BY <1>2, <1>3, VectorMore
<1>6. Vector(socket_fds', Len(accepted))
  BY <1>1, <1>2, <1>4, <1>5
<1>7. Len(socket_fds') >= Len(socket_fds)
  <2>1. /\ Len(Append(socket_fds, pushing)) = Len(socket_fds) + 1
        /\ Len(Append(before, pushing)) = Len(before) + 1
        /\ Len(socket_fds) \in Nat /\ Len(before) \in Nat
    BY <1>3 DEF Vector
  <2> QED
    BY <1>1, <1>3, <2>1
<1>8. races \in Nat
  BY DEF SocketsInv
<1> QED
  BY <1>1, <1>6, <1>7, <1>8 DEF Settled

\* PushBack keeps SocketsInv.
LEMMA PushBackStep ==
    ASSUME SocketsInv, PushBack
    PROVE  SocketsInv'
<1>1. pushing' = NoFd /\ UNCHANGED <<peer, accepted>>
  BY DEF PushBack
<1>2. Vector(socket_fds', Len(accepted)) /\ Settled' = Len(accepted) /\ races' \in Nat
  BY PushBackVector
<1> QED
  BY <1>1, <1>2 DEF SocketsInv

\* remove_fd keeps it: also while the other thread is in its push_back.
LEMMA RemoveStep ==
    ASSUME SocketsInv, NEW fd, remove_fd(fd), UNCHANGED <<pushing, before, peer, accepted>>,
           races' \in Nat
    PROVE  SocketsInv'
<1>a. PICK k : k = Settled
  OBVIOUS
<1>1. k \in Nat /\ Settled' = k
  BY <1>a, SettledIs DEF Settled
<1>2. Vector(socket_fds, k) /\ Len(socket_fds) \in Nat
  BY <1>a DEF SocketsInv, Vector
<1>3. Vector(socket_fds', k) /\ Len(socket_fds') \in Nat /\ Len(socket_fds') <= Len(socket_fds)
  <2>1. CASE UNCHANGED socket_fds
    BY <1>2, <2>1
  <2>2. CASE \E i \in DOMAIN socket_fds : socket_fds' = RemoveAt(socket_fds, i)
    <3>1. PICK i \in DOMAIN socket_fds : socket_fds' = RemoveAt(socket_fds, i)
      BY <2>2
    <3>2. Vector(socket_fds', k) /\ Len(socket_fds') < Len(socket_fds)
      BY <1>1, <1>2, <3>1, VectorRemove
    <3>3. Len(socket_fds') \in Nat
      BY <3>2 DEF Vector
    <3> QED
      BY <1>2, <3>2, <3>3
  <2> QED
    BY <2>1, <2>2 DEF remove_fd
<1>4. pushing # NoFd => Vector(before, k) /\ Len(before) \in Nat /\ Len(socket_fds) <= Len(before)
  BY <1>a DEF SocketsInv, Vector
<1>5. pushing # NoFd => Len(socket_fds') <= Len(before)
  BY <1>2, <1>3, <1>4
<1> QED
  BY <1>a, <1>1, <1>3, <1>4, <1>5 DEF SocketsInv

\* Reading the vector only counts.
LEMMA ReadFdRaces ==
    ASSUME races \in Nat, NEW i, NEW fd, ReadFd(i, fd)
    PROVE  races' \in Nat /\ races <= races' /\ (races' = 0 => fd = socket_fds[i + 1])
BY DEF ReadFd
-----------------------------------------------------------------------------
(***************************************************************************)
(* What stays as it is.                                                    *)
(***************************************************************************)

\* A consumer keeps its descriptor.
LEMMA FdOfStays ==
    ASSUME SocketsInv, NEW d \in Peers, AcceptFd(d), NEW c, Accepted(c)
    PROVE  Accepted(c)' /\ FdOf(c)' = FdOf(c)
<1>1. SocketsInv'
  BY AcceptStep
<1>2. PICK i \in DOMAIN accepted : accepted[i] = c
  BY DEF Accepted
<1>3. accepted' = Append(accepted, d) /\ accepted \in Seq(Peers)
  BY DEF AcceptFd, SocketsInv
<1>4. i \in DOMAIN accepted' /\ accepted'[i] = c
  BY <1>2, <1>3
<1>5. FdOf(c) = Descriptor(i)
  BY <1>2, FdOfIs
<1>6. \A j \in DOMAIN accepted' : accepted'[j] = c => j = i
  BY <1>1, <1>4 DEF SocketsInv
<1>7. (CHOOSE j \in DOMAIN accepted' : accepted'[j] = c) = i
  BY <1>4, <1>6
<1>8. FdOf(c)' = Descriptor(i)
  BY <1>7 DEF FdOf, Descriptor
<1> QED
  BY <1>4, <1>5, <1>8 DEF Accepted

\* The consumer that is accepted gets a descriptor nobody had.
LEMMA FdOfNew ==
    ASSUME SocketsInv, NEW d \in Peers, AcceptFd(d)
    PROVE  /\ FdOf(d)' = FirstFd + Len(accepted)
           /\ \A c : Accepted(c)' => Accepted(c) \/ c = d
<1>1. SocketsInv'
  BY AcceptStep
<1>a. PICK n : n = Len(accepted)
  OBVIOUS
<1>2. accepted' = Append(accepted, d) /\ accepted \in Seq(Peers) /\ n \in Nat /\ FirstFd \in Nat
  BY <1>a, FirstFdAssumption DEF AcceptFd, SocketsInv
<1>3. DOMAIN accepted' = 1..n + 1 /\ accepted'[n + 1] = d
        /\ DOMAIN accepted = 1..n /\ \A i \in 1..n : accepted'[i] = accepted[i]
  BY <1>a, <1>2
<1>4. \A j \in DOMAIN accepted' : accepted'[j] = d => j = n + 1
  BY <1>1, <1>2, <1>3 DEF SocketsInv
<1>5. (CHOOSE j \in DOMAIN accepted' : accepted'[j] = d) = n + 1
  BY <1>2, <1>3, <1>4
<1>6. FdOf(d)' = FirstFd - 1 + (n + 1)
  BY <1>5 DEF FdOf
<1>7. \A c : Accepted(c)' => Accepted(c) \/ c = d
  BY <1>2, <1>3 DEF Accepted
<1> QED
  BY <1>a, <1>2, <1>6, <1>7

\* The sockets' steps that are not the sending thread's.
OthersStep == Accepting \/ \E c \in Peers : Connect(c) \/ Close(c)

\* Nobody comes to a descriptor later, and nobody comes back.
LEMMA NobodyNew ==
    ASSUME SocketsInv, OthersStep, NEW fd \in FirstFd..FirstFd + Len(accepted) - 1,
           NEW c \in Peers, Reaches(fd, c)'
    PROVE  Reaches(fd, c)
<1>1. Accepted(c)' /\ FdOf(c)' = fd /\ peer'[c] = "open"
  BY DEF Reaches
<1>2. CASE PushBack
  <2>1. UNCHANGED <<accepted, peer>>
    BY <1>2 DEF PushBack
  <2> QED
    BY <1>1, <2>1 DEF Reaches, Accepted, FdOf
<1>3. CASE \E d \in Peers : AcceptFd(d)
  <2>1. PICK d \in Peers : AcceptFd(d)
    BY <1>3
  <2>2. peer' = peer
    BY <2>1 DEF AcceptFd
  <2>3. CASE Accepted(c)
    BY <1>1, <2>1, <2>2, <2>3, FdOfStays DEF Reaches
  <2>4. CASE ~Accepted(c)
    <3>1. fd = FirstFd + Len(accepted)
      BY <1>1, <2>1, <2>4, FdOfNew
    <3>2. Len(accepted) \in Nat /\ FirstFd \in Nat
      BY FirstFdAssumption DEF SocketsInv
    <3> QED
      BY <3>1, <3>2
  <2> QED
    BY <2>3, <2>4
<1>4. CASE \E d \in Peers : Connect(d) \/ Close(d)
  <2>1. accepted' = accepted
    BY <1>4 DEF Connect, Close
  <2>2. Accepted(c) /\ FdOf(c) = fd
    BY <1>1, <2>1 DEF Accepted, FdOf
  <2>3. peer[c] # "away"
    BY <2>2 DEF Accepted, SocketsInv
  <2>4. peer[c] = "open"
    BY <1>1, <1>4, <2>3 DEF Connect, Close, SocketsInv
  <2> QED
    BY <2>2, <2>4 DEF Reaches
<1> QED
  BY <1>2, <1>3, <1>4 DEF OthersStep, Accepting

\* Once a write to a descriptor may fail, it may fail for ever.
LEMMA MayFailStays ==
    ASSUME SocketsInv, OthersStep, NEW fd \in FirstFd..FirstFd + Len(accepted) - 1,
           MayFail(fd)
    PROVE  MayFail(fd)'
BY NobodyNew DEF MayFail

\* The others' steps keep SocketsInv, and leave an element of the vector where it
\* is unless the threads met.
LEMMA OthersInv ==
    ASSUME SocketsInv, OthersStep
    PROVE  /\ SocketsInv'
           /\ races <= races'
           /\ Len(socket_fds') >= Len(socket_fds)
           /\ Len(accepted') >= Len(accepted)
           /\ UNCHANGED socket_fds \/ races' # 0 \/ (PushBack /\ socket_fds' = Append(socket_fds, pushing))
<1>0. races \in Nat /\ Len(socket_fds) \in Nat /\ Len(accepted) \in Nat
  BY DEF SocketsInv, Vector
<1>1. CASE PushBack
  <2>1. Len(socket_fds') >= Len(socket_fds) /\ races <= races'
        /\ (races' = 0 => socket_fds' = Append(socket_fds, pushing))
    BY <1>1, PushBackVector
  <2>2. accepted' = accepted
    BY <1>1 DEF PushBack
  <2> QED
    BY <1>0, <1>1, <2>1, <2>2, PushBackStep
<1>2. CASE \E d \in Peers : AcceptFd(d)
  <2>1. PICK d \in Peers : AcceptFd(d)
    BY <1>2
  <2>2. UNCHANGED <<socket_fds, races>> /\ accepted' = Append(accepted, d)
    BY <2>1 DEF AcceptFd
  <2>3. Len(accepted') >= Len(accepted)
    BY <2>2 DEF SocketsInv
  <2> QED
    BY <1>0, <2>1, <2>2, <2>3, AcceptStep
<1>3. CASE \E d \in Peers : Connect(d) \/ Close(d)
  <2>1. UNCHANGED <<socket_fds, races, accepted>>
    BY <1>3 DEF Connect, Close, vectorVars
  <2> QED
    BY <1>0, <1>3, <2>1, PeerStep
<1> QED
  BY <1>1, <1>2, <1>3 DEF OthersStep, Accepting

\* What SocketTypeOK says, but for the index.
LEMMA SocketsTyped ==
    ASSUME SocketsInv, current_fd \in 0..Len(accepted)
    PROVE  SocketTypeOK
<1>1. /\ Settled \in Nat /\ Len(accepted) \in Nat /\ Settled <= Len(accepted)
      /\ FirstFd \in Nat
  BY SettledIs, FirstFdAssumption
<1>2. Vector(socket_fds, Len(accepted))
  BY <1>1, VectorMore DEF SocketsInv
<1>3. IsInjective(accepted)
  BY DEF SocketsInv, IsInjective
<1>4. /\ \A i \in DOMAIN socket_fds : socket_fds[i] \in FirstFd..FirstFd + Len(accepted) - 1
      /\ \A i, j \in DOMAIN socket_fds : i < j => socket_fds[i] < socket_fds[j]
  BY <1>1, <1>2, VectorRange DEF Vector
<1> QED
  BY <1>3, <1>4 DEF SocketTypeOK, SocketsInv
=============================================================================
