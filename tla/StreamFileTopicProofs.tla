----------------------- MODULE StreamFileTopicProofs -----------------------
(***************************************************************************)
(* Proofs about StreamFileTopic.  The writer and its files are FileTopic's *)
(* and keep the invariant FileTopicProofs has of them; the vector of       *)
(* descriptors keeps the one of StreamSocketsProofs.                       *)
(***************************************************************************)
EXTENDS StreamFileTopic, FileTopicProofs, StreamSocketsProofs, WellFoundedInduction

USE DEF logVars

\* What the consumer thread is at: it has a consumer to send to while it scans, and
\* scans for the offset it is at.
SenderInv ==
    /\ rpc \in {"poll", "pick", "scan"}
    /\ target # NoFd <=> rpc = "scan"
    /\ rpc = "scan" => roff = position
    /\ fetched = <<>> /\ rmsg = Nothing
    /\ sent \in Seq(Byte) /\ Len(sent) = position
    /\ current_fd \in 0..Len(accepted)

StreamInv == PartsTypes /\ SocketsInv /\ SenderInv
-----------------------------------------------------------------------------
(***************************************************************************)
(* Sequences of sequences.                                                 *)
(***************************************************************************)

Less == {ss \in Nat \X Nat : ss[1] < ss[2]}

\* Induction: a set of numbers that has 0, and the next of each, has all of them.
LEMMA SetInduction ==
    ASSUME NEW T \in SUBSET Nat, 0 \in T, \A n \in T : n + 1 \in T
    PROVE T = Nat
<1> SUFFICES ASSUME Nat \ T # {} PROVE FALSE
  OBVIOUS
<1>0. IsWellFoundedOn(Less, Nat)
  BY NatLessThanWellFounded DEF OpToRel, Less
<1>1. PICK x \in Nat \ T : \A y \in Nat \ T : ~ (<<y, x>> \in Less)
  BY <1>0, WFMin
<1>2. x # 0 /\ x - 1 \in Nat /\ x - 1 < x
  BY <1>1
<1>3. x - 1 \in T
  BY <1>1, <1>2 DEF Less
<1>4. (x - 1) + 1 \in T
  BY <1>3
<1> QED
  BY <1>1, <1>4

\* FlattenSeq is computed from the front: there is such a function for any length.
LEMMA FlattenUnfolds ==
    ASSUME NEW seqs, NEW n \in Nat \ {0}, Len(seqs) = n
    PROVE  \E f : /\ f = [i \in 1..n |-> IF i = 1 THEN seqs[i] ELSE f[i - 1] \o seqs[i]]
                  /\ FlattenSeq(seqs) = f[n]
<1> DEFINE Is(f, m) == f = [i \in 1..m |-> IF i = 1 THEN seqs[i] ELSE f[i - 1] \o seqs[i]]
           T == {m \in Nat : \E f : Is(f, m)}
<1>1. 0 \in T
  <2>1. Is([i \in 1..0 |-> 0], 0)
    <3>1. 1..0 = {}
      OBVIOUS
    <3> QED
      BY <3>1
  <2> QED
    BY <2>1
<1>2. ASSUME NEW m \in T PROVE m + 1 \in T
  <2>1. PICK f : Is(f, m)
    OBVIOUS
  <2>2. PICK g : g = [i \in 1..m + 1 |-> IF i = 1 THEN seqs[i] ELSE f[i - 1] \o seqs[i]]
    OBVIOUS
  <2>3. m \in Nat
    OBVIOUS
  <2>4. ASSUME NEW i \in 1..m + 1, i # 1 PROVE g[i - 1] = f[i - 1]
    <3>1. i - 1 \in 1..m /\ i - 1 \in 1..m + 1
      BY <2>3, <2>4
    <3> QED
      BY <2>1, <2>2, <3>1
  <2>5. g = [i \in 1..m + 1 |-> IF i = 1 THEN seqs[i] ELSE g[i - 1] \o seqs[i]]
    BY <2>2, <2>4
  <2>6. Is(g, m + 1)
    BY <2>5
  <2>7. m + 1 \in Nat
    BY <2>3
  <2> HIDE DEF Is
  <2> QED
    BY <2>6, <2>7
<1>3. T = Nat
  <2> HIDE DEF T
  <2>1. T \in SUBSET Nat
    BY DEF T
  <2> QED
    BY <1>1, <1>2, <2>1, SetInduction
<1>4. \E f : Is(f, n)
  BY <1>3
<1> DEFINE F == CHOOSE f : Is(f, n)
<1>5. Is(F, n)
  BY <1>4, Zenon
<1>6. FlattenSeq(seqs) = F[n]
  BY DEF FlattenSeq
<1> QED
  BY <1>5, <1>6

\* What a concatenation consists of.
LEMMA ConcatIs ==
    ASSUME NEW S, NEW a \in Seq(S), NEW b \in Seq(S)
    PROVE  /\ a \o b \in Seq(S)
           /\ Len(a \o b) = Len(a) + Len(b)
           /\ \A x \in 1..Len(a) + Len(b) :
                 (a \o b)[x] = IF x <= Len(a) THEN a[x] ELSE b[x - Len(a)]
BY ConcatProperties, Zenon

\* The n sequences of seqs have their places in s at the offsets start[k], and s has
\* their elements there, as far as it is len long.
PlacesIn(s, len, seqs, n, start) ==
    /\ n \in Nat \ {0} /\ Len(seqs) = n /\ len \in Nat
    /\ start \in [1..n + 1 -> Nat] /\ start[1] = 0
    /\ \A k \in 1..n : start[k + 1] = start[k] + Len(seqs[k])
    /\ \A k \in 1..n : \A j \in 1..Len(seqs[k]) :
          start[k] + j <= len => s[start[k] + j] = seqs[k][j]

\* Then, as far as it is long, s is seqs, one after the other.
LEMMA FlattenAgrees ==
    ASSUME NEW S, NEW seqs \in Seq(Seq(S)), NEW n, NEW start, NEW s, NEW len,
           PlacesIn(s, len, seqs, n, start)
    PROVE  /\ FlattenSeq(seqs) \in Seq(S)
           /\ Len(FlattenSeq(seqs)) = start[n + 1]
           /\ \A x \in 1..start[n + 1] : x <= len => FlattenSeq(seqs)[x] = s[x]
<1> USE DEF PlacesIn
<1>1. PICK f : /\ f = [i \in 1..n |-> IF i = 1 THEN seqs[i] ELSE f[i - 1] \o seqs[i]]
               /\ FlattenSeq(seqs) = f[n]
  BY FlattenUnfolds, ZenonT(30)
<1> DEFINE Good(m) == /\ f[m] \in Seq(S)
                      /\ Len(f[m]) = start[m + 1]
                      /\ \A x \in 1..start[m + 1] : x <= len => f[m][x] = s[x]
           T == {m \in Nat : m \in 1..n => Good(m)}
<1>2. 0 \in T
  OBVIOUS
<1>e. ASSUME NEW m \in T PROVE m \in Nat /\ (m \in 1..n => Good(m))
  OBVIOUS
<1> HIDE DEF Good
<1>g. ASSUME NEW m \in Nat, m \in 1..n => Good(m) PROVE m \in T
  BY <1>g
<1> HIDE DEF T
<1>3. ASSUME NEW m \in T PROVE m + 1 \in T
  <2>0. m \in Nat /\ m + 1 \in Nat
    BY <1>e
  <2>1. SUFFICES ASSUME m + 1 \in 1..n PROVE Good(m + 1)
    BY <2>0, <1>g
  <2>p. PICK p : p = m + 1
    OBVIOUS
  <2>q. PICK piece : piece = seqs[p]
    OBVIOUS
  <2>l. PICK l : l = Len(piece)
    OBVIOUS
  <2>2. /\ p \in 1..n /\ piece \in Seq(S) /\ l \in Nat
        /\ start[p] \in Nat /\ start[p + 1] = start[p] + l
        /\ \A j \in 1..l : start[p] + j <= len => s[start[p] + j] = piece[j]
    <3>1. p \in 1..n /\ p \in 1..n + 1
      BY <2>1, <2>p
    <3>2. piece \in Seq(S)
      BY <3>1, <2>q
    <3> QED
      BY <3>1, <3>2, <2>q, <2>l, LenProperties
  <2>3. CASE m = 0
    <3>1. p = 1 /\ f[p] = piece
      BY <1>1, <2>p, <2>2, <2>q, <2>3
    <3>2. start[p] = 0 /\ start[p + 1] = l
      BY <2>2, <3>1
    <3>3. \A j \in 1..l : j <= len => s[j] = piece[j]
      BY <2>2, <3>2
    <3>4. Good(p)
      BY <2>2, <2>l, <3>1, <3>2, <3>3 DEF Good
    <3> QED
      BY <2>p, <3>4
  <2>4. CASE m # 0
    <3>0. m \in 1..n
      BY <2>0, <2>1, <2>4
    <3>1. Good(m)
      BY <1>e, <3>0
    <3>a. PICK a : a = f[m]
      OBVIOUS
    <3>b. PICK b : b = start[p]
      OBVIOUS
    <3>2. a \in Seq(S) /\ Len(a) = b /\ \A x \in 1..b : x <= len => a[x] = s[x]
      BY <2>p, <3>1, <3>a, <3>b DEF Good
    <3>3. f[p] = a \o piece
      <4>1. p # 1 /\ p - 1 = m
        BY <2>0, <2>p, <2>4
      <4> QED
        BY <1>1, <2>2, <2>q, <3>a, <4>1
    <3>w. PICK w : w = a \o piece
      OBVIOUS
    <3>4. /\ w \in Seq(S) /\ Len(w) = b + l
          /\ \A x \in 1..b + l : w[x] = IF x <= b THEN a[x] ELSE piece[x - b]
      <4>1. /\ a \o piece \in Seq(S)
            /\ Len(a \o piece) = Len(a) + Len(piece)
            /\ \A x \in 1..Len(a) + Len(piece) :
                  (a \o piece)[x] = IF x <= Len(a) THEN a[x] ELSE piece[x - Len(a)]
        <5>1. a \in Seq(S) /\ piece \in Seq(S)
          BY <2>2, <3>2
        <5> QED
          BY ONLY <5>1, ConcatIs, SMT
      <4> QED
        BY <2>l, <3>2, <3>w, <4>1, Zenon
    <3>5. ASSUME NEW x \in 1..b + l, x <= len PROVE w[x] = s[x]
      <4>1. b \in Nat /\ l \in Nat
        BY <2>2, <3>b
      <4>2. CASE x <= b
        <5>1. x \in 1..b
          BY <4>1, <4>2
        <5> QED
          BY <3>2, <3>4, <3>5, <4>2, <5>1
      <4>3. CASE ~(x <= b)
        <5>1. x - b \in 1..l /\ b + (x - b) = x
          BY <3>5, <4>1, <4>3, SMTT(30)
        <5> QED
          BY <2>2, <3>b, <3>4, <3>5, <4>3, <5>1
      <4> QED
        BY <4>2, <4>3
    <3>6. start[p + 1] = b + l
      BY <2>2, <3>b
    <3>7. f[p] = w
      BY <3>3, <3>w
    <3> QED
      <4>1. Good(p)
        BY <3>4, <3>5, <3>6, <3>7 DEF Good
      <4> QED
        BY <2>p, <4>1
  <2> QED
    BY <2>3, <2>4
<1>4. T = Nat
  <2>1. T \in SUBSET Nat
    BY <1>e
  <2> QED
    BY <1>2, <1>3, <2>1, SetInduction
<1>5. Good(n)
  <2>1. n \in T /\ n \in 1..n
    BY <1>4
  <2> QED
    BY <1>e, <2>1
<1> QED
  BY <1>1, <1>5 DEF Good
-----------------------------------------------------------------------------
(***************************************************************************)
(* What is sent.                                                           *)
(***************************************************************************)

\* The less of two numbers.
LEMMA MinOfTwo ==
    ASSUME NEW a \in Int, NEW b \in Int
    PROVE  (Min({a, b}) = a \/ Min({a, b}) = b) /\ Min({a, b}) <= a /\ Min({a, b}) <= b
<1>1. \E x \in {a, b} : \A y \in {a, b} : x <= y
  OBVIOUS
<1>2. Min({a, b}) = CHOOSE x \in {a, b} : \A y \in {a, b} : x <= y
  BY DEF Min
<1> QED
  BY <1>1, <1>2

\* The bytes of the file from offset on, up to size of them, as sendfile sends them.
Slice(file, offset, size) == SubSeq(file, offset + 1, Min({Len(file), offset + size}))

\* They are within the file, and some if there are any.
LEMMA SliceIs ==
    ASSUME NEW file \in Seq(Byte), NEW offset \in Nat, NEW size \in Int
    PROVE  /\ Slice(file, offset, size) \in Seq(Byte) /\ Len(Slice(file, offset, size)) \in Nat
           /\ Slice(file, offset, size) # <<>> =>
                 /\ Len(Slice(file, offset, size)) <= size
                 /\ offset + Len(Slice(file, offset, size)) <= Len(file)
           /\ \A j \in 1..Len(Slice(file, offset, size)) :
                 Slice(file, offset, size)[j] = file[offset + j]
           /\ size > 0 /\ offset < Len(file) => Slice(file, offset, size) # <<>>
<1>b. PICK l : l = Min({Len(file), offset + size})
  OBVIOUS
<1>a. PICK n : n = Len(file)
  OBVIOUS
<1>1. n \in Nat /\ \A j \in 1..n : file[j] \in Byte
  BY <1>a, LenProperties, ElementOfSeq
<1>2. l \in Int /\ l <= n /\ l <= offset + size /\ (l = n \/ l = offset + size)
  <2>a. PICK x \in Int : x = offset + size
    OBVIOUS
  <2>1. n \in Int
    BY <1>1
  <2>2. (Min({n, x}) = n \/ Min({n, x}) = x) /\ Min({n, x}) <= n /\ Min({n, x}) <= x
    BY <2>1, MinOfTwo, Zenon
  <2>3. l = Min({n, x})
    BY <1>a, <1>b, <2>a
  <2>4. (l = n \/ l = x) /\ l <= n /\ l <= x
    BY <2>2, <2>3, Zenon
  <2> QED
    BY <1>1, <2>a, <2>4
<1>d. PICK p \in Int : p = offset + 1
  OBVIOUS
<1>3. \A j \in p..l : file[j] \in Byte
  BY <1>1, <1>2, <1>d
<1>4. /\ SubSeq(file, p, l) \in Seq(Byte)
      /\ Len(SubSeq(file, p, l)) = (IF p <= l THEN l - p + 1 ELSE 0)
      /\ \A j \in 1..(l - p + 1) : SubSeq(file, p, l)[j] = file[p + j - 1]
  BY ONLY <1>2, <1>3, <1>d, SubSeqProperties
<1>c. PICK s : s = SubSeq(file, offset + 1, l)
  OBVIOUS
<1>e. PICK len : len = Len(s)
  OBVIOUS
<1>5. /\ s \in Seq(Byte) /\ len = (IF p <= l THEN l - p + 1 ELSE 0)
      /\ \A j \in 1..(l - p + 1) : s[j] = file[p + j - 1]
  BY <1>4, <1>c, <1>d, <1>e
<1>6. s # <<>> <=> len # 0
  BY <1>5, <1>e, EmptySeq
<1>7. \A j \in 1..len : j \in 1..(l - p + 1) /\ p + j - 1 = offset + j
  BY <1>2, <1>5, <1>d
<1>8. /\ len \in Nat
      /\ s # <<>> => len <= size /\ offset + len <= n
      /\ size > 0 /\ offset < n => s # <<>>
  BY <1>1, <1>2, <1>5, <1>6, <1>d
<1>9. \A j \in 1..len : s[j] = file[offset + j]
  BY <1>5, <1>7
<1>10. Slice(file, offset, size) = s
  BY <1>b, <1>c DEF Slice
<1> QED
  BY <1>5, <1>8, <1>9, <1>10, <1>a, <1>e

\* The file that is found, in numbers: the offset is before the file's end, and
\* within it if the scan was not overtaken.
LEMMA FoundIs ==
    ASSUME PartsTypes, SenderInv, Found
    PROVE  /\ ri \in 1..Len(fds) /\ Base(ri) \in Nat /\ fds[ri].offset \in Nat
           /\ LocalOffset = position - Base(ri) /\ position \in Nat
           /\ fds[ri].file = ri - 1 /\ disk[fds[ri].file] = disk[ri - 1]
           /\ disk[ri - 1] \in Seq(Byte) /\ fds[ri].offset <= Len(disk[ri - 1])
           /\ fds[ri].offset - LocalOffset > 0
<1>1. rpc = "scan" /\ ri <= Len(fds) /\ position < fds[ri].cum /\ roff = position
  BY DEF Found, SenderInv
<1>2. ri \in 1..Len(fds) /\ disk[fds[ri].file] \in Seq(Byte)
  BY <1>1, LocalOffsetType DEF PartsTypes
<1>3. /\ fds[ri].cum <= total /\ fds[ri].cum \in Nat
      /\ Base(ri) \in Nat /\ fds[ri].offset \in Nat
  BY <1>2, CumWithinTotal
<1>4. /\ Len(fds) \in Nat /\ DOMAIN fds = 1..Len(fds) /\ fds # <<>>
      /\ total \in Nat /\ position \in Nat
      /\ fds[ri].file = ri - 1 /\ fds[ri].offset <= Len(disk[ri - 1])
  BY <1>2, FdsProperties DEF PartsTypes, PlaceInv, WriterTypes, ReaderTypes, FilesInv
<1>5. LocalOffset = position - Base(ri)
  BY <1>1 DEF LocalOffset, Base
<1>6. fds[ri].cum <= End(ri)
  <2>1. CASE ri # Len(fds)
    <3>1. ri \in 1..Len(fds) - 1
      <4>a. PICK n : n = Len(fds)
        OBVIOUS
      <4>1. n \in Nat /\ ri \in 1..n /\ ri # n
        BY <1>2, <1>4, <2>1, <4>a
      <4>2. ri \in 1..n - 1
        BY ONLY <4>1
      <4> QED
        BY <4>a, <4>2
    <3>2. HoldsUpTo(ri, fds[ri].cum)
      BY <3>1 DEF PartsTypes, PartsInv
    <3> QED
      BY <3>2 DEF HoldsUpTo
  <2>2. CASE ri = Len(fds)
    <3>a. PICK e : e = End(Len(fds))
      OBVIOUS
    <3>b. PICK f : f = InFlight
      OBVIOUS
    <3>c. e \in Nat
      BY <1>3, <2>2, <3>a DEF End
    <3>1. total + f <= e /\ f \in Nat
      <4>1. wmsg # Nothing => wmsg.len \in Nat
        BY MessageProperties DEF PartsTypes, PlaceInv, WriterTypes
      <4>2. f \in Nat
        BY <3>b, <4>1, HeaderAssumption DEF InFlight, PartsTypes, PlaceInv, WriterTypes
      <4>3. HoldsUpTo(Len(fds), total + InFlight)
        BY <1>4 DEF PartsTypes, PartsInv
      <4> QED
        BY <3>a, <3>b, <4>2, <4>3 DEF HoldsUpTo
    <3> QED
      BY <1>3, <1>4, <2>2, <3>1, <3>a, <3>c
  <2> QED
    BY <2>1, <2>2
<1>7. fds[ri].offset - LocalOffset > 0
  <2>a. PICK b \in Nat, o \in Nat, c \in Nat, p \in Nat :
           b = Base(ri) /\ o = fds[ri].offset /\ c = fds[ri].cum /\ p = position
    BY <1>3, <1>4
  <2>1. c <= b + o /\ p < c /\ LocalOffset = p - b
    BY <1>1, <1>5, <1>6, <2>a DEF End
  <2> QED
    BY <2>1, <2>a
<1> QED
  BY <1>2, <1>3, <1>4, <1>5, <1>7

\* What one call sends: bytes of the file from where sendfile starts.
LEMMA ChunkType ==
    ASSUME PartsTypes, SenderInv, Found
    PROVE  Chunk \in Seq(Byte) /\ Len(Chunk) \in Nat
<1>1. /\ disk[fds[ri].file] \in Seq(Byte) /\ LocalOffset \in Int /\ Size \in Int
  <2>1. /\ disk[fds[ri].file] \in Seq(Byte) /\ LocalOffset \in Int
        /\ fds[ri].offset - LocalOffset \in Int
    BY FoundIs, SMTT(30)
  <2> QED
    BY <2>1, ChunkAssumption DEF Size
<1>2. SendfileOffset \in Int
  BY <1>1 DEF SendfileOffset
<1>3. CASE SendfileOffset < 0
  BY <1>3 DEF Chunk
<1>4. CASE ~(SendfileOffset < 0)
  <2>1. SendfileOffset \in Nat
    BY <1>2, <1>4
  <2> QED
    <3>1. Chunk = Slice(disk[fds[ri].file], SendfileOffset, Size)
      BY <1>4 DEF Chunk, Slice
    <3> QED
      BY <1>1, <2>1, <3>1, SliceIs
<1> QED
  BY <1>3, <1>4

\* Where sendfile is called as on Apple, a call sends something, unless the scan was
\* overtaken.
LEMMA ChunkOnApple ==
    ASSUME PartsTypes, SenderInv, Found, Apple
    PROVE  /\ Chunk = <<>> => LocalOffset < 0
           /\ Chunk # <<>> =>
                 /\ Base(ri) <= position
                 /\ position + Len(Chunk) <= End(ri)
                 /\ \A j \in 1..Len(Chunk) :
                       Chunk[j] = disk[ri - 1][position - Base(ri) + j]
<1>a. PICK b : b = Base(ri)
  OBVIOUS
<1>b. PICK o : o = fds[ri].offset
  OBVIOUS
<1>c. PICK file : file = disk[ri - 1]
  OBVIOUS
<1>d. PICK at : at = LocalOffset
  OBVIOUS
<1>e. PICK size : size = Size
  OBVIOUS
<1>1. /\ b \in Nat /\ o \in Nat /\ position \in Nat /\ at = position - b
      /\ disk[fds[ri].file] = file /\ file \in Seq(Byte) /\ o <= Len(file) /\ o - at > 0
      /\ Len(file) \in Nat
  BY <1>a, <1>b, <1>c, <1>d, FoundIs, LenProperties
<1>2. size \in Int /\ size > 0 /\ size <= o - at
  BY <1>1, <1>b, <1>d, <1>e, ChunkAssumption, SMTT(30) DEF Size
<1>3. CASE at < 0
  BY <1>3, <1>d DEF Chunk, SendfileOffset
<1>4. CASE ~(at < 0)
  <2>1. at \in Nat /\ at < Len(file)
    BY <1>1, <1>4
  <2>2. Chunk = Slice(file, at, size)
    BY <1>1, <1>4, <1>d, <1>e DEF Chunk, SendfileOffset, Slice
  <2>3. /\ Chunk # <<>> /\ Len(Chunk) \in Nat /\ Len(Chunk) <= size
        /\ \A j \in 1..Len(Chunk) : Chunk[j] = file[at + j]
    <3>1. at \in Nat /\ size \in Int /\ file \in Seq(Byte) /\ size > 0 /\ at < Len(file)
      BY <1>1, <1>2, <2>1
    <3> QED
      BY <2>2, <3>1, SliceIs
  <2>4. b <= position /\ position + Len(Chunk) <= b + o
    BY <1>1, <1>2, <2>1, <2>3
  <2> QED
    BY <1>1, <1>a, <1>b, <1>c, <2>3, <2>4 DEF End
<1> QED
  BY <1>1, <1>3, <1>4, <1>d
-----------------------------------------------------------------------------
(***************************************************************************)
(* The steps.                                                              *)
(***************************************************************************)

\* What the sending thread does of its own does not touch the files.
LEMMA QuietKeepsParts ==
    ASSUME PartsTypes, Quiet, ri' \in 1..Len(fds) + 1, roff' \in Int, position' \in Nat
    PROVE  PartsTypes'
<1>1. UNCHANGED <<fds, total, wpc, wmsg, written, torn>>
  BY DEF Quiet, writerVars
<1>2. ReaderTypes'
  BY <1>1 DEF Quiet, PartsTypes, PlaceInv, ReaderTypes
<1>3. PlaceInv'
  BY <1>2, WriterUnchanged DEF Quiet, PartsTypes
<1> QED
  BY <1>1, <1>3 DEF PartsTypes, PartsInv, HoldsUpTo, Base, End, InFlight, Counted

\* The sending thread takes the next of those who are served.
LEMMA NextFdStep ==
    ASSUME StreamInv, get_next_fd
    PROVE  StreamInv'
<1>1. PICK fd \in ToSet(socket_fds) \cup {Wild} : ReadFd(Wrapped, fd) /\ target' = fd
  BY DEF get_next_fd
<1>2. /\ socket_fds # <<>> /\ current_fd' = Wrapped + 1 /\ rpc' = "scan" /\ ri' = 1
      /\ roff' = position /\ UNCHANGED <<position, vectorVars, peer, accepted, sent>>
  BY DEF get_next_fd
<1>3. PartsTypes'
  <2>1. Len(fds) \in Nat /\ position \in Nat
    BY FdsProperties DEF StreamInv, PartsTypes, PlaceInv, ReaderTypes
  <2> QED
    BY <1>2, <2>1, QuietKeepsParts DEF get_next_fd, StreamInv
<1>4. SocketsInv'
  <2>1. races' \in Nat
    BY <1>1, ReadFdRaces DEF StreamInv, SocketsInv
  <2> QED
    BY <1>2, <2>1, SocketsKept DEF StreamInv
<1>a. PICK n : n = Len(socket_fds)
  OBVIOUS
<1>5. n \in Nat /\ n >= 1 /\ n <= Len(accepted) /\ Len(accepted) \in Nat
        /\ \A i \in 1..n : socket_fds[i] >= 1
  <2>1. Vector(socket_fds, Settled) /\ Settled \in Nat /\ Settled <= Len(accepted)
          /\ Len(accepted) \in Nat
    BY SettledIs DEF StreamInv, SocketsInv
  <2>2. n \in Nat /\ n >= 1 /\ n <= Settled /\ DOMAIN socket_fds = 1..n
    BY <1>2, <1>a, <2>1 DEF Vector
  <2>3. \A i \in 1..n : socket_fds[i] \in FirstFd..FirstFd + Settled - 1
    BY <2>1, <2>2, VectorRange
  <2>4. FirstFd \in Nat /\ FirstFd >= 1
    BY FirstFdAssumption
  <2> QED
    BY <2>1, <2>2, <2>3, <2>4
<1>6. current_fd' \in 0..Len(accepted')
  <2>1. current_fd \in Nat
    BY DEF StreamInv, SenderInv
  <2> QED
    BY <1>2, <1>5, <1>a, <2>1 DEF Wrapped
<1>7. target' # NoFd
  <2>1. CASE fd = Wild
    BY <1>1, <2>1 DEF Wild, NoFd
  <2>2. CASE fd \in ToSet(socket_fds)
    <3>1. DOMAIN socket_fds = 1..n
      BY <1>a DEF StreamInv, SocketsInv, Vector
    <3>2. PICK i \in 1..n : fd = socket_fds[i]
      BY <2>2, <3>1 DEF ToSet
    <3> QED
      BY <1>1, <1>5, <3>2 DEF NoFd
  <2> QED
    BY <2>1, <2>2
<1>8. SenderInv'
  <2>1. /\ UNCHANGED <<sent, position, fetched, rmsg>>
    BY <1>2 DEF get_next_fd, Quiet
  <2> QED
    BY <1>2, <1>6, <1>7, <2>1 DEF SenderInv, StreamInv
<1> QED
  BY <1>3, <1>4, <1>8 DEF StreamInv

\* sendfile sent something.
LEMMA SendChunkStep ==
    ASSUME StreamInv, SendChunk
    PROVE  StreamInv'
<1>a. PICK chunk : chunk = Chunk
  OBVIOUS
<1>1. /\ position' = position + Len(chunk) /\ sent' = sent \o chunk
      /\ target' = NoFd /\ rpc' = "poll"
      /\ UNCHANGED <<ri, roff, socketVars>>
      /\ Quiet /\ Found
  BY <1>a DEF SendChunk
<1>2. chunk \in Seq(Byte) /\ Len(chunk) \in Nat
  BY <1>1, <1>a, ChunkType DEF StreamInv
<1>3. position \in Nat /\ ri \in 1..Len(fds) + 1 /\ roff \in Int
  BY DEF StreamInv, PartsTypes, PlaceInv, ReaderTypes
<1>4. PartsTypes'
  BY <1>1, <1>2, <1>3, QuietKeepsParts DEF StreamInv
<1>5. SocketsInv'
  BY <1>1, SocketsKept DEF StreamInv, SocketsInv, socketVars
<1>6. sent' \in Seq(Byte) /\ Len(sent') = position'
  BY <1>1, <1>2, ConcatProperties DEF StreamInv, SenderInv
<1> QED
  BY <1>1, <1>4, <1>5, <1>6 DEF StreamInv, SenderInv, Quiet, socketVars

\* It did not, and the consumer is removed.
LEMMA FailChunkStep ==
    ASSUME StreamInv, FailChunk
    PROVE  StreamInv'
<1>1. /\ remove_fd(target) /\ target' = NoFd /\ rpc' = "poll"
      /\ UNCHANGED <<ri, roff, position, pushing, before, peer, accepted, current_fd,
                     races, sent>>
      /\ Quiet
  BY DEF FailChunk
<1>2. PartsTypes'
  BY <1>1, QuietKeepsParts DEF StreamInv, PartsTypes, PlaceInv, ReaderTypes
<1>3. SocketsInv'
  BY <1>1, RemoveStep DEF StreamInv, SocketsInv
<1> QED
  BY <1>1, <1>2, <1>3 DEF StreamInv, SenderInv, Quiet

\* A step of the files' own, or of the other threads, is one of FileTopic.
LEMMA FileStep ==
    ASSUME "create" \notin Faults, StreamInv,
           [ReadProducer \/ StreamWriter \/ SkipFile \/ NoFile]_fileVars
    PROVE  PartsTypes'
<1>1. [FileNext]_fileVars
  BY DEF StreamWriter, FileNext, Reader
<1> QED
  BY <1>1, StepParts DEF StreamInv

\* Every step keeps the invariant.
LEMMA StepStream ==
    ASSUME "create" \notin Faults, StreamInv, [StreamNext]_streamVars
    PROVE  StreamInv'
<1>1. CASE ReadProducer /\ UNCHANGED <<socketVars, senderVars>>
  <2>1. PartsTypes'
    BY <1>1, FileStep
  <2>2. SocketsInv'
    BY <1>1, SocketsKept DEF StreamInv, SocketsInv, socketVars
  <2> QED
    BY <1>1, <2>1, <2>2 DEF StreamInv, SenderInv, ReadProducer, readerVars, socketVars, senderVars
<1>2. CASE StreamWriter
  <2>1. PartsTypes'
    BY <1>2, FileStep
  <2>2. SocketsInv'
    BY <1>2, SocketsKept DEF StreamWriter, StreamInv, SocketsInv, socketVars
  <2>3. UNCHANGED <<readerVars, socketVars, senderVars>>
    BY <1>2 DEF StreamWriter, Writer, FirstFile, SameFile, NextFile, WriteLength, WritePayload,
                CountTotal, CountFile
  <2> QED
    BY <2>1, <2>2, <2>3 DEF StreamInv, SenderInv, readerVars, socketVars, senderVars
<1>3. CASE PollStream \/ NoConsumer
  <2>1. UNCHANGED <<ri, roff, position, socketVars, senderVars>> /\ Quiet
          /\ rpc # "scan" /\ rpc' \in {"poll", "pick"}
    BY <1>3 DEF PollStream, NoConsumer
  <2>2. PartsTypes'
    BY <2>1, QuietKeepsParts DEF StreamInv, PartsTypes, PlaceInv, ReaderTypes
  <2>3. SocketsInv'
    BY <2>1, SocketsKept DEF StreamInv, SocketsInv, socketVars
  <2> QED
    BY <2>1, <2>2, <2>3 DEF StreamInv, SenderInv, Quiet, socketVars, senderVars
<1>4. CASE SkipFile /\ UNCHANGED <<socketVars, senderVars>>
  <2>1. PartsTypes'
    BY <1>4, FileStep
  <2>2. SocketsInv'
    BY <1>4, SocketsKept DEF StreamInv, SocketsInv, socketVars
  <2> QED
    BY <1>4, <2>1, <2>2 DEF StreamInv, SenderInv, SkipFile, socketVars, senderVars
<1>5. CASE NoFile /\ target' = NoFd /\ UNCHANGED <<socketVars, sent, overtaken>>
  <2>1. PartsTypes'
    BY <1>5, FileStep
  <2>2. SocketsInv'
    BY <1>5, SocketsKept DEF StreamInv, SocketsInv, socketVars
  <2> QED
    BY <1>5, <2>1, <2>2 DEF StreamInv, SenderInv, NoFile, socketVars
<1>6. CASE OthersStep /\ UNCHANGED <<fileVars, senderVars>>
  <2>1. PartsTypes'
    BY <1>6, FileStep
  <2>2. SocketsInv' /\ Len(accepted') >= Len(accepted)
    BY <1>6, OthersInv DEF StreamInv
  <2>3. current_fd' = current_fd
    BY <1>6 DEF OthersStep, Accepting, PushBack, AcceptFd, Connect, Close
  <2>4. Len(accepted) \in Nat /\ Len(accepted') \in Nat
    BY <2>2 DEF StreamInv, SocketsInv
  <2>5. current_fd' \in 0..Len(accepted')
    BY <2>2, <2>3, <2>4 DEF StreamInv, SenderInv
  <2> QED
    BY <1>6, <2>1, <2>2, <2>5
       DEF StreamInv, SenderInv, fileVars, writerVars, readerVars, senderVars
<1>7. CASE UNCHANGED streamVars
  <2>1. PartsTypes'
    BY <1>7, FileStep DEF streamVars
  <2>2. SocketsInv'
    BY <1>7, SocketsKept DEF StreamInv, SocketsInv, socketVars, streamVars
  <2> QED
    BY <1>7, <2>1, <2>2
       DEF StreamInv, SenderInv, streamVars, fileVars, writerVars, readerVars, socketVars, senderVars
<1> QED
  BY <1>1, <1>2, <1>3, <1>4, <1>5, <1>6, <1>7, NextFdStep, SendChunkStep, FailChunkStep
     DEF StreamNext, StreamReader, Acceptor, OthersStep

\* It holds at the start.
LEMMA StreamInitInv == StreamInit => StreamInv
<1> SUFFICES ASSUME StreamInit PROVE StreamInv
  OBVIOUS
<1>1. FileInit /\ SocketInit /\ target = NoFd /\ sent = <<>>
  BY DEF StreamInit
<1>2. fds = <<>> /\ wpc = "read" /\ DOMAIN fds = {} /\ Len(fds) = 0
  BY <1>1 DEF FileInit, MemoryInit
<1>3. PartsTypes
  BY <1>1, <1>2, InitPlace DEF PartsTypes, PartsInv
<1>4. SenderInv
  BY <1>1 DEF SenderInv, FileInit, MemoryInit, SocketInit
<1> QED
  BY <1>1, <1>3, <1>4, SocketInitInv DEF StreamInv

\* While the thread scans it has a consumer to send to, and as many bytes were sent
\* as the offset says, for any number of consumers, messages and files
\* (consumer.h: sendfile_to_socket).
THEOREM StreamTypeCorrect ==
    ASSUME "create" \notin Faults
    PROVE  StreamSpec => []StreamTypeOK
<1>1. StreamInv => StreamTypeOK
  <2> SUFFICES ASSUME StreamInv PROVE StreamTypeOK
    OBVIOUS
  <2>1. SocketTypeOK
    BY SocketsTyped DEF StreamInv, SenderInv
  <2>2. Len(fetched) = 0
    BY DEF StreamInv, SenderInv
  <2> QED
    BY <2>1, <2>2 DEF StreamTypeOK, StreamInv, SenderInv
<1>2. StreamInv /\ [StreamNext]_streamVars => StreamInv'
  BY StepStream
<1> QED
  BY <1>1, <1>2, StreamInitInv, PTL DEF StreamSpec
-----------------------------------------------------------------------------
(***************************************************************************)
(* Who is served.                                                          *)
(***************************************************************************)

InVector(fd) == \E i \in DOMAIN socket_fds : socket_fds[i] = fd
Served(c) == pushing = FdOf(c) \/ InVector(FdOf(c))

\* A step that leaves the connections and the vector alone.
LEMMA ServedUnchanged ==
    ASSUME StreamInv, OpenIsServed, UNCHANGED <<socket_fds, pushing, peer, accepted>>,
           races' = 0 => races = 0
    PROVE  OpenIsServed'
BY DEF OpenIsServed, Accepted, FdOf

\* The descriptors that are not removed stay in the vector.
LEMMA RemoveOthers ==
    ASSUME StreamInv, NEW fd, NEW e, e # fd, remove_fd(fd), InVector(e)
    PROVE  InVector(e)'
<1>1. PICK i \in DOMAIN socket_fds : socket_fds[i] = e
  BY DEF InVector
<1>2. CASE UNCHANGED socket_fds
  BY <1>2 DEF InVector
<1>3. CASE \E j \in DOMAIN socket_fds :
               socket_fds[j] = fd /\ socket_fds' = RemoveAt(socket_fds, j)
  <2>1. PICK j \in DOMAIN socket_fds :
               socket_fds[j] = fd /\ socket_fds' = RemoveAt(socket_fds, j)
    BY <1>3
  <2>a. PICK n : n = Len(socket_fds)
    OBVIOUS
  <2>2. socket_fds \in Seq(Int) /\ n \in Nat /\ i \in 1..n /\ j \in 1..n /\ i # j
    BY <1>1, <2>1, <2>a DEF StreamInv, SocketsInv, Vector
  <2>v. PICK v : v = socket_fds
    OBVIOUS
  <2>w. PICK w : w = RemoveAt(v, j)
    OBVIOUS
  <2>3. /\ w \in Seq(Int) /\ Len(w) = n - 1
        /\ \A k \in 1..n - 1 : w[k] = IF k < j THEN v[k] ELSE v[k + 1]
    BY <2>2, <2>a, <2>v, <2>w, RemoveAtIs
  <2>4. DOMAIN w = 1..n - 1 /\ v[i] = e
    BY <1>1, <2>2, <2>3, <2>v
  <2>5. \E k \in DOMAIN w : w[k] = e
    <3>1. CASE i < j
      <4>1. i \in 1..n - 1
        BY <2>2, <3>1
      <4> QED
        BY <2>3, <2>4, <3>1, <4>1
    <3>2. CASE ~(i < j)
      <4>1. i - 1 \in 1..n - 1 /\ ~(i - 1 < j) /\ (i - 1) + 1 = i
        BY <2>2, <3>2
      <4> QED
        BY <2>3, <2>4, <4>1
    <3> QED
      BY <3>1, <3>2
  <2> QED
    BY <2>1, <2>5, <2>v, <2>w DEF InVector
<1> QED
  BY <1>2, <1>3 DEF remove_fd

\* Who fails is gone, or the writer overtook the scan.
LEMMA FailChunkServes ==
    ASSUME Apple, StreamInv, OpenIsServed, FailChunk
    PROVE  OpenIsServed' \/ overtaken'
<1>1. CASE MayFail(target)
  <2> SUFFICES ASSUME NEW c \in Peers, Accepted(c)', peer'[c] = "open", races' = 0
               PROVE  Served(c)'
    BY DEF OpenIsServed, Served, InVector
  <2>1. /\ remove_fd(target) /\ UNCHANGED <<pushing, peer, accepted, races>>
    BY DEF FailChunk
  <2>2. Accepted(c) /\ FdOf(c)' = FdOf(c) /\ peer[c] = "open" /\ races = 0
    BY <2>1 DEF Accepted, FdOf
  <2>3. FdOf(c) # target
    BY <1>1, <2>2 DEF MayFail, Reaches
  <2>4. Served(c)
    BY <2>2 DEF OpenIsServed, Served, InVector
  <2>5. InVector(FdOf(c)) => InVector(FdOf(c))'
    <3>1. PICK e : e = FdOf(c)
      OBVIOUS
    <3>2. InVector(e) => InVector(e)'
      BY <2>1, <2>3, <3>1, RemoveOthers
    <3> QED
      BY <2>2, <3>1, <3>2 DEF InVector
  <2> QED
    BY <2>1, <2>2, <2>4, <2>5 DEF Served
<1>2. CASE Chunk = <<>>
  <2>1. LocalOffset < 0
    BY <1>2, ChunkOnApple DEF FailChunk, StreamInv
  <2> QED
    BY <2>1 DEF FailChunk
<1> QED
  BY <1>1, <1>2 DEF FailChunk

\* push_back puts the consumer it was called for into the vector.
LEMMA PushBackServes ==
    ASSUME StreamInv, OpenIsServed, PushBack
    PROVE  OpenIsServed'
<1> SUFFICES ASSUME NEW c \in Peers, Accepted(c)', peer'[c] = "open", races' = 0
             PROVE  Served(c)'
  BY DEF OpenIsServed, Served, InVector
<1>1. UNCHANGED <<peer, accepted>>
  BY DEF PushBack
<1>2. socket_fds' = Append(socket_fds, pushing) /\ races = 0
  <2>1. races \in Nat
    BY DEF StreamInv, SocketsInv
  <2> QED
    BY <2>1, PushBackVector DEF StreamInv
<1>3. Accepted(c) /\ FdOf(c)' = FdOf(c)
  BY <1>1 DEF Accepted, FdOf
<1>4. Served(c)
  BY <1>1, <1>2, <1>3 DEF OpenIsServed, Served, InVector
<1>a. PICK n : n = Len(socket_fds)
  OBVIOUS
<1>5. /\ n \in Nat /\ DOMAIN socket_fds = 1..n /\ DOMAIN socket_fds' = 1..n + 1
      /\ socket_fds'[n + 1] = pushing /\ \A i \in 1..n : socket_fds'[i] = socket_fds[i]
  BY <1>2, <1>a DEF StreamInv, SocketsInv, Vector
<1>6. InVector(FdOf(c))'
  BY <1>3, <1>4, <1>5 DEF Served, InVector
<1> QED
  BY <1>6 DEF Served

\* The consumer that is accepted is the one that is pushed.
LEMMA AcceptServes ==
    ASSUME StreamInv, OpenIsServed, NEW d \in Peers, AcceptFd(d)
    PROVE  OpenIsServed'
<1> SUFFICES ASSUME NEW c \in Peers, Accepted(c)', peer'[c] = "open", races' = 0
             PROVE  Served(c)'
  BY DEF OpenIsServed, Served, InVector
<1>1. /\ pushing = NoFd /\ pushing' = FirstFd + Len(accepted)
      /\ UNCHANGED <<peer, socket_fds, races>>
  BY DEF AcceptFd
<1>2. CASE Accepted(c)
  <2>1. FdOf(c)' = FdOf(c)
    BY <1>2, FdOfStays DEF StreamInv
  <2>2. Served(c)
    BY <1>1, <1>2 DEF OpenIsServed, Served, InVector
  <2>3. FdOf(c) # NoFd
    <3>1. FdOf(c) \in FirstFd..FirstFd + Len(accepted) - 1
      BY <1>2, FdOfRange DEF StreamInv
    <3>2. FirstFd \in Nat /\ FirstFd >= 1 /\ Len(accepted) \in Nat
      BY FirstFdAssumption DEF StreamInv, SocketsInv
    <3> QED
      BY <3>1, <3>2 DEF NoFd
  <2> QED
    BY <1>1, <2>1, <2>2, <2>3 DEF Served, InVector
<1>3. CASE ~Accepted(c)
  <2>1. c = d /\ FdOf(d)' = FirstFd + Len(accepted)
    BY <1>3, FdOfNew DEF StreamInv
  <2> QED
    BY <1>1, <2>1 DEF Served
<1> QED
  BY <1>2, <1>3

\* Who comes or goes is not yet, or no longer, served.
LEMMA PeerServes ==
    ASSUME StreamInv, OpenIsServed, NEW d \in Peers, Connect(d) \/ Close(d)
    PROVE  OpenIsServed'
<1> SUFFICES ASSUME NEW c \in Peers, Accepted(c)', peer'[c] = "open", races' = 0
             PROVE  Served(c)'
  BY DEF OpenIsServed, Served, InVector
<1>1. UNCHANGED <<socket_fds, pushing, accepted, races>>
  BY DEF Connect, Close, vectorVars
<1>2. Accepted(c) /\ FdOf(c)' = FdOf(c)
  BY <1>1 DEF Accepted, FdOf
<1>3. peer[c] = "open"
  <2>1. peer[c] # "away"
    BY <1>2 DEF Accepted, StreamInv, SocketsInv
  <2> QED
    BY <2>1 DEF Connect, Close, StreamInv, SocketsInv
<1> QED
  BY <1>1, <1>2, <1>3 DEF OpenIsServed, Served, InVector

\* Every step keeps it.
LEMMA StepServes ==
    ASSUME Apple, StreamInv, RemovedOnlyIfOvertaken, [StreamNext]_streamVars
    PROVE  RemovedOnlyIfOvertaken'
<1>1. CASE overtaken
  <2>1. overtaken'
    BY <1>1 DEF StreamNext, StreamWriter, StreamReader, Acceptor, PollStream, NoConsumer,
                get_next_fd, SendChunk, FailChunk, senderVars, streamVars
  <2> QED
    BY <2>1 DEF RemovedOnlyIfOvertaken
<1>2. CASE OpenIsServed
  <2>1. CASE \/ UNCHANGED streamVars
             \/ ReadProducer /\ UNCHANGED <<socketVars, senderVars>>
             \/ StreamWriter
             \/ PollStream \/ NoConsumer
             \/ SkipFile /\ UNCHANGED <<socketVars, senderVars>>
             \/ NoFile /\ target' = NoFd /\ UNCHANGED <<socketVars, sent, overtaken>>
             \/ SendChunk
    <3>1. UNCHANGED socketVars
      BY <2>1 DEF streamVars, StreamWriter, PollStream, NoConsumer, SendChunk
    <3> QED
      BY <1>2, <3>1, ServedUnchanged DEF socketVars, vectorVars, RemovedOnlyIfOvertaken
  <2>2. CASE get_next_fd
    <3>1. UNCHANGED <<socket_fds, pushing, peer, accepted>>
      BY <2>2 DEF get_next_fd, vectorVars
    <3>2. races \in Nat /\ races' \in Nat /\ races <= races'
      BY <2>2, ReadFdRaces DEF get_next_fd, StreamInv, SocketsInv
    <3>3. races' = 0 => races = 0
      BY <3>2
    <3> QED
      BY <1>2, <3>1, <3>3, ServedUnchanged DEF RemovedOnlyIfOvertaken
  <2>3. CASE FailChunk
    BY <1>2, <2>3, FailChunkServes DEF RemovedOnlyIfOvertaken
  <2>4. CASE Acceptor \/ \E c \in Peers : (Connect(c) \/ Close(c)) /\ UNCHANGED <<fileVars, senderVars>>
    BY <1>2, <2>4, PushBackServes, AcceptServes, PeerServes
       DEF Acceptor, Accepting, RemovedOnlyIfOvertaken
  <2> QED
    BY <2>1, <2>2, <2>3, <2>4 DEF StreamNext, StreamReader
<1> QED
  BY <1>1, <1>2 DEF RemovedOnlyIfOvertaken

\* Where sendfile is called as on Apple, a consumer that is there and was accepted
\* stays among those who are served, for any number of consumers and files, unless
\* the writer overtook a scan or the two threads met in the vector
\* (consumer.h: sendfile_to_socket, connection_socket.h: remove_fd).
THEOREM RemovedOnlyIfOvertakenHolds ==
    ASSUME "create" \notin Faults, Apple
    PROVE  StreamSpec => []RemovedOnlyIfOvertaken
<1>1. StreamInit => RemovedOnlyIfOvertaken
  BY DEF StreamInit, SocketInit, RemovedOnlyIfOvertaken, OpenIsServed, Accepted
<1>2. StreamInv /\ [StreamNext]_streamVars => StreamInv'
  BY StepStream
<1>3. StreamInv /\ RemovedOnlyIfOvertaken /\ [StreamNext]_streamVars => RemovedOnlyIfOvertaken'
  BY StepServes
<1> QED
  BY <1>1, <1>2, <1>3, StreamInitInv, PTL DEF StreamSpec
-----------------------------------------------------------------------------
(***************************************************************************)
(* What was sent.                                                          *)
(***************************************************************************)

\* The bytes that were sent are those of the records, where the log has them, and
\* of the one that is being written, unless a write stopped half way.
SentRecords(start) ==
    /\ ~torn => Len(sent) <= total + InFlight
    /\ \A k \in DOMAIN intact : \A j \in 1..Header + intact[k].len :
          start[k] + j <= Len(sent) => sent[start[k] + j] = [msg |-> intact[k], at |-> j]
    /\ ~torn => \A j \in 1..InFlight :
          total + j <= Len(sent) => sent[total + j] = [msg |-> wmsg, at |-> j]

SentInv == \E start : RecordsInv(start) /\ SentRecords(start)

\* What is in flight, as a number.
LEMMA InFlightType ==
    ASSUME PartsTypes
    PROVE  InFlight \in Nat /\ (wmsg # Nothing => wmsg \in Messages /\ wmsg.len \in Nat)
<1>1. wmsg # Nothing => wmsg \in Messages /\ wmsg.len \in Nat
  BY MessageProperties DEF PartsTypes, PlaceInv, WriterTypes
<1> QED
  BY <1>1, HeaderAssumption DEF InFlight, PartsTypes, PlaceInv, WriterTypes

\* The first n bytes of the record of m are in the i-th file, those that are counted if
\* it is closed, and no file before has bytes that are not.
InPlace(i, at, m, n) ==
    /\ HasRecord(i, at, m, n)
    /\ i < Len(fds) => at + n <= fds[i].cum
    /\ \A h \in 1..i - 1 : fds[h].cum = End(h)

\* A byte of a record that is sent is taken from the file that has the record: the
\* parts of the log that the files have do not overlap up to its end.
LEMMA ByteSent ==
    ASSUME PartsTypes, SenderInv, Found, Apple, Chunk # <<>>,
           NEW f, NEW at \in Nat, NEW m, NEW n \in Nat, InPlace(f, at, m, n),
           NEW j \in 1..n, NEW q \in 1..Len(Chunk), at + j = position + q
    PROVE  Chunk[q] = [msg |-> m, at |-> j]
<1>a. PICK i : i = ri
  OBVIOUS
<1>b. PICK b : b = Base(i)
  OBVIOUS
<1>c. PICK c : c = Base(f)
  OBVIOUS
<1>e. PICK e : e = Len(Chunk)
  OBVIOUS
<1>1. /\ i \in 1..Len(fds) /\ b \in Nat /\ fds[i].offset \in Nat /\ position \in Nat
      /\ b <= position /\ position + e <= b + fds[i].offset /\ e \in Nat
      /\ Chunk[q] = disk[i - 1][position - b + q]
  <2>1. Len(Chunk) \in Nat
    BY ChunkType
  <2>2. /\ Base(ri) <= position /\ position + Len(Chunk) <= End(ri)
        /\ Chunk[q] = disk[ri - 1][position - Base(ri) + q]
    BY ChunkOnApple
  <2> QED
    BY <1>a, <1>b, <1>e, <2>1, <2>2, FoundIs DEF End
<1>2. /\ f \in DOMAIN fds /\ DOMAIN fds = 1..Len(fds) /\ Len(fds) \in Nat
      /\ c <= at /\ at + n <= c + fds[f].offset
      /\ disk[f - 1][at - c + j] = [msg |-> m, at |-> j]
  BY <1>c, FdsProperties DEF InPlace, HasRecord, End, PartsTypes, PlaceInv
<1>3. c \in Nat /\ fds[f].offset \in Nat /\ fds[f].cum \in Nat /\ fds[i].cum \in Nat
  BY <1>1, <1>2, <1>c, CumWithinTotal
<1>p. PICK p \in Nat : p = position
  BY <1>1
<1>x. PICK x \in Nat : x = at + j
  <2>1. at + j \in Nat
    OBVIOUS
  <2> QED
    BY <2>1
<1>y. PICK oi \in Nat, of \in Nat : oi = fds[i].offset /\ of = fds[f].offset
  BY <1>1, <1>3
<1>z. PICK ci \in Nat, cf \in Nat : ci = fds[i].cum /\ cf = fds[f].cum
  BY <1>3
<1>8. b < x /\ x <= b + oi
  <2>1. x = p + q /\ q \in 1..e /\ e \in Nat /\ b <= p /\ p + e <= b + oi
    BY <1>1, <1>e, <1>p, <1>x, <1>y
  <2> QED
    BY <1>1, <2>1
<1>9. c < x /\ x <= c + of
  <2>1. x = at + j /\ c <= at /\ at + n <= c + of
    BY <1>2, <1>x, <1>y
  <2> QED
    BY <1>3, <2>1
<1>4. ~(i < f)
  <2> SUFFICES ASSUME i < f PROVE FALSE
    OBVIOUS
  <2>1. i \in 1..f - 1
    BY <1>1, <1>2
  <2>2. fds[i].cum = b + fds[i].offset /\ fds[i].cum <= c
    BY <1>1, <1>2, <1>b, <1>c, <2>1 DEF InPlace, PartsTypes, PartsInv, End
  <2>3. ci = b + oi /\ ci <= c
    BY <1>y, <1>z, <2>2
  <2>4. b \in Nat /\ c \in Nat
    BY <1>1, <1>3
  <2> QED
    BY <1>8, <1>9, <2>3, <2>4
<1>5. ~(f < i)
  <2> SUFFICES ASSUME f < i PROVE FALSE
    OBVIOUS
  <2>1. f < Len(fds)
    BY <1>1, <1>2
  <2>2. at + n <= fds[f].cum /\ fds[f].cum <= b
    BY <1>1, <1>2, <1>b, <1>c, <2>1 DEF InPlace, PartsTypes, PartsInv
  <2>3. at + n <= cf /\ cf <= b
    BY <1>z, <2>2
  <2>4. x <= at + n
    BY <1>x
  <2>5. b \in Nat
    BY <1>1
  <2> QED
    BY <1>8, <2>3, <2>4, <2>5
<1>6. f = i /\ c = b
  BY <1>1, <1>2, <1>4, <1>5, <1>b, <1>c, SMTT(30)
<1>7. at - c + j = position - b + q
  <2>1. /\ at + j = p + q /\ c = b /\ b \in Int /\ at \in Int /\ p \in Int
        /\ j \in Int /\ q \in Int
    BY <1>1, <1>6, <1>p
  <2>2. at - c + j = p - b + q
    BY ONLY <2>1, SMT
  <2> QED
    BY <1>p, <2>2
<1> QED
  BY <1>1, <1>2, <1>6, <1>7

\* The offset never passes what has been written.
LEMMA SentWithinLog ==
    ASSUME PartsTypes, SenderInv, Found, Apple, Chunk # <<>>, ~torn
    PROVE  position + Len(Chunk) <= total + InFlight
<1>a. PICK n : n = Len(fds)
  OBVIOUS
<1>b. PICK x : x = InFlight
  OBVIOUS
<1>1. /\ ri \in 1..n /\ n \in Nat /\ fds # <<>> /\ x \in Nat /\ total \in Nat
      /\ fds[ri].cum <= total /\ fds[ri].cum \in Nat
  BY <1>a, <1>b, FoundIs, FdsProperties, CumWithinTotal, InFlightType, SMTT(30)
     DEF PartsTypes, PlaceInv, WriterTypes
<1>c. PICK p : p = position + Len(Chunk)
  OBVIOUS
<1>2. p \in Nat /\ p <= End(ri)
  BY <1>c, ChunkType, ChunkOnApple, FoundIs
<1>3. CASE ri = n
  <2>1. total + InFlight = End(ri)
    BY <1>1, <1>3, <1>a DEF PartsTypes, PartsInv, HoldsUpTo
  <2> QED
    BY <1>1, <1>2, <1>b, <1>c, <2>1
<1>4. CASE ri # n
  <2>1. ri \in 1..Len(fds) - 1
    BY <1>1, <1>4, <1>a
  <2>2. End(ri) = fds[ri].cum
    BY <2>1 DEF PartsTypes, PartsInv, HoldsUpTo
  <2> QED
    BY <1>1, <1>2, <1>b, <1>c, <2>2
<1> QED
  BY <1>3, <1>4

\* A call of sendfile sends the log's next bytes.
LEMMA SendChunkKeepsSent ==
    ASSUME Apple, StreamInv, NEW start, RecordsInv(start), SentRecords(start), SendChunk
    PROVE  RecordsInv(start)' /\ SentRecords(start)'
<1>1. /\ UNCHANGED <<disk, fds, total, wpc, wmsg, written, torn, intact>>
      /\ sent' = sent \o Chunk /\ Found /\ Chunk # <<>>
  BY DEF SendChunk, Quiet, writerVars
<1>2. RecordsInv(start)'
  BY <1>1, ReaderKeepsRecords
<1>p. PICK p : p = position
  OBVIOUS
<1>c. PICK chunk : chunk = Chunk
  OBVIOUS
<1>e. PICK e : e = Len(chunk)
  OBVIOUS
<1>3. /\ sent \in Seq(Byte) /\ chunk \in Seq(Byte) /\ Len(sent) = p /\ e \in Nat /\ p \in Nat
      /\ ~torn => p + e <= total + InFlight
  BY <1>1, <1>c, <1>e, <1>p, ChunkType, SentWithinLog, FoundIs DEF StreamInv, SenderInv
<1>s. PICK s : s = sent'
  OBVIOUS
<1>4. /\ Len(s) = p + e
      /\ \A x \in 1..p : s[x] = sent[x]
      /\ \A q \in 1..e : s[p + q] = chunk[q]
  <2>1. /\ Len(sent \o chunk) = Len(sent) + Len(chunk)
        /\ \A x \in 1..Len(sent) + Len(chunk) :
              (sent \o chunk)[x] = IF x <= Len(sent) THEN sent[x] ELSE chunk[x - Len(sent)]
    BY <1>3, ConcatProperties, Zenon
  <2>2. s = sent \o chunk
    BY <1>1, <1>c, <1>s
  <2>3. /\ Len(s) = p + e
        /\ \A x \in 1..p + e : s[x] = IF x <= p THEN sent[x] ELSE chunk[x - p]
    BY <1>3, <1>e, <2>1, <2>2, Zenon
  <2>4. \A q \in 1..e : p + q \in 1..p + e /\ ~(p + q <= p) /\ (p + q) - p = q
    BY <1>3
  <2>5. \A x \in 1..p : x \in 1..p + e /\ x <= p
    BY <1>3
  <2> QED
    BY <2>3, <2>4, <2>5
<1>5. ASSUME NEW f, NEW at \in Nat, NEW m, NEW n \in Nat, InPlace(f, at, m, n),
             NEW j \in 1..n, at + j <= p + e,
             at + j <= p => sent[at + j] = [msg |-> m, at |-> j]
      PROVE  s[at + j] = [msg |-> m, at |-> j]
  <2>1. CASE at + j <= p
    <3>1. at + j \in 1..p
      BY <1>3, <2>1
    <3> QED
      BY <1>4, <1>5, <2>1, <3>1
  <2>2. CASE ~(at + j <= p)
    <3>1. PICK q \in 1..e : at + j = p + q
      <4>1. (at + j) - p \in 1..e /\ at + j = p + ((at + j) - p)
        BY <1>3, <1>5, <2>2
      <4> QED
        BY <4>1
    <3>2. chunk[q] = [msg |-> m, at |-> j]
      <4>1. /\ PartsTypes /\ SenderInv /\ Found /\ Chunk # <<>>
            /\ q \in 1..Len(Chunk) /\ at + j = position + q
        BY <1>1, <1>c, <1>e, <1>p, <3>1 DEF StreamInv
      <4>2. Chunk[q] = [msg |-> m, at |-> j]
        BY <1>5, <4>1, ByteSent
      <4> QED
        BY <1>c, <4>2
    <3> QED
      BY <1>4, <3>1, <3>2
  <2> QED
    BY <2>1, <2>2
<1>6. ASSUME NEW k \in DOMAIN intact, NEW j \in 1..Header + intact[k].len,
             start[k] + j <= p + e
      PROVE  s[start[k] + j] = [msg |-> intact[k], at |-> j]
  <2>1. PICK f : HasWhole(f, start[k], intact[k])
    BY DEF RecordsInv
  <2>2. start[k] \in Nat /\ Header + intact[k].len \in Nat
    <3>1. intact[k] \in Messages /\ k \in 1..Len(intact) + 1
      BY LenProperties, ElementOfSeq DEF StreamInv, PartsTypes, PlaceInv, WriterTypes
    <3> QED
      BY <3>1, MessageProperties, HeaderAssumption DEF RecordsInv
  <2>3. start[k] + j <= p => sent[start[k] + j] = [msg |-> intact[k], at |-> j]
    BY <1>3 DEF SentRecords
  <2>4. InPlace(f, start[k], intact[k], Header + intact[k].len)
    BY <2>1 DEF HasWhole, InPlace
  <2>a. PICK at \in Nat : at = start[k]
    BY <2>2
  <2>b. PICK n \in Nat : n = Header + intact[k].len
    BY <2>2
  <2>m. PICK m : m = intact[k]
    OBVIOUS
  <2>5. /\ InPlace(f, at, m, n)
        /\ j \in 1..n /\ at + j <= p + e
        /\ at + j <= p => sent[at + j] = [msg |-> m, at |-> j]
    BY <1>6, <2>3, <2>4, <2>a, <2>b, <2>m
  <2>6. s[at + j] = [msg |-> m, at |-> j]
    BY <1>5, <2>5
  <2> QED
    BY <2>6, <2>a, <2>m
<1>7. ASSUME ~torn, NEW j \in 1..InFlight, total + j <= p + e
      PROVE  s[total + j] = [msg |-> wmsg, at |-> j]
  <2>1. InFlight \in Nat /\ total \in Nat /\ Len(fds) \in Nat
    BY InFlightType, FdsProperties DEF StreamInv, PartsTypes, PlaceInv, WriterTypes
  <2>2. /\ HasRecord(Len(fds), total, wmsg, InFlight)
        /\ \A h \in 1..Len(fds) - 1 : fds[h].cum = End(h)
    BY <1>7, <2>1 DEF RecordsInv, StreamInv, PartsTypes, PartsInv, HoldsUpTo
  <2>3. total + j <= p => sent[total + j] = [msg |-> wmsg, at |-> j]
    BY <1>3, <1>7 DEF SentRecords
  <2>4. InPlace(Len(fds), total, wmsg, InFlight)
    <3>1. ~(Len(fds) < Len(fds))
      BY <2>1
    <3> QED
      BY <2>2, <3>1 DEF InPlace
  <2>a. PICK at \in Nat : at = total
    BY <2>1
  <2>b. PICK n \in Nat : n = InFlight
    BY <2>1
  <2>f. PICK f : f = Len(fds)
    OBVIOUS
  <2>m. PICK m : m = wmsg
    OBVIOUS
  <2>5. /\ InPlace(f, at, m, n)
        /\ j \in 1..n /\ at + j <= p + e
        /\ at + j <= p => sent[at + j] = [msg |-> m, at |-> j]
    BY <1>7, <2>3, <2>4, <2>a, <2>b, <2>f, <2>m
  <2>6. s[at + j] = [msg |-> m, at |-> j]
    BY <1>5, <2>5
  <2> QED
    BY <2>6, <2>a, <2>m
<1>8. InFlight' = InFlight /\ UNCHANGED <<total, intact, wmsg, torn>>
  BY <1>1 DEF InFlight
<1>9. SentRecords(start)'
  BY <1>3, <1>4, <1>6, <1>7, <1>8, <1>s DEF SentRecords
<1> QED
  BY <1>2, <1>9

\* It is a number after a step as well.
LEMMA InFlightNext == PartsTypes' => (InFlight \in Nat)'
<1>1. PartsTypes => InFlight \in Nat
  BY InFlightType
<1> QED
  BY <1>1, PTL

\* The steps of the writer that count nothing put no byte where one was sent.
LEMMA WriterKeepsSent ==
    ASSUME "create" \notin Faults, StreamInv, NEW start, RecordsInv(start), SentRecords(start), sent' = sent,
           \/ ReadProducer \/ FirstFile \/ SameFile \/ NextFile \/ CountFile
           \/ WriteLength \/ WritePayload
    PROVE  RecordsInv(start)' /\ SentRecords(start)'
<1>0. PartsTypes'
  <2>1. [FileNext]_fileVars
    BY DEF FileNext, Writer
  <2> QED
    BY <2>1, StepParts DEF StreamInv
<1>1. RecordsInv(start)'
  BY <1>0, WriterKeepsRecords DEF StreamInv, PartsTypes
<1>2. UNCHANGED <<intact, total>>
  BY DEF ReadProducer, FirstFile, SameFile, NextFile, CountFile, WriteLength, WritePayload
<1>l. PICK l : l = Len(sent)
  OBVIOUS
<1>f. PICK f : f = InFlight
  OBVIOUS
<1>g. PICK g : g = InFlight'
  OBVIOUS
<1>m. PICK m : m = wmsg'
  OBVIOUS
<1>3. /\ l \in Nat /\ total \in Nat /\ Header \in Nat /\ (~torn => l <= total + f)
      /\ ~torn => \A j \in 1..f : total + j <= l => sent[total + j] = [msg |-> wmsg, at |-> j]
  BY <1>f, <1>l, HeaderAssumption, LenProperties
     DEF StreamInv, SenderInv, PartsTypes, PlaceInv, WriterTypes, SentRecords
<1>4. g \in Nat
  BY <1>0, <1>g, InFlightNext
<1>5. ASSUME ~torn' => /\ l <= total + g
                       /\ \A j \in 1..g : total + j <= l => sent[total + j] = [msg |-> m, at |-> j]
      PROVE  SentRecords(start)'
  BY <1>2, <1>5, <1>g, <1>l, <1>m DEF SentRecords
<1>t. CASE torn'
  BY <1>1, <1>5, <1>t
<1>6. CASE WritePayload /\ ~torn'
  <2>1. wpc = "payload" /\ wpc' = "count" /\ wmsg' = wmsg
    BY <1>6 DEF WritePayload
  <2>t. ~torn
    BY <1>6, Zenon DEF WritePayload
  <2>2. f = Header /\ g >= Header
    <3>1. g = written' /\ f = Header
      BY <1>f, <1>g, <2>1 DEF InFlight
    <3>2. written' = Header + wmsg'.len
      BY <1>0, <1>6, <2>1 DEF PartsTypes, PartsInv
    <3>3. wmsg.len \in Nat
      BY <2>1, InFlightType DEF StreamInv, PartsTypes, PlaceInv, WriterTypes
    <3> QED
      BY <1>3, <2>1, <3>1, <3>2, <3>3
  <2>3. l <= total + g /\ \A j \in 1..g : total + j <= l => j \in 1..f
    BY <1>3, <1>4, <2>2, <2>t
  <2>5. \A j \in 1..g : total + j <= l => sent[total + j] = [msg |-> m, at |-> j]
    BY <1>3, <1>m, <2>1, <2>3, <2>t
  <2> QED
    BY <1>1, <1>5, <2>3, <2>5
<1>7. CASE ~WritePayload /\ ~torn'
  <2>1. f = 0
    BY <1>f, <1>7
       DEF InFlight, ReadProducer, FirstFile, SameFile, NextFile, CountFile, WriteLength
  <2>t. ~torn
    <3>1. CASE WriteLength
      BY <1>7, <3>1, Zenon DEF WriteLength
    <3>2. CASE ReadProducer \/ FirstFile \/ SameFile \/ NextFile \/ CountFile
      BY <1>7, <3>2 DEF ReadProducer, FirstFile, SameFile, NextFile, CountFile
    <3> QED
      BY <1>7, <3>1, <3>2
  <2>2. l <= total + g /\ \A j \in 1..g : ~(total + j <= l)
    BY <1>3, <1>4, <2>1, <2>t
  <2> QED
    BY <1>1, <1>5, <2>2
<1> QED
  BY <1>t, <1>6, <1>7

\* Counting a message makes its record one of the log's, where it is.
LEMMA CountTotalKeepsSent ==
    ASSUME StreamInv, NEW start, RecordsInv(start), SentRecords(start), sent' = sent, CountTotal,
           "create" \notin Faults
    PROVE  SentInv'
<1>t. CASE torn
  <2>1. /\ UNCHANGED <<disk, fds, torn, intact>> /\ torn' /\ total' = total + written
        /\ total \in Nat /\ written \in Nat
    BY <1>t DEF CountTotal, StreamInv, PartsTypes, PlaceInv, WriterTypes
  <2>2. PlaceInv'
    <3>1. [FileNext]_fileVars
      BY DEF FileNext, Writer
    <3> QED
      BY <3>1, StepParts DEF StreamInv, PartsTypes
  <2>3. FilesKept
    BY <2>1, OthersKeep DEF StreamInv, PartsTypes
  <2>4. InFlight' = 0 /\ total <= total'
    BY <2>1 DEF InFlight, CountTotal
  <2>5. RecordsInv(start)'
    BY <1>t, <2>1, <2>2, <2>3, <2>4, RecordsKept DEF StreamInv, PartsTypes
  <2>6. SentRecords(start)'
    BY <2>1 DEF SentRecords
  <2> QED
    BY <2>5, <2>6 DEF SentInv
<1>u. SUFFICES ASSUME ~torn PROVE SentInv'
  BY <1>t
<1>a. PICK n : n = Len(intact)
  OBVIOUS
<1>m. PICK m : m = wmsg
  OBVIOUS
<1>1. /\ wpc = "count" /\ wpc' = "cumulate" /\ total' = total + written
      /\ intact' = Append(intact, m) /\ torn' = torn
  BY <1>m, <1>u DEF CountTotal
<1>2. /\ intact \in Seq(Messages) /\ n \in Nat /\ DOMAIN intact = 1..n
      /\ m \in Messages /\ total \in Nat /\ written = Header + m.len /\ written \in Nat
      /\ InFlight = written
  <2>1. /\ intact \in Seq(Messages) /\ m \in Messages /\ total \in Nat
        /\ written = Header + m.len /\ written \in Nat
    BY <1>1, <1>m, <1>u DEF StreamInv, PartsTypes, PartsInv, PlaceInv, WriterTypes
  <2> QED
    BY <1>1, <1>a, <1>m, <2>1, LenProperties DEF InFlight
<1>3. PICK s : RecordsInv(s)' /\ \A k \in 1..n + 1 : s[k] = start[k]
  BY <1>a, <1>u, CountTotalKeepsRecords DEF StreamInv
<1>4. start[n + 1] = total
  BY <1>a, <1>u DEF RecordsInv
<1>5. /\ DOMAIN intact' = 1..n + 1 /\ intact'[n + 1] = m
      /\ \A k \in 1..n : intact'[k] = intact[k]
  BY <1>1, <1>2, <1>a
<1>6. InFlight' = 0 /\ Len(sent) \in Nat /\ Len(sent) <= total'
  <2>1. InFlight' = 0
    BY <1>1 DEF InFlight
  <2> QED
    BY <1>1, <1>2, <1>u, <2>1, LenProperties DEF StreamInv, SenderInv, SentRecords
<1>7. ASSUME NEW k \in 1..n + 1, NEW j \in 1..Header + intact'[k].len,
             s[k] + j <= Len(sent)
      PROVE  sent[s[k] + j] = [msg |-> intact'[k], at |-> j]
  <2>1. CASE k = n + 1
    <3>1. s[k] = total /\ intact'[k] = wmsg /\ j \in 1..InFlight
      BY <1>2, <1>3, <1>4, <1>5, <1>7, <1>m, <2>1
    <3> QED
      BY <1>7, <1>u, <3>1 DEF SentRecords
  <2>2. CASE k # n + 1
    <3>1. k \in 1..n /\ k \in DOMAIN intact
      BY <1>2, <2>2
    <3>2. s[k] = start[k] /\ intact'[k] = intact[k]
      BY <1>3, <1>5, <3>1
    <3> QED
      BY <1>7, <3>1, <3>2 DEF SentRecords
  <2> QED
    BY <2>1, <2>2
<1>8. \A j \in 1..InFlight' : FALSE
  BY <1>6
<1>9. SentRecords(s)'
  <2>1. total' + 0 = total'
    BY <1>1, <1>2
  <2> QED
    BY <1>5, <1>6, <1>7, <1>8, <2>1 DEF SentRecords
<1> QED
  BY <1>3, <1>9 DEF SentInv

\* Every step keeps what was sent in the log.
LEMMA StepSent ==
    ASSUME "create" \notin Faults, Apple, StreamInv, SentInv, [StreamNext]_streamVars
    PROVE  SentInv'
<1>1. PICK start : RecordsInv(start) /\ SentRecords(start)
  BY DEF SentInv
<1>2. CASE SendChunk
  BY <1>1, <1>2, SendChunkKeepsSent DEF SentInv
<1>3. CASE ReadProducer /\ UNCHANGED <<socketVars, senderVars>>
  BY <1>1, <1>3, WriterKeepsSent DEF SentInv, senderVars
<1>4. CASE StreamWriter
  BY <1>1, <1>4, WriterKeepsSent, CountTotalKeepsSent DEF SentInv, StreamWriter, Writer, senderVars
<1>5. CASE UNCHANGED <<disk, fds, total, wpc, wmsg, written, torn, intact, sent>>
  <2>1. RecordsInv(start)'
    BY <1>1, <1>5, ReaderKeepsRecords
  <2>2. SentRecords(start)'
    BY <1>1, <1>5 DEF SentRecords, InFlight
  <2> QED
    BY <2>1, <2>2 DEF SentInv
<1>6. CASE \/ UNCHANGED streamVars
           \/ PollStream \/ NoConsumer \/ get_next_fd \/ FailChunk
           \/ SkipFile /\ UNCHANGED <<socketVars, senderVars>>
           \/ NoFile /\ target' = NoFd /\ UNCHANGED <<socketVars, sent, overtaken>>
           \/ Acceptor
           \/ \E c \in Peers : (Connect(c) \/ Close(c)) /\ UNCHANGED <<fileVars, senderVars>>
  <2>1. UNCHANGED <<disk, writerVars, sent>>
    BY <1>6 DEF streamVars, fileVars, senderVars, PollStream, NoConsumer, get_next_fd, FailChunk,
                Quiet, SkipFile, NoFile, Acceptor
  <2> QED
    BY <1>5, <2>1 DEF writerVars
<1> QED
  BY <1>2, <1>3, <1>4, <1>6 DEF StreamNext, StreamReader

\* Nothing is sent at the start.
LEMMA InitSent == StreamInit => SentInv
<1> SUFFICES ASSUME StreamInit PROVE SentInv
  OBVIOUS
<1>1. /\ intact = <<>> /\ torn = FALSE /\ fetched = <<>> /\ total = 0 /\ position = 0
      /\ wpc = "read" /\ rpc = "poll" /\ sent = <<>>
  BY DEF StreamInit, FileInit, MemoryInit
<1>2. RecordsInv([k \in 1..1 |-> 0])
  BY <1>1, EmptyLog DEF LogFrom
<1>3. InFlight = 0 /\ DOMAIN intact = {} /\ Len(sent) = 0
  BY <1>1 DEF InFlight
<1>4. SentRecords([k \in 1..1 |-> 0])
  BY <1>1, <1>3 DEF SentRecords
<1> QED
  BY <1>2, <1>4 DEF SentInv

\* The records of the log, one after the other, are what was sent, as far as both go.
LEMMA CountedRecords ==
    ASSUME StreamInv, NEW start, RecordsInv(start), SentRecords(start),
           NEW flat, flat = FlattenSeq([i \in DOMAIN intact |-> Record1(intact[i])]),
           NEW end, end = start[Len(intact) + 1]
    PROVE  /\ end \in Nat /\ (~torn => end = total)
           /\ flat \in Seq(Byte) /\ Len(flat) = end
           /\ \A x \in 1..end : x <= Len(sent) => flat[x] = sent[x]
<1>0. end \in Nat /\ (~torn => end = total)
  <2>1. Len(intact) + 1 \in 1..Len(intact) + 1
    BY LenProperties DEF StreamInv, PartsTypes, PlaceInv, WriterTypes
  <2> QED
    BY <2>1 DEF RecordsInv
<1> SUFFICES /\ flat \in Seq(Byte) /\ Len(flat) = end
             /\ \A x \in 1..end : x <= Len(sent) => flat[x] = sent[x]
  BY <1>0
<1>a. PICK n : n = Len(intact)
  OBVIOUS
<1>b. PICK seqs : seqs = [i \in DOMAIN intact |-> Record1(intact[i])]
  OBVIOUS
<1>c. PICK l : l = Len(sent)
  OBVIOUS
<1>1. /\ n \in Nat /\ DOMAIN intact = 1..n /\ \A k \in 1..n : intact[k] \in Messages
      /\ l \in Nat
  BY <1>a, <1>c, LenProperties, ElementOfSeq
     DEF StreamInv, SenderInv, PartsTypes, PlaceInv, WriterTypes
<1>2. ASSUME NEW k \in 1..n
      PROVE  /\ seqs[k] \in Seq(Byte) /\ Len(seqs[k]) = Header + intact[k].len
             /\ \A j \in 1..Header + intact[k].len : seqs[k][j] = [msg |-> intact[k], at |-> j]
  <2>a. PICK m : m = intact[k]
    OBVIOUS
  <2>b. PICK h \in Nat : h = Header + m.len
    BY <1>1, <2>a, MessageProperties, HeaderAssumption
  <2>1. /\ Bytes(m, 1, h) \in Seq(Byte)
        /\ Len(Bytes(m, 1, h)) = h - 1 + 1
        /\ \A j \in 1..(h - 1 + 1) : Bytes(m, 1, h)[j] = [msg |-> m, at |-> 1 + j - 1]
    <3>1. m \in Messages /\ 1 \in Nat \ {0} /\ 1 <= h + 1
      BY <1>1, <2>a, <2>b
    <3> QED
      BY <3>1, BytesProperties
  <2>2. h - 1 + 1 = h /\ \A j \in 1..h : 1 + j - 1 = j
    BY <2>b
  <2>3. seqs[k] = Bytes(m, 1, h)
    BY <1>1, <1>b, <2>a, <2>b DEF Record1
  <2> QED
    BY <2>1, <2>2, <2>3, <2>a, <2>b
<1>3. seqs \in Seq(Seq(Byte)) /\ Len(seqs) = n
  <2>1. seqs \in [1..n -> Seq(Byte)]
    BY <1>1, <1>2, <1>b
  <2> QED
    BY <1>1, <2>1
<1>4. /\ start \in [1..n + 1 -> Nat] /\ start[1] = 0 /\ start[n + 1] = end
      /\ \A k \in 1..n : start[k + 1] = start[k] + (Header + intact[k].len)
  BY <1>1, <1>a DEF RecordsInv
<1>5. CASE n = 0
  <2>1. FlattenSeq(seqs) = seqs /\ seqs = <<>>
    BY <1>3, <1>5 DEF FlattenSeq
  <2>2. n + 1 = 1 /\ end = 0
    BY <1>4, <1>5
  <2>3. flat = <<>>
    BY <1>b, <2>1
  <2>4. \A x \in 1..end : FALSE
    BY <2>2
  <2>5. flat \in Seq(Byte) /\ Len(flat) = end
    BY <2>2, <2>3
  <2> QED
    BY <2>4, <2>5
<1>6. CASE n # 0
  <2>1. n \in Nat \ {0}
    BY <1>1, <1>6
  <2>2. \A k \in 1..n : start[k + 1] = start[k] + Len(seqs[k])
    BY <1>2, <1>4
  <2>3. ASSUME NEW k \in 1..n, NEW j \in 1..Len(seqs[k]), start[k] + j <= l
        PROVE  sent[start[k] + j] = seqs[k][j]
    <3>1. j \in 1..Header + intact[k].len /\ seqs[k][j] = [msg |-> intact[k], at |-> j]
      BY <1>2
    <3> QED
      BY <1>1, <1>c, <2>3, <3>1 DEF SentRecords
  <2>4. PlacesIn(sent, l, seqs, n, start)
    BY <1>1, <1>3, <1>4, <2>1, <2>2, <2>3 DEF PlacesIn
  <2>5. /\ FlattenSeq(seqs) \in Seq(Byte)
        /\ Len(FlattenSeq(seqs)) = start[n + 1]
        /\ \A x \in 1..start[n + 1] : x <= l => FlattenSeq(seqs)[x] = sent[x]
    BY ONLY <1>3, <2>4, FlattenAgrees
  <2> QED
    BY <1>4, <1>b, <1>c, <2>5
<1> QED
  BY <1>5, <1>6

\* Where sendfile is called as on Apple, the bytes that were sent, whoever got them,
\* are the bytes of the log from its start, each once and in order, for any messages
\* and files, while the writer writes, rolls over and is between two of its counts,
\* and consumers fail and are replaced; and still begin with those of the log up to
\* there if a write stops half way (consumer.h: sendfile_to_socket, file_details.h:
\* send_file).
THEOREM SentIsLogPrefixHolds ==
    ASSUME "create" \notin Faults, Apple
    PROVE  StreamSpec => []SentIsLogPrefix
<1>1. StreamInv /\ SentInv => SentIsLogPrefix
  <2> SUFFICES ASSUME StreamInv, SentInv PROVE SentIsLogPrefix
    OBVIOUS
  <2>1. PICK start : RecordsInv(start) /\ SentRecords(start)
    BY DEF SentInv
  <2>a. PICK flat : flat = FlattenSeq([i \in DOMAIN intact |-> Record1(intact[i])])
    OBVIOUS
  <2>b. PICK rest : rest = IF wpc \in {"length", "payload", "count"} /\ ~torn
                             THEN Record1(wmsg) ELSE <<>>
    OBVIOUS
  <2>c. PICK l : l = Len(sent)
    OBVIOUS
  <2>d. PICK r : r = Len(rest)
    OBVIOUS
  <2>e. PICK f : f = IF torn THEN 0 ELSE InFlight
    OBVIOUS
  <2>g. PICK end : end = start[Len(intact) + 1]
    OBVIOUS
  <2>2. /\ end \in Nat /\ flat \in Seq(Byte) /\ Len(flat) = end
        /\ \A x \in 1..end : x <= l => flat[x] = sent[x]
        /\ ~torn => end = total
    <3>1. /\ end \in Nat /\ (~torn => end = total)
          /\ flat \in Seq(Byte) /\ Len(flat) = end
          /\ \A x \in 1..end : x <= Len(sent) => flat[x] = sent[x]
      BY <2>1, <2>a, <2>g, CountedRecords
    <3> QED
      BY <2>c, <3>1
  <2>3. /\ rest \in Seq(Byte) /\ r \in Nat /\ f \in Nat /\ f <= r
        /\ \A j \in 1..f : rest[j] = [msg |-> wmsg, at |-> j]
    <3>1. CASE wpc \in {"length", "payload", "count"} /\ ~torn
      <4>a. PICK m : m = wmsg
        OBVIOUS
      <4>1. m \in Messages /\ m.len \in Nat /\ Header \in Nat
        BY <3>1, <4>a, InFlightType, HeaderAssumption
           DEF StreamInv, PartsTypes, PlaceInv, WriterTypes
      <4>b. PICK h \in Nat : h = Header + m.len
        BY <4>1
      <4>2. /\ Bytes(m, 1, h) \in Seq(Byte)
            /\ Len(Bytes(m, 1, h)) = h - 1 + 1
            /\ \A j \in 1..(h - 1 + 1) : Bytes(m, 1, h)[j] = [msg |-> m, at |-> 1 + j - 1]
        <5>1. 1 \in Nat \ {0} /\ 1 <= h + 1
          BY <4>b
        <5> QED
          BY <4>1, <5>1, BytesProperties
      <4>3. h - 1 + 1 = h /\ \A j \in 1..h : 1 + j - 1 = j
        BY <4>b
      <4>4. rest = Bytes(m, 1, h)
        BY <2>b, <3>1, <4>a, <4>b DEF Record1
      <4>5. f \in {0, Header, h}
        <5>1. wpc = "count" => written = Header + wmsg.len
          BY <3>1 DEF StreamInv, PartsTypes, PartsInv
        <5> QED
          BY <2>e, <3>1, <4>a, <4>b, <5>1 DEF InFlight
      <4>6. r = h /\ f \in Nat /\ f <= h
        BY <2>d, <4>1, <4>2, <4>3, <4>4, <4>5, <4>b
      <4>7. \A j \in 1..f : j \in 1..h
        BY <4>6
      <4> QED
        BY <4>2, <4>3, <4>4, <4>6, <4>7, <4>a
    <3>2. CASE ~(wpc \in {"length", "payload", "count"} /\ ~torn)
      <4>1. rest = <<>> /\ f = 0
        BY <2>b, <2>e, <3>2 DEF InFlight
      <4>2. rest \in Seq(Byte) /\ r = 0
        BY <2>d, <4>1
      <4> QED
        BY <4>1, <4>2
    <3> QED
      BY <3>1, <3>2
  <2>w. PICK w : w = flat \o rest
    OBVIOUS
  <2>4. total \in Nat /\ l \in Nat /\ sent \in Seq(Byte) /\ (~torn => l <= end + f)
    BY <2>1, <2>2, <2>c, <2>e, LenProperties
       DEF StreamInv, SenderInv, PartsTypes, PlaceInv, WriterTypes, SentRecords
  <2>5. /\ w \in Seq(Byte) /\ Len(w) = end + r
        /\ \A x \in 1..end + r : w[x] = IF x <= end THEN flat[x] ELSE rest[x - end]
    <3>1. /\ flat \o rest \in Seq(Byte)
          /\ Len(flat \o rest) = Len(flat) + Len(rest)
          /\ \A x \in 1..Len(flat) + Len(rest) :
                (flat \o rest)[x] = IF x <= Len(flat) THEN flat[x] ELSE rest[x - Len(flat)]
      <4>1. flat \in Seq(Byte) /\ rest \in Seq(Byte)
        BY <2>2, <2>3
      <4> QED
        BY ONLY <4>1, ConcatIs
    <3> QED
      BY <2>2, <2>d, <2>w, <3>1
  <2>6. ASSUME NEW x \in 1..l, x <= end + f PROVE sent[x] = w[x]
    <3>1. x \in 1..end + r
      BY <2>2, <2>3, <2>4, <2>6
    <3>2. CASE x <= end
      <4>1. x \in 1..end /\ x <= l
        BY <2>4, <3>2
      <4> QED
        BY <2>2, <2>5, <3>1, <3>2, <4>1
    <3>3. CASE ~(x <= end)
      <4>1. x - end \in 1..f /\ end + (x - end) = x /\ x <= l
        BY <2>2, <2>3, <2>4, <2>6, <3>3
      <4>a. PICK y \in 1..f : y = x - end
        BY <4>1
      <4>2. ~torn /\ y \in 1..InFlight /\ total + y = x
        <5>1. f # 0
          BY <2>3, <4>a
        <5> QED
          BY <2>2, <2>e, <4>1, <4>a, <5>1
      <4>3. sent[x] = [msg |-> wmsg, at |-> y]
        BY <2>1, <2>c, <4>1, <4>2 DEF SentRecords
      <4> QED
        BY <2>3, <2>5, <3>1, <3>3, <4>a, <4>3
    <3> QED
      BY <3>2, <3>3
  <2>9. LogBytes = w
    BY <2>a, <2>b, <2>w DEF LogBytes
  <2>7. CASE l <= end + f
    <3>1. l <= Len(w)
      BY <2>2, <2>3, <2>4, <2>5, <2>7
    <3>2. \A x \in 1..l : sent[x] = w[x]
      BY <2>2, <2>3, <2>4, <2>6, <2>7
    <3>3. SubSeq(sent, 1, l) = SubSeq(w, 1, l)
      BY <2>4, <2>5, <3>1, <3>2, <2>c
    <3> QED
      BY <2>9, <2>c, <3>1, <3>3 DEF SentIsLogPrefix, IsPrefix
  <2>8. CASE ~(l <= end + f)
    <3>1. torn /\ f = 0 /\ r = 0
      <4>1. torn
        BY <2>4, <2>8
      <4>2. rest = <<>> /\ f = 0
        BY <2>b, <2>e, <4>1
      <4> QED
        BY <2>d, <4>1, <4>2
    <3>2. Len(w) = end /\ end <= l
      BY <2>2, <2>3, <2>4, <2>5, <2>8, <3>1
    <3>3. \A x \in 1..end : sent[x] = w[x]
      BY <2>4, <2>6, <3>1, <3>2
    <3>4. SubSeq(sent, 1, end) = SubSeq(w, 1, end)
      BY <2>4, <2>5, <3>2, <3>3, <2>c
    <3> QED
      BY <2>9, <2>c, <3>1, <3>2, <3>4 DEF SentIsLogPrefix, IsPrefix
  <2> QED
    BY <2>7, <2>8
<1>2. StreamInv /\ [StreamNext]_streamVars => StreamInv'
  BY StepStream
<1>3. StreamInv /\ SentInv /\ [StreamNext]_streamVars => SentInv'
  BY StepSent
<1> QED
  BY <1>1, <1>2, <1>3, StreamInitInv, InitSent, PTL DEF StreamSpec
=============================================================================
