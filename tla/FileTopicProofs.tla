--------------------------- MODULE FileTopicProofs ---------------------------
(***************************************************************************)
(* Proofs about FileTopic, for every set of payload lengths, every file    *)
(* size they fit in, any number of messages and any number of restarts.    *)
(***************************************************************************)
EXTENDS FileTopic, SequenceTheorems, TLAPS

\* An abbreviation in the UNCHANGED of the actions.
USE DEF logVars

-----------------------------------------------------------------------------
(***************************************************************************)
(* The operators of the model.                                             *)
(***************************************************************************)

Byte == [msg : Messages, at : Nat]
FdSet == [file : 0..MaxMsgs, offset : Nat, cum : Nat]

\* pwrite keeps what is before the offset and puts the bytes there.
LEMMA PWriteProperties ==
    ASSUME NEW file \in Seq(Byte), NEW offset \in 0..Len(file), NEW bytes \in Seq(Byte)
    PROVE  /\ PWrite(file, offset, bytes) \in Seq(Byte)
           /\ Len(PWrite(file, offset, bytes)) >= offset + Len(bytes)
           /\ \A j \in 1..offset : PWrite(file, offset, bytes)[j] = file[j]
           /\ \A j \in 1..Len(bytes) : PWrite(file, offset, bytes)[offset + j] = bytes[j]
<1> DEFINE head == SubSeq(file, 1, offset)
           tail == SubSeq(file, offset + Len(bytes) + 1, Len(file))
<1>1. Len(file) \in Nat /\ Len(bytes) \in Nat /\ offset \in Nat /\ offset <= Len(file)
  BY LenProperties
<1>2. /\ head \in Seq(Byte) /\ Len(head) = offset
      /\ \A j \in 1..offset : head[j] = file[j]
  BY <1>1, SubSeqProperties
<1>3. tail \in Seq(Byte) /\ Len(tail) \in Nat
  <2>1. tail \in Seq(Byte)
    BY <1>1, SubSeqProperties
  <2> QED
    BY <2>1, LenProperties
<1> HIDE DEF head, tail
<1>4. /\ head \o bytes \in Seq(Byte) /\ Len(head \o bytes) = offset + Len(bytes)
      /\ \A j \in 1..offset : (head \o bytes)[j] = file[j]
      /\ \A j \in 1..Len(bytes) : (head \o bytes)[offset + j] = bytes[j]
  <2>1. head \o bytes \in Seq(Byte) /\ Len(head \o bytes) = offset + Len(bytes)
    BY <1>2, ConcatProperties
  <2>2. ASSUME NEW j \in 1..Len(bytes) PROVE (head \o bytes)[offset + j] = bytes[j]
    <3>1. offset + j \in 1..(Len(head) + Len(bytes)) /\ ~(offset + j <= Len(head))
          /\ (offset + j) - Len(head) = j
      BY <1>1, <1>2
    <3> QED
      BY <1>2, <3>1, ConcatProperties
  <2>3. ASSUME NEW j \in 1..offset PROVE (head \o bytes)[j] = file[j]
    <3>1. j \in 1..(Len(head) + Len(bytes)) /\ j <= Len(head)
      BY <1>1, <1>2
    <3> QED
      BY <1>2, <3>1, ConcatProperties
  <2> QED
    BY <2>1, <2>2, <2>3
<1>5. PWrite(file, offset, bytes) = (head \o bytes) \o tail
  BY DEF PWrite, head, tail
<1> DEFINE hb == head \o bytes
<1>6. /\ hb \in Seq(Byte) /\ Len(hb) = offset + Len(bytes)
      /\ \A j \in 1..offset : hb[j] = file[j]
      /\ \A j \in 1..Len(bytes) : hb[offset + j] = bytes[j]
      /\ PWrite(file, offset, bytes) = hb \o tail
  BY <1>4, <1>5
<1> HIDE DEF hb
<1>7. /\ hb \o tail \in Seq(Byte) /\ Len(hb \o tail) = Len(hb) + Len(tail)
      /\ \A j \in 1..Len(hb) : (hb \o tail)[j] = hb[j]
  <2>1. hb \o tail \in Seq(Byte) /\ Len(hb \o tail) = Len(hb) + Len(tail)
    BY <1>3, <1>6, ConcatProperties
  <2>2. ASSUME NEW j \in 1..Len(hb) PROVE (hb \o tail)[j] = hb[j]
    <3>1. j \in 1..(Len(hb) + Len(tail)) /\ j <= Len(hb)
      BY <1>1, <1>3, <1>6
    <3> QED
      BY <1>3, <1>6, <3>1, ConcatProperties
  <2> QED
    BY <2>1, <2>2
<1>8. \A j \in 1..offset : (hb \o tail)[j] = file[j]
  BY <1>1, <1>6, <1>7
<1>9. \A j \in 1..Len(bytes) : (hb \o tail)[offset + j] = bytes[j]
  BY <1>1, <1>6, <1>7
<1> QED
  BY <1>1, <1>3, <1>6, <1>7, <1>8, <1>9

\* The bytes of a part of a record.
LEMMA BytesProperties ==
    ASSUME NEW m \in Messages, NEW first \in Nat \ {0}, NEW last \in Nat, first <= last + 1
    PROVE  /\ Bytes(m, first, last) \in Seq(Byte)
           /\ Len(Bytes(m, first, last)) = last - first + 1
           /\ \A j \in 1..(last - first + 1) :
                 Bytes(m, first, last)[j] = [msg |-> m, at |-> first + j - 1]
<1>1. last - first + 1 \in Nat
  OBVIOUS
<1>2. \A j \in 1..(last - first + 1) : [msg |-> m, at |-> first + j - 1] \in Byte
  BY DEF Byte
<1> DEFINE n == last - first + 1
           b == Bytes(m, first, last)
<1>3. /\ n \in Nat /\ b \in [1..n -> Byte] /\ DOMAIN b = 1..n
      /\ \A j \in 1..n : b[j] = [msg |-> m, at |-> first + j - 1]
  BY <1>1, <1>2 DEF Bytes
<1> HIDE DEF n, b
<1>4. b \in Seq(Byte)
  BY <1>3
<1>5. Len(b) \in Nat /\ 1..Len(b) = 1..n
  BY <1>3, <1>4, LenProperties
<1>6. Len(b) = n
  BY <1>3, <1>5
<1> USE DEF n, b
<1> QED
  BY <1>3, <1>4, <1>6

\* What read_msg makes of a file is a message, or none, and a number.
LEMMA RecordType ==
    ASSUME NEW file \in Seq(Byte), NEW at \in Int
    PROVE  Record(file, at) \subseteq [result : Int, msg : Messages \cup {Nothing}]
<1>1. CASE at < 0 \/ at >= Len(file)
  BY <1>1 DEF Record
<1>2. CASE ~(at < 0 \/ at >= Len(file))
  <2>1. at + 1 \in 1..Len(file) /\ DOMAIN file = 1..Len(file)
    BY <1>2, LenProperties
  <2>2. file[at + 1] \in Byte
    BY <2>1, ElementOfSeq
  <2> DEFINE m == file[at + 1].msg
  <2>3. m \in Messages /\ m.len \in Nat
    BY <2>2, FileLengthsAssumption DEF Byte, Messages
  <2> HIDE DEF m
  <2>4. Header + m.len \in Int
    BY <2>3, HeaderAssumption
  <2>5. \A n \in 0..MaxFileSize : n \in Int
    BY FileSizeAssumption
  <2> DEFINE Whole(msg) == [result |-> Header + m.len, msg |-> msg]
  <2>6. \A r \in Record(file, at) :
           \/ \E n \in 0..MaxFileSize : r = [result |-> n, msg |-> Nothing]
           \/ r = [result |-> m.len, msg |-> Nothing]
           \/ r = Whole(m)
           \/ r = Whole(Nothing)
    BY <1>2 DEF Record, m
  <2>7. \A msg \in {m, Nothing} : Whole(msg) \in [result : Int, msg : Messages \cup {Nothing}]
    BY <2>3, <2>4
  <2> QED
    BY <2>3, <2>5, <2>6, <2>7
<1> QED
  BY <1>1, <1>2

\* A part of a file that holds the bytes of a record, as read_msg compares it.
LEMMA SubSeqIsBytes ==
    ASSUME NEW file \in Seq(Byte), NEW at \in Nat, NEW m \in Messages,
           NEW first \in Nat \ {0}, NEW last \in Nat, first <= last,
           at + last <= Len(file),
           \A j \in first..last : file[at + j] = [msg |-> m, at |-> j]
    PROVE  SubSeq(file, at + first, at + last) = Bytes(m, first, last)
<1> DEFINE s == SubSeq(file, at + first, at + last)
           b == Bytes(m, first, last)
           n == last - first + 1
<1>1. /\ n \in Nat /\ n >= 1 /\ at + first \in Int /\ at + last \in Int
      /\ at + first <= at + last /\ (at + last) - (at + first) + 1 = n
  OBVIOUS
<1>2. Len(file) \in Nat /\ \A j \in 1..Len(file) : file[j] \in Byte
  BY LenProperties, ElementOfSeq
<1>3. \A j \in at + first..at + last : file[j] \in Byte
  <2> SUFFICES ASSUME NEW j \in at + first..at + last PROVE file[j] \in Byte
    OBVIOUS
  <2>1. j \in 1..Len(file)
    BY <1>2
  <2> QED
    BY <1>2, <2>1
<1>4. /\ s \in Seq(Byte) /\ Len(s) = n
      /\ \A j \in 1..n : s[j] = file[at + first + j - 1]
  <2> DEFINE p == at + first
             q == at + last
  <2>1. p \in Int /\ q \in Int /\ p <= q /\ q - p + 1 = n
    BY <1>1
  <2>2. \A j \in p..q : file[j] \in Byte
    BY <1>3
  <2> HIDE DEF p, q
  <2>3. /\ SubSeq(file, p, q) \in Seq(Byte)
        /\ Len(SubSeq(file, p, q)) = q - p + 1
        /\ \A j \in 1..(q - p + 1) : SubSeq(file, p, q)[j] = file[p + j - 1]
    BY <2>1, <2>2, SubSeqProperties
  <2> USE DEF p, q
  <2> QED
    BY <2>1, <2>3
<1>5. /\ b \in Seq(Byte) /\ Len(b) = n
      /\ \A j \in 1..n : b[j] = [msg |-> m, at |-> first + j - 1]
  <2>1. first <= last + 1
    OBVIOUS
  <2> QED
    BY <2>1, BytesProperties
<1> HIDE DEF s, b
<1>6. ASSUME NEW j \in 1..n PROVE s[j] = b[j]
  <2>1. first + j - 1 \in first..last /\ at + first + j - 1 = at + (first + j - 1)
    BY <1>1
  <2>2. file[at + (first + j - 1)] = [msg |-> m, at |-> first + j - 1]
    BY <2>1
  <2> QED
    BY <1>4, <1>5, <2>1, <2>2
<1>7. s = b
  <2> HIDE DEF n
  <2> QED
    BY <1>4, <1>5, <1>6, SeqEqual
<1> QED
  BY <1>7 DEF s, b

\* A record that lies whole in a file is what read_msg finds at its offset.
LEMMA RecordFound ==
    ASSUME NEW file \in Seq(Byte), NEW at \in Nat, NEW m \in Messages,
           at + Header + m.len <= Len(file),
           \A j \in 1..(Header + m.len) : file[at + j] = [msg |-> m, at |-> j]
    PROVE  Record(file, at) = {[result |-> Header + m.len, msg |-> m]}
<1> DEFINE k == m.len
<1>1. k \in Nat /\ k >= 1
  <2>1. k \in Nat \ {0}
    BY FileLengthsAssumption DEF Messages
  <2> QED
    BY <2>1
<1>2. Header \in Nat /\ Header >= 2 /\ Len(file) \in Nat
  BY HeaderAssumption, LenProperties
<1>3. at + Header + k <= Len(file) /\ \A j \in 1..(Header + k) : file[at + j] = [msg |-> m, at |-> j]
  OBVIOUS
<1> HIDE DEF k
<1>4. file[at + 1] = [msg |-> m, at |-> 1]
  BY <1>1, <1>2, <1>3
<1>5. SubSeq(file, at + 1, at + Header) = Bytes(m, 1, Header)
  <2>1. /\ 1 <= Header /\ at + Header <= Len(file)
        /\ \A j \in 1..Header : file[at + j] = [msg |-> m, at |-> j]
    BY <1>1, <1>2, <1>3
  <2> QED
    <3>a. PICK one \in Nat \ {0} : one = 1
      OBVIOUS
    <3>1. /\ one <= Header
          /\ \A j \in one..Header : file[at + j] = [msg |-> m, at |-> j]
      BY <2>1, <3>a
    <3>2. SubSeq(file, at + one, at + Header) = Bytes(m, one, Header)
      <4>1. /\ file \in Seq(Byte) /\ at \in Nat /\ m \in Messages
            /\ Header \in Nat /\ at + Header <= Len(file)
        BY <1>2, <2>1
      <4> QED
        BY ONLY <3>1, <4>1, SubSeqIsBytes
    <3> QED
      BY <3>2, <3>a, Zenon
<1>6. SubSeq(file, at + (Header + 1), at + (Header + k)) = Bytes(m, Header + 1, Header + k)
  <2>1. /\ Header + 1 \in Nat \ {0} /\ Header + k \in Nat /\ Header + 1 <= Header + k
        /\ at + (Header + k) <= Len(file)
        /\ \A j \in Header + 1..Header + k : file[at + j] = [msg |-> m, at |-> j]
    BY <1>1, <1>2, <1>3
  <2> QED
    BY <2>1, SubSeqIsBytes
<1>7. /\ ~(at < 0 \/ at >= Len(file)) /\ ~(at + Header >= Len(file))
      /\ at + Header <= Len(file) /\ at + (Header + k) <= Len(file)
  BY <1>1, <1>2, <1>3
<1> USE DEF k
<1> QED
  BY <1>4, <1>5, <1>6, <1>7 DEF Record

\* A total is between two multiples of the file size.
LEMMA DivBounds ==
    ASSUME NEW n \in Nat, NEW m \in Nat \ {0}
    PROVE  /\ (n \div m) \in Nat
           /\ (n \div m) * m <= n
           /\ n < ((n \div m) + 1) * m
OBVIOUS

\* Multiples are in the order of their factors.
LEMMA Factors ==
    ASSUME NEW a \in Nat, NEW b \in Nat, NEW m \in Nat \ {0}, a * m < b * m
    PROVE  a < b
OBVIOUS

-----------------------------------------------------------------------------
(***************************************************************************)
(* The inductive invariant.                                                *)
(***************************************************************************)

\* The types of what the writer keeps ...
WriterTypes ==
    /\ disk \in [0..MaxMsgs -> Seq(Byte)]
    /\ fds \in Seq(FdSet)
    /\ total \in Nat
    /\ written \in Nat
    /\ wpc \in WriterPhases
    /\ wpc = "stopped" => storage = "file"
    /\ wmsg \in Messages \cup {Nothing}
    /\ wmsg = Nothing <=> wpc = "read"
    /\ published \in 0..MaxMsgs
    /\ committed \in Seq(Messages)
    /\ torn \in BOOLEAN
    /\ intact \in Seq(Messages)

\* ... and the reader, whatever its phases are.
ReaderTypes ==
    /\ ri \in 1..(Len(fds) + 1)
    /\ roff \in Int
    /\ position \in Nat
    /\ rmsg \in Messages \cup {Nothing}
    /\ fetched \in Seq(Messages \cup {Nothing})

\* The writer writes to the last of its files, the i-th is the one numbered i - 1,
\* and there are not more of them than messages: the total never passes two
\* multiples of the file size at once.
FilesInv ==
    /\ \A i \in DOMAIN fds : fds[i].file = i - 1 /\ fds[i].offset <= Len(disk[i - 1])
    /\ current = IF fds = <<>> THEN 0 ELSE Len(fds) - 1
    /\ fds = <<>> => wpc \in {"read", "select", "stopped"} /\ total = 0
    /\ Len(fds) <= published
    /\ wpc = "select" => Len(fds) < published
    /\ fds # <<>> => total < (Len(fds) + 1) * MaxFileSize
    /\ wpc \in {"length", "payload", "count"} => total < Len(fds) * MaxFileSize
    /\ wpc = "count" => written <= Header + wmsg.len

PlaceInv == WriterTypes /\ ReaderTypes /\ FilesInv

\* On a file topic the messages are counted without a gap, up to the one that is
\* being written.
CountingInv ==
    storage = "file" =>
        /\ wpc \in {"select", "length", "payload", "count"} => wmsg.num = published
        /\ wpc # "stopped" /\ committed # <<>> =>
              committed[Len(committed)].num =
                  IF wpc \in {"read", "cumulate"} THEN published ELSE published - 1
        /\ \A i \in 1..(Len(committed) - 1) : committed[i + 1].num = committed[i].num + 1

\* Where a file begins and where its bytes end, as offsets in the log.
Base(i) == IF i > 1 THEN fds[i - 1].cum ELSE 0
End(i) == Base(i) + fds[i].offset

\* What has been counted in the current file, and what is in it and will be added
\* to the total.
Counted == IF wpc = "cumulate" THEN total - written ELSE total
InFlight ==
    IF wpc = "payload" THEN Header
    ELSE IF wpc = "count" THEN written
    ELSE 0

\* The bytes of a file reach to an offset of the log; unless a write stopped half
\* way, they end there.
HoldsUpTo(i, at) == at <= End(i) /\ (~torn => at = End(i))

\* The files are parts of the log, one after the other.
PartsInv ==
    /\ \A i \in 1..(Len(fds) - 1) : HoldsUpTo(i, fds[i].cum)
    /\ \A i, j \in DOMAIN fds : i < j => fds[i].cum <= Base(j)
    /\ fds # <<>> =>
          /\ HoldsUpTo(Len(fds), total + InFlight)
          /\ Base(Len(fds)) <= Counted
          /\ \/ fds[Len(fds)].cum = Counted
             \/ fds[Len(fds)].cum = 0 /\ Counted = Base(Len(fds))
    /\ wpc \in {"count", "cumulate"} /\ ~torn => written = Header + wmsg.len

\* The first n bytes of the record of m are in the i-th file, at offset at of the log.
HasRecord(i, at, m, n) ==
    /\ i \in DOMAIN fds
    /\ Base(i) <= at
    /\ at + n <= End(i)
    /\ \A j \in 1..n : disk[i - 1][at - Base(i) + j] = [msg |-> m, at |-> j]

\* The whole record is, in the part of the file that is counted, and no file before
\* has bytes that are not.
HasWhole(i, at, m) ==
    /\ HasRecord(i, at, m, Header + m.len)
    /\ i < Len(fds) => at + (Header + m.len) <= fds[i].cum
    /\ \A h \in 1..i - 1 : fds[h].cum = End(h)

\* Each record that was counted before a write stopped half way lies whole in one
\* file, where the lengths of those before it say, and so does what is in flight,
\* after them.
RecordsInv(start) ==
    /\ start \in [1..(Len(intact) + 1) -> Nat]
    /\ start[1] = 0
    /\ ~torn => start[Len(intact) + 1] = total
    /\ \A k \in 1..(Len(intact) + 1) : start[k] <= total
    /\ \A k \in DOMAIN intact :
          /\ start[k + 1] = start[k] + (Header + intact[k].len)
          /\ \E i \in DOMAIN fds : HasWhole(i, start[k], intact[k])
    /\ InFlight > 0 /\ ~torn => HasRecord(Len(fds), total, wmsg, InFlight)

\* The reader has not come to where a write stopped half way.
BeforeTear == Len(fetched) < Len(intact) \/ ~torn

\* Up to there it is where a record begins, and what it fetched are the records
\* before.
FetchInv(start) ==
    /\ ~torn => Len(fetched) <= Len(intact)
    /\ \A k \in DOMAIN fetched : k <= Len(intact) => fetched[k] = intact[k]
    /\ BeforeTear => /\ position = start[Len(fetched) + 1]
                     /\ rpc = "scan" => roff = position \/ roff < 0

\* The log, with the places where its records begin.
LogFrom(start) == RecordsInv(start) /\ FetchInv(start)

\* The invariant of the log.
LogInv == PlaceInv /\ PartsInv /\ \E start : LogFrom(start)

-----------------------------------------------------------------------------
(***************************************************************************)
(* Files and types.                                                        *)
(***************************************************************************)

\* A message is one that fits into a file.
LEMMA MessageProperties ==
    ASSUME NEW m \in Messages
    PROVE  /\ m.len \in Nat \ {0} /\ m.num \in 1..MaxMsgs
           /\ m # Nothing
           /\ Header + m.len <= MaxFileSize /\ Header + m.len \in Nat
           /\ MaxFileSize \in Nat \ {0}
<1>1. m.len \in Lengths /\ m.num \in 1..MaxMsgs
  BY DEF Messages
<1>2. m.len \in Nat \ {0} /\ Header + m.len <= MaxFileSize /\ MaxFileSize \in Nat
  BY <1>1, FileLengthsAssumption, FileSizeAssumption
<1>3. m # Nothing
  BY <1>1, FileBoundsAssumption DEF Nothing
<1> QED
  BY <1>1, <1>2, <1>3, HeaderAssumption

\* The files, one by one.
LEMMA FdsProperties ==
    ASSUME WriterTypes
    PROVE  /\ Len(fds) \in Nat /\ DOMAIN fds = 1..Len(fds)
           /\ \A i \in 1..Len(fds) : /\ fds[i] \in FdSet
                                     /\ fds[i].file \in 0..MaxMsgs
                                     /\ fds[i].offset \in Nat /\ fds[i].cum \in Nat
           /\ fds = <<>> <=> Len(fds) = 0
<1>1. fds \in Seq(FdSet)
  BY DEF WriterTypes
<1>2. Len(fds) \in Nat /\ DOMAIN fds = 1..Len(fds)
  BY <1>1, LenProperties
<1>3. \A i \in 1..Len(fds) : fds[i] \in FdSet
  BY <1>1, ElementOfSeq
<1>4. fds = <<>> <=> Len(fds) = 0
  BY <1>1, EmptySeq
<1> QED
  BY <1>2, <1>3, <1>4 DEF FdSet

\* What writing bytes does to the current file, and to no other.
LEMMA WriteEffect ==
    ASSUME PlaceInv, fds # <<>>, NEW bytes \in Seq(Byte), Write(bytes),
           NEW n, n = Len(fds), NEW o, o = fds[n].offset
    PROVE  /\ n \in Nat \ {0} /\ o \in Nat /\ n - 1 \in 0..MaxMsgs
           /\ disk' \in [0..MaxMsgs -> Seq(Byte)]
           /\ \A f \in 0..MaxMsgs : f # n - 1 => disk'[f] = disk[f]
           /\ Len(disk'[n - 1]) >= o + Len(bytes)
           /\ \A j \in 1..o : disk'[n - 1][j] = disk[n - 1][j]
           /\ \A j \in 1..Len(bytes) : disk'[n - 1][o + j] = bytes[j]
           /\ fds' \in Seq(FdSet) /\ Len(fds') = n
           /\ \A i \in 1..n : fds'[i].file = fds[i].file /\ fds'[i].cum = fds[i].cum
           /\ \A i \in 1..n - 1 : fds'[i] = fds[i]
           /\ fds'[n].offset = o + Len(bytes)
<1>1. /\ n \in Nat \ {0} /\ DOMAIN fds = 1..n /\ n \in 1..n
      /\ o \in Nat /\ fds[n] \in FdSet /\ current + 1 = n
      /\ fds[n].file = n - 1 /\ n - 1 \in 0..MaxMsgs /\ o <= Len(disk[n - 1])
      /\ \A i \in 1..n : fds[i] \in FdSet
  BY FdsProperties DEF PlaceInv, FilesInv
<1>a. fds \in [1..n -> FdSet]
  BY <1>1, LenProperties DEF PlaceInv, WriterTypes
<1>2. Len(bytes) \in Nat
  BY LenProperties
<1>3. /\ disk' = [disk EXCEPT ![n - 1] = PWrite(@, o, bytes)]
      /\ fds' = [fds EXCEPT ![n].offset = @ + Len(bytes)]
  BY <1>1 DEF Write, Fd
<1>4. disk[n - 1] \in Seq(Byte) /\ disk \in [0..MaxMsgs -> Seq(Byte)]
  BY <1>1 DEF PlaceInv, WriterTypes
<1>5. o \in 0..Len(disk[n - 1])
  BY <1>1, <1>4, LenProperties
<1>6. disk'[n - 1] = PWrite(disk[n - 1], o, bytes)
  BY <1>1, <1>3, <1>4
<1>7. /\ disk'[n - 1] \in Seq(Byte)
      /\ Len(disk'[n - 1]) >= o + Len(bytes)
      /\ \A j \in 1..o : disk'[n - 1][j] = disk[n - 1][j]
      /\ \A j \in 1..Len(bytes) : disk'[n - 1][o + j] = bytes[j]
  BY <1>4, <1>5, <1>6, PWriteProperties, SMTT(30)
<1>8. /\ disk' \in [0..MaxMsgs -> Seq(Byte)]
      /\ \A f \in 0..MaxMsgs : f # n - 1 => disk'[f] = disk[f]
  BY <1>1, <1>3, <1>4, <1>6, <1>7
<1>9. /\ \A i \in 1..n - 1 : fds'[i] = fds[i]
      /\ fds'[n] = [fds[n] EXCEPT !.offset = @ + Len(bytes)]
      /\ DOMAIN fds' = 1..n
  <2>1. fds' = [fds EXCEPT ![n] = [fds[n] EXCEPT !.offset = @ + Len(bytes)]]
    BY <1>3
  <2>2. fds'[n] = [fds[n] EXCEPT !.offset = @ + Len(bytes)] /\ DOMAIN fds' = 1..n
    BY <1>1, <1>a, <2>1
  <2>3. ASSUME NEW i \in 1..n - 1 PROVE fds'[i] = fds[i]
    <3>1. i \in 1..n /\ i # n
      BY <1>1
    <3> QED
      BY <1>a, <2>1, <3>1
  <2> QED
    BY <2>2, <2>3
<1>10. /\ fds'[n].file = fds[n].file /\ fds'[n].cum = fds[n].cum
       /\ fds'[n].offset = o + Len(bytes) /\ fds'[n] \in FdSet
  <2> DEFINE fd == fds[n]
             l == Len(bytes)
  <2>1. /\ fd \in [file : 0..MaxMsgs, offset : Nat, cum : Nat] /\ l \in Nat
        /\ fds'[n] = [fd EXCEPT !.offset = @ + l] /\ o = fd.offset
    BY <1>1, <1>2, <1>9 DEF FdSet
  <2> HIDE DEF fd, l
  <2>2. /\ fds'[n].file = fd.file /\ fds'[n].cum = fd.cum /\ fds'[n].offset = o + l
        /\ fds'[n] \in [file : 0..MaxMsgs, offset : Nat, cum : Nat]
    BY <2>1
  <2> QED
    BY <2>2 DEF fd, l, FdSet
<1>11. fds' \in Seq(FdSet) /\ Len(fds') = n
  <2>1. fds' \in [1..n -> FdSet]
    BY <1>1, <1>3, <1>9, <1>10
  <2>2. fds' \in Seq(FdSet)
    BY <1>1, <2>1, SMTT(30)
  <2>3. Len(fds') \in Nat /\ 1..Len(fds') = 1..n
    BY <1>9, <2>2, LenProperties
  <2> QED
    BY <1>1, <2>2, <2>3
<1>12. \A i \in 1..n : fds'[i].file = fds[i].file /\ fds'[i].cum = fds[i].cum
  <2> SUFFICES ASSUME NEW i \in 1..n
               PROVE  fds'[i].file = fds[i].file /\ fds'[i].cum = fds[i].cum
    OBVIOUS
  <2>1. CASE i = n
    BY <1>10, <2>1
  <2>2. CASE i # n
    BY <1>1, <1>9, <2>2
  <2> QED
    BY <2>1, <2>2
<1> QED
  BY <1>1, <1>7, <1>8, <1>9, <1>10, <1>11, <1>12

\* Writing bytes keeps the places.
LEMMA WriteKeepsFiles ==
    ASSUME PlaceInv, fds # <<>>, NEW bytes \in Seq(Byte), Write(bytes)
    PROVE  /\ disk' \in [0..MaxMsgs -> Seq(Byte)]
           /\ fds' \in Seq(FdSet) /\ Len(fds') = Len(fds) /\ fds' # <<>>
           /\ \A i \in DOMAIN fds' : fds'[i].file = i - 1 /\ fds'[i].offset <= Len(disk'[i - 1])
<1> DEFINE n == Len(fds)
           o == fds[n].offset
<1>1. /\ n \in Nat \ {0} /\ o \in Nat /\ n - 1 \in 0..MaxMsgs
      /\ disk' \in [0..MaxMsgs -> Seq(Byte)]
      /\ \A f \in 0..MaxMsgs : f # n - 1 => disk'[f] = disk[f]
      /\ Len(disk'[n - 1]) >= o + Len(bytes)
      /\ fds' \in Seq(FdSet) /\ Len(fds') = n
      /\ \A i \in 1..n : fds'[i].file = fds[i].file
      /\ \A i \in 1..n - 1 : fds'[i] = fds[i]
      /\ fds'[n].offset = o + Len(bytes)
  <2>1. n = Len(fds) /\ o = fds[n].offset
    OBVIOUS
  <2> HIDE DEF n, o
  <2> QED
    BY <2>1, WriteEffect
<1>2. DOMAIN fds' = 1..n /\ fds' # <<>>
  BY <1>1, LenProperties, EmptySeq
<1>3. \A i \in 1..n : fds[i].file = i - 1 /\ fds[i].offset <= Len(disk[i - 1])
                        /\ fds[i].file \in 0..MaxMsgs
  BY FdsProperties DEF PlaceInv, FilesInv
<1> HIDE DEF n, o
<1>4. ASSUME NEW i \in 1..n
      PROVE  fds'[i].file = i - 1 /\ fds'[i].offset <= Len(disk'[i - 1])
  <2>1. CASE i = n
    BY <1>1, <1>3, <2>1
  <2>2. CASE i # n
    <3>1. i \in 1..n - 1 /\ i - 1 # n - 1
      BY <1>1, <2>2
    <3>2. i - 1 \in 0..MaxMsgs
      BY <1>3
    <3>3. disk'[i - 1] = disk[i - 1] /\ fds'[i] = fds[i]
      BY <1>1, <3>1, <3>2
    <3> QED
      BY <1>3, <3>3
  <2> QED
    BY <2>1, <2>2
<1> QED
  BY <1>1, <1>2, <1>4 DEF n

\* The steps that leave the writer's side alone.
LEMMA WriterUnchanged ==
    ASSUME PlaceInv, UNCHANGED <<disk, writerVars, crashVars>>, ReaderTypes'
    PROVE  PlaceInv'
BY DEF PlaceInv, WriterTypes, FilesInv, writerVars, crashVars

\* The steps that leave the reader's side alone: no file is taken away.
LEMMA ReaderUnchanged ==
    ASSUME ReaderTypes, UNCHANGED readerVars, Len(fds) \in Nat, Len(fds') \in Nat,
           Len(fds') >= Len(fds)
    PROVE  ReaderTypes'
<1>1. ri \in 1..(Len(fds') + 1)
  BY DEF ReaderTypes
<1> QED
  BY <1>1 DEF ReaderTypes, readerVars

\* Before and after a step of the writer that writes no bytes and begins no file.
LEMMA FdsUnchanged ==
    ASSUME PlaceInv, UNCHANGED <<disk, fds, current, readerVars>>, WriterTypes',
           fds = <<>> => wpc' \in {"read", "select", "stopped"} /\ total' = 0,
           Len(fds) <= published',
           wpc' = "select" => Len(fds) < published',
           fds # <<>> => total' < (Len(fds) + 1) * MaxFileSize,
           wpc' \in {"length", "payload", "count"} => total' < Len(fds) * MaxFileSize,
           wpc' = "count" => written' <= Header + wmsg'.len
    PROVE  PlaceInv'
<1>1. Len(fds) \in Nat
  BY FdsProperties DEF PlaceInv
<1>2. ReaderTypes'
  BY <1>1, ReaderUnchanged DEF PlaceInv
<1>3. FilesInv'
  BY DEF PlaceInv, FilesInv
<1> QED
  BY <1>2, <1>3 DEF PlaceInv

\* The files when the current one remembers the total t.
Closed(t) == [fds EXCEPT ![current + 1].cum = t]

\* Setting what the current file remembers keeps everything else.
LEMMA SetCum ==
    ASSUME PlaceInv, fds # <<>>, NEW t \in Nat
    PROVE  /\ Closed(t) \in Seq(FdSet) /\ Len(Closed(t)) = Len(fds) /\ Len(fds) \in Nat \ {0}
           /\ \A i \in 1..Len(fds) : /\ Closed(t)[i].file = fds[i].file
                                     /\ Closed(t)[i].offset = fds[i].offset
           /\ \A i \in 1..Len(fds) - 1 : Closed(t)[i] = fds[i]
           /\ Closed(t)[Len(fds)].cum = t
<1> DEFINE n == Len(fds)
           closed == Closed(t)
<1>1. /\ n \in Nat \ {0} /\ DOMAIN fds = 1..n /\ n \in 1..n
      /\ current + 1 = n /\ \A i \in 1..n : fds[i] \in FdSet
  BY FdsProperties DEF PlaceInv, FilesInv
<1>2. /\ \A i \in 1..n - 1 : closed[i] = fds[i]
      /\ closed[n] = [fds[n] EXCEPT !.cum = t]
      /\ DOMAIN closed = 1..n
  <2>1. closed = [fds EXCEPT ![n] = [fds[n] EXCEPT !.cum = t]] /\ fds \in [1..n -> FdSet]
    BY <1>1, LenProperties DEF Closed, PlaceInv, WriterTypes
  <2> HIDE DEF closed
  <2> QED
    BY <1>1, <2>1
<1>3. /\ closed[n].file = fds[n].file /\ closed[n].offset = fds[n].offset
      /\ closed[n].cum = t /\ closed[n] \in FdSet
  <2> DEFINE fd == fds[n]
  <2>1. fd \in [file : 0..MaxMsgs, offset : Nat, cum : Nat] /\ closed[n] = [fd EXCEPT !.cum = t]
    BY <1>1, <1>2 DEF FdSet
  <2> HIDE DEF fd, closed
  <2>2. /\ closed[n].file = fd.file /\ closed[n].offset = fd.offset /\ closed[n].cum = t
        /\ closed[n] \in [file : 0..MaxMsgs, offset : Nat, cum : Nat]
    BY <2>1
  <2> QED
    BY <2>2 DEF fd, FdSet
<1> HIDE DEF n, closed
<1>4. closed \in [1..n -> FdSet]
  <2>1. closed = [fds EXCEPT ![n] = closed[n]] /\ fds \in [1..n -> FdSet]
    BY <1>1, <1>2, LenProperties DEF closed, Closed, PlaceInv, WriterTypes
  <2> QED
    BY <1>3, <2>1
<1>5. closed \in Seq(FdSet) /\ Len(closed) = n
  <2>1. closed \in Seq(FdSet)
    BY <1>1, <1>4
  <2>2. Len(closed) \in Nat /\ 1..Len(closed) = 1..n
    BY <1>2, <2>1, LenProperties
  <2> QED
    BY <1>1, <2>1, <2>2
<1>6. \A i \in 1..n : closed[i].file = fds[i].file /\ closed[i].offset = fds[i].offset
  <2> SUFFICES ASSUME NEW i \in 1..n
               PROVE  closed[i].file = fds[i].file /\ closed[i].offset = fds[i].offset
    OBVIOUS
  <2>1. CASE i = n
    BY <1>3, <2>1
  <2>2. CASE i # n
    BY <1>1, <1>2, <2>2
  <2> QED
    BY <2>1, <2>2
<1> QED
  BY <1>1, <1>2, <1>3, <1>5, <1>6 DEF n, closed

\* The next file is the one after the current one.
LEMMA NextFileNumber ==
    ASSUME PlaceInv, fds # <<>>, wpc = "select", total \div MaxFileSize > current
    PROVE  /\ (total \div MaxFileSize) = Len(fds)
           /\ total < (Len(fds) + 1) * MaxFileSize
<1> DEFINE n == Len(fds)
           q == (total \div MaxFileSize)
<1>1. n \in Nat \ {0} /\ current = n - 1 /\ total \in Nat /\ total < (n + 1) * MaxFileSize
  BY FdsProperties DEF PlaceInv, FilesInv, WriterTypes
<1>2. MaxFileSize \in Nat \ {0}
  BY MessageProperties DEF PlaceInv, WriterTypes
<1>3. q \in Nat /\ q * MaxFileSize <= total
  BY <1>1, <1>2, DivBounds
<1>4. q > current
  OBVIOUS
<1> HIDE DEF n, q
<1>5. q * MaxFileSize < (n + 1) * MaxFileSize
  BY <1>1, <1>2, <1>3
<1>6. q < n + 1
  BY <1>1, <1>2, <1>3, <1>5, Factors
<1> QED
  BY <1>1, <1>3, <1>4, <1>6 DEF n, q

\* The steps of the writer that choose the file.
LEMMA SelectKeepsPlace ==
    ASSUME PlaceInv, "create" \notin Faults, FirstFile \/ SameFile \/ NextFile
    PROVE  PlaceInv'
<1>1. CASE FirstFile
  <2>1. /\ wpc = "select" /\ fds = <<>> /\ fds' = <<NewFile(current)>> /\ wpc' = "length"
        /\ UNCHANGED <<disk, current, total, wmsg, written, published, committed,
                       torn, intact, readerVars, crashVars>>
    BY <1>1 DEF FirstFile
  <2>2. current = 0 /\ total = 0 /\ 0 < published /\ published \in 0..MaxMsgs
    BY <2>1, FdsProperties DEF PlaceInv, FilesInv, WriterTypes
  <2>3. NewFile(current) \in FdSet /\ NewFile(current).file = 0 /\ NewFile(current).offset = 0
    BY <2>2, FileBoundsAssumption DEF NewFile, FdSet
  <2>4. fds' \in Seq(FdSet) /\ Len(fds') = 1 /\ DOMAIN fds' = {1} /\ fds'[1] = NewFile(current)
    BY <2>1, <2>3
  <2>5. wmsg \in Messages /\ wpc \in WriterPhases
    BY <2>1 DEF PlaceInv, WriterTypes
  <2>6. MaxFileSize \in Nat \ {0} /\ wmsg # Nothing
    BY <2>5, MessageProperties
  <2>7. WriterTypes'
    BY <2>1, <2>4, <2>6 DEF PlaceInv, WriterTypes, WriterPhases, crashVars
  <2>8. 0 < 1 * MaxFileSize /\ 0 < (1 + 1) * MaxFileSize
    BY <2>6
  <2>9. Len(disk[0]) \in Nat
    BY FileBoundsAssumption, LenProperties DEF PlaceInv, WriterTypes
  <2>10. \A i \in DOMAIN fds' : fds'[i].file = i - 1 /\ fds'[i].offset <= Len(disk'[i - 1])
    BY <2>1, <2>3, <2>4, <2>9
  <2>11. current' = IF fds' = <<>> THEN 0 ELSE Len(fds') - 1
    BY <2>1, <2>2, <2>4
  <2>12. FilesInv'
    BY <2>1, <2>2, <2>4, <2>8, <2>10, <2>11 DEF FilesInv
  <2>13. ReaderTypes'
    <3>1. Len(fds) = 0
      BY <2>1
    <3> QED
      BY <2>1, <2>4, <3>1, ReaderUnchanged DEF PlaceInv
  <2> QED
    BY <2>7, <2>12, <2>13 DEF PlaceInv
<1>2. CASE SameFile
  <2>1. /\ wpc = "select" /\ fds # <<>> /\ total \div MaxFileSize <= current /\ wpc' = "length"
        /\ UNCHANGED <<disk, fds, current, total, wmsg, written, published, committed,
                       torn, intact, readerVars, crashVars>>
    BY <1>2 DEF SameFile
  <2>2. wmsg \in Messages /\ wmsg # Nothing /\ MaxFileSize \in Nat \ {0}
    BY <2>1, MessageProperties DEF PlaceInv, WriterTypes
  <2>3. WriterTypes'
    BY <2>1, <2>2 DEF PlaceInv, WriterTypes, WriterPhases, crashVars
  <2> DEFINE n == Len(fds)
             q == (total \div MaxFileSize)
  <2>4. n \in Nat \ {0} /\ current = n - 1 /\ total \in Nat
    BY <2>1, FdsProperties DEF PlaceInv, FilesInv, WriterTypes
  <2>5. q \in Nat /\ total < (q + 1) * MaxFileSize /\ q <= n - 1
    BY <2>1, <2>2, <2>4, DivBounds
  <2> HIDE DEF n, q
  <2>6. (q + 1) * MaxFileSize <= n * MaxFileSize
    BY <2>2, <2>4, <2>5
  <2>7. n * MaxFileSize \in Nat /\ (q + 1) * MaxFileSize \in Nat
    BY <2>2, <2>4, <2>5
  <2>8. total < n * MaxFileSize
    BY <2>4, <2>5, <2>6, <2>7
  <2> USE DEF n
  <2> QED
    BY <2>1, <2>3, <2>8, FdsUnchanged DEF PlaceInv, FilesInv
<1>3. CASE NextFile
  <2> DEFINE n == Len(fds)
             closed == Closed(total)
  <2>1. /\ wpc = "select" /\ fds # <<>> /\ total \div MaxFileSize > current /\ wpc' = "length"
        /\ current' = total \div MaxFileSize
        /\ fds' = Append(closed, NewFile(current'))
        /\ UNCHANGED <<disk, total, wmsg, written, published, committed, torn, intact,
                       readerVars, crashVars>>
    BY <1>3 DEF NextFile, Closed
  <2>2. current' = n /\ total < (n + 1) * MaxFileSize
    BY <2>1, NextFileNumber
  <2>3. /\ total \in Nat /\ n < published /\ published \in 0..MaxMsgs
        /\ \A i \in 1..n : fds[i].file = i - 1 /\ fds[i].offset <= Len(disk[i - 1])
    BY <2>1, FdsProperties DEF PlaceInv, FilesInv, WriterTypes
  <2>4. /\ closed \in Seq(FdSet) /\ Len(closed) = n /\ n \in Nat \ {0}
        /\ \A i \in 1..n : closed[i].file = fds[i].file /\ closed[i].offset = fds[i].offset
    BY <2>1, <2>3, SetCum
  <2> HIDE DEF n, closed
  <2>5. NewFile(n) \in FdSet /\ NewFile(n).file = n /\ NewFile(n).offset = 0
    BY <2>3, <2>4, FileBoundsAssumption DEF NewFile, FdSet
  <2>6. /\ fds' \in Seq(FdSet) /\ Len(fds') = n + 1 /\ DOMAIN fds' = 1..n + 1
        /\ \A i \in 1..n : fds'[i] = closed[i]
        /\ fds'[n + 1] = NewFile(n) /\ fds' # <<>>
    <3>1. fds' \in Seq(FdSet) /\ Len(fds') = n + 1
      BY <2>1, <2>2, <2>4, <2>5, AppendProperties
    <3> QED
      BY <2>1, <2>2, <2>4, <2>5, <3>1, AppendProperties, LenProperties, EmptySeq
  <2>7. wmsg \in Messages /\ wmsg # Nothing /\ MaxFileSize \in Nat \ {0}
    BY <2>1, MessageProperties DEF PlaceInv, WriterTypes
  <2>8. WriterTypes'
    BY <2>1, <2>6, <2>7 DEF PlaceInv, WriterTypes, WriterPhases, crashVars
  <2>9. Len(disk[n]) \in Nat
    BY <2>3, <2>4, LenProperties DEF PlaceInv, WriterTypes
  <2>10. ASSUME NEW i \in DOMAIN fds'
         PROVE  fds'[i].file = i - 1 /\ fds'[i].offset <= Len(disk'[i - 1])
    <3>1. CASE i \in 1..n
      BY <2>1, <2>3, <2>4, <2>6, <3>1
    <3>2. CASE i = n + 1
      BY <2>1, <2>4, <2>5, <2>6, <2>9, <3>2
    <3> QED
      BY <2>4, <2>6, <3>1, <3>2
  <2>11. current' = IF fds' = <<>> THEN 0 ELSE Len(fds') - 1
    BY <2>2, <2>4, <2>6
  <2>12. total < ((n + 1) + 1) * MaxFileSize
    <3>1. (n + 1) * MaxFileSize <= ((n + 1) + 1) * MaxFileSize
      BY <2>4, <2>7
    <3>2. (n + 1) * MaxFileSize \in Nat /\ ((n + 1) + 1) * MaxFileSize \in Nat
      BY <2>4, <2>7
    <3> QED
      BY <2>2, <2>3, <3>1, <3>2
  <2>13. FilesInv'
    <3>1. n + 1 <= published
      BY <2>3, <2>4
    <3>2. Len(fds') <= published' /\ fds' # <<>> /\ wpc' = "length" /\ wpc' # "count"
      BY <2>1, <2>6, <3>1
    <3>3. total' < (Len(fds') + 1) * MaxFileSize /\ total' < Len(fds') * MaxFileSize
      BY <2>1, <2>2, <2>6, <2>12
    <3> QED
      BY <2>1, <2>10, <2>11, <3>2, <3>3 DEF FilesInv
  <2>14. ReaderTypes'
    BY <2>1, <2>4, <2>6, ReaderUnchanged DEF PlaceInv, n
  <2> QED
    BY <2>8, <2>13, <2>14 DEF PlaceInv
<1> QED
  BY <1>1, <1>2, <1>3

\* The steps of the writer that write bytes.
LEMMA WritingKeepsPlace ==
    ASSUME PlaceInv, WriteLength \/ WritePayload
    PROVE  PlaceInv'
<1>1. /\ wpc \in {"length", "payload"} /\ fds # <<>> /\ wpc # "read"
      /\ wmsg \in Messages /\ wmsg # Nothing /\ torn' \in BOOLEAN
      /\ UNCHANGED <<current, total, published, committed, intact, readerVars, crashVars>>
  BY DEF WriteLength, WritePayload, PlaceInv, WriterTypes, FilesInv
<1>2. /\ wmsg.len \in Nat /\ wmsg.len >= 1 /\ Header \in Nat /\ Header >= 2
      /\ total < Len(fds) * MaxFileSize /\ total < (Len(fds) + 1) * MaxFileSize
      /\ Len(fds) <= published /\ Len(fds) \in Nat /\ current = Len(fds) - 1
  <2>1. wmsg.len \in Nat \ {0}
    BY <1>1, MessageProperties
  <2> QED
    BY <1>1, <2>1, HeaderAssumption, FdsProperties DEF PlaceInv, FilesInv
<1>3. ASSUME NEW bytes \in Seq(Byte), Write(bytes), wpc' \in {"payload", "count"} => wmsg' = wmsg,
             wpc' \in WriterPhases \ {"select", "length"}, written' \in Nat,
             wpc' = "stopped" => storage = "file",
             wmsg' \in {wmsg, Nothing}, wmsg' = Nothing <=> wpc' = "read",
             wpc' = "count" => written' <= Header + wmsg.len
      PROVE  PlaceInv'
  <2>1. /\ disk' \in [0..MaxMsgs -> Seq(Byte)]
        /\ fds' \in Seq(FdSet) /\ Len(fds') = Len(fds) /\ fds' # <<>>
        /\ \A i \in DOMAIN fds' : fds'[i].file = i - 1 /\ fds'[i].offset <= Len(disk'[i - 1])
    BY <1>1, <1>3, WriteKeepsFiles
  <2>2. WriterTypes'
    BY <1>1, <1>3, <2>1 DEF PlaceInv, WriterTypes, crashVars
  <2>3. FilesInv'
    BY <1>1, <1>2, <1>3, <2>1 DEF FilesInv
  <2>4. ReaderTypes'
    BY <1>1, <1>2, <2>1, ReaderUnchanged DEF PlaceInv
  <2> QED
    BY <2>2, <2>3, <2>4 DEF PlaceInv
<1>4. CASE WriteLength
  <2>1. CASE Write(Bytes(wmsg, 1, Header)) /\ wpc' = "payload" /\ UNCHANGED wmsg
    <3>1. Bytes(wmsg, 1, Header) \in Seq(Byte)
      <4>1. 1 \in Nat \ {0} /\ 1 <= Header + 1
        BY <1>2
      <4> QED
        BY <1>1, <1>2, <4>1, BytesProperties
    <3>2. written' \in Nat
      BY <1>4 DEF WriteLength, PlaceInv, WriterTypes
    <3> QED
      BY <1>1, <1>3, <2>1, <3>1, <3>2 DEF WriterPhases
  <2>2. ASSUME NEW n \in 0..Header - 1, Write(Bytes(wmsg, 1, n)), WriteFails
        PROVE  PlaceInv'
    <3>1. Bytes(wmsg, 1, n) \in Seq(Byte)
      <4>1. 1 \in Nat \ {0} /\ n \in Nat /\ 1 <= n + 1
        BY <1>2
      <4> QED
        BY <1>1, <4>1, BytesProperties
    <3>2. written' \in Nat
      BY <1>4 DEF WriteLength, PlaceInv, WriterTypes
    <3> QED
      BY <1>1, <1>3, <2>2, <3>1, <3>2 DEF WriterPhases, WriteFails
  <2> QED
    BY <1>4, <2>1, <2>2 DEF WriteLength
<1>5. CASE WritePayload
  <2>1. PICK n \in {wmsg.len} \cup (IF "payload" \in Faults THEN 0..wmsg.len - 1 ELSE {}) :
          /\ Write(Bytes(wmsg, Header + 1, Header + n))
          /\ written' = Header + (IF n = 0 THEN -1 ELSE n)
    BY <1>5 DEF WritePayload
  <2>2. n \in Nat /\ n <= wmsg.len
    BY <1>2
  <2>3. /\ Header + 1 \in Nat \ {0} /\ Header + n \in Nat /\ Header + 1 <= Header + n + 1
        /\ written' \in Nat /\ written' <= Header + wmsg.len
    BY <1>2, <2>1, <2>2
  <2>4. Bytes(wmsg, Header + 1, Header + n) \in Seq(Byte)
    BY <1>1, <2>3, BytesProperties
  <2> QED
    BY <1>1, <1>3, <1>5, <2>1, <2>3, <2>4 DEF WritePayload, WriterPhases
<1> QED
  BY <1>4, <1>5

\* The steps of the writer that take a message and that count it.
LEMMA CountingKeepsPlace ==
    ASSUME PlaceInv, ReadProducer \/ CountTotal \/ CountFile
    PROVE  PlaceInv'
<1>0. /\ Len(fds) \in Nat /\ Len(fds) <= published /\ published \in 0..MaxMsgs
      /\ total \in Nat
      /\ fds # <<>> => total < (Len(fds) + 1) * MaxFileSize
      /\ fds = <<>> => total = 0 /\ wpc \in {"read", "select", "stopped"}
  BY FdsProperties DEF PlaceInv, FilesInv, WriterTypes
<1>1. CASE ReadProducer
  <2>1. PICK len \in Lengths : wmsg' = [num |-> published + 1, len |-> len]
    BY <1>1 DEF ReadProducer
  <2>2. /\ wpc = "read" /\ wpc' = "select" /\ published' = published + 1
        /\ published' \in 0..MaxMsgs
        /\ UNCHANGED <<disk, fds, current, total, written, committed, torn, intact,
                       readerVars, crashVars>>
    BY <1>0, <1>1, FileBoundsAssumption DEF ReadProducer
  <2>3. wmsg' \in Messages
    BY <1>0, <2>1, <2>2 DEF Messages
  <2>4. wmsg' # Nothing
    BY <2>3, MessageProperties
  <2>5. WriterTypes'
    BY <2>2, <2>3, <2>4 DEF PlaceInv, WriterTypes, WriterPhases, crashVars
  <2>6. Len(fds) < published'
    BY <1>0, <2>2
  <2> QED
    BY <1>0, <2>2, <2>5, <2>6, FdsUnchanged
<1>2. CASE CountTotal
  <2>1. /\ wpc = "count" /\ wpc' = "cumulate" /\ total' = total + written
        /\ committed' = Append(committed, wmsg)
        /\ intact' = IF torn THEN intact ELSE Append(intact, wmsg)
        /\ UNCHANGED <<disk, fds, current, wmsg, written, published, torn, readerVars,
                       crashVars>>
    BY <1>2 DEF CountTotal
  <2>2. /\ wmsg \in Messages /\ fds # <<>> /\ written \in Nat
        /\ committed \in Seq(Messages) /\ intact \in Seq(Messages)
    BY <2>1 DEF PlaceInv, FilesInv, WriterTypes
  <2>3. wmsg # Nothing /\ written <= MaxFileSize /\ MaxFileSize \in Nat
    <3>1. Header + wmsg.len <= MaxFileSize /\ Header + wmsg.len \in Nat
      BY <2>2, MessageProperties
    <3>2. written <= Header + wmsg.len
      BY <2>1 DEF PlaceInv, FilesInv
    <3> QED
      BY <2>2, <3>1, <3>2, MessageProperties
  <2>4. WriterTypes'
    <3>1. Append(committed, wmsg) \in Seq(Messages) /\ Append(intact, wmsg) \in Seq(Messages)
      BY <2>2, AppendProperties
    <3> QED
      BY <1>0, <2>1, <2>2, <2>3, <3>1 DEF PlaceInv, WriterTypes, WriterPhases, crashVars
  <2>5. total' < (Len(fds) + 1) * MaxFileSize
    <3>1. total < Len(fds) * MaxFileSize
      BY <2>1 DEF PlaceInv, FilesInv
    <3>2. (Len(fds) + 1) * MaxFileSize = Len(fds) * MaxFileSize + MaxFileSize
      BY <1>0, <2>3
    <3>3. Len(fds) * MaxFileSize \in Nat
      BY <1>0, <2>3
    <3> QED
      BY <1>0, <2>1, <2>2, <2>3, <3>1, <3>2, <3>3
  <2> QED
    BY <1>0, <2>1, <2>2, <2>4, <2>5, FdsUnchanged
<1>3. CASE CountFile
  <2>1. /\ wpc = "cumulate" /\ wpc' = "read" /\ wmsg' = Nothing /\ fds' = Closed(total)
        /\ UNCHANGED <<disk, current, total, written, published, committed, torn, intact,
                       readerVars, crashVars>>
    BY <1>3 DEF CountFile, Closed
  <2>2. fds # <<>> /\ current = Len(fds) - 1
    BY <2>1 DEF PlaceInv, FilesInv
  <2>3. /\ fds' \in Seq(FdSet) /\ Len(fds') = Len(fds) /\ Len(fds) \in Nat \ {0}
        /\ \A i \in 1..Len(fds) : fds'[i].file = fds[i].file /\ fds'[i].offset = fds[i].offset
    BY <1>0, <2>1, <2>2, SetCum
  <2>4. DOMAIN fds' = 1..Len(fds) /\ fds' # <<>>
    BY <2>3, LenProperties, EmptySeq
  <2>5. \A i \in DOMAIN fds' : fds'[i].file = i - 1 /\ fds'[i].offset <= Len(disk'[i - 1])
    BY <2>1, <2>3, <2>4, FdsProperties DEF PlaceInv, FilesInv
  <2>6. WriterTypes'
    BY <2>1, <2>3 DEF PlaceInv, WriterTypes, WriterPhases, crashVars
  <2>7. FilesInv'
    BY <1>0, <2>1, <2>2, <2>3, <2>4, <2>5 DEF FilesInv
  <2>8. ReaderTypes'
    BY <2>1, <2>3, ReaderUnchanged DEF PlaceInv
  <2> QED
    BY <2>6, <2>7, <2>8 DEF PlaceInv
<1> QED
  BY <1>1, <1>2, <1>3

\* The offset in a file that the reader computes is a number.
LEMMA LocalOffsetType ==
    ASSUME PlaceInv, ri <= Len(fds)
    PROVE  /\ LocalOffset \in Int /\ ri \in 1..Len(fds)
           /\ disk[fds[ri].file] \in Seq(Byte)
<1>1. /\ Len(fds) \in Nat /\ ri \in 1..(Len(fds) + 1) /\ roff \in Int
      /\ \A i \in 1..Len(fds) : fds[i].cum \in Nat /\ fds[i].file \in 0..MaxMsgs
  BY FdsProperties DEF PlaceInv, ReaderTypes
<1>2. ri \in 1..Len(fds) /\ (ri > 1 => ri - 1 \in 1..Len(fds))
  BY <1>1
<1> QED
  BY <1>1, <1>2, SMTT(30) DEF LocalOffset, PlaceInv, WriterTypes

\* The steps of the reader.
LEMMA ReaderKeepsPlace ==
    ASSUME PlaceInv, Reader
    PROVE  PlaceInv'
<1>1. Len(fds) \in Nat
  BY FdsProperties DEF PlaceInv
<1>2. UNCHANGED <<disk, writerVars, crashVars>> /\ fds' = fds
  BY DEF Reader, PollFile, SkipFile, NoFile, ReadRecord, SendRecord, writerVars
<1>3. CASE PollFile
  <2>1. 1 \in 1..(Len(fds) + 1)
    BY <1>1
  <2>2. ReaderTypes'
    BY <1>2, <1>3, <2>1 DEF PollFile, PlaceInv, ReaderTypes
  <2> QED
    BY <1>2, <2>2, WriterUnchanged
<1>4. CASE SkipFile
  <2>1. ri + 1 \in 1..(Len(fds) + 1)
    BY <1>1, <1>4 DEF SkipFile, PlaceInv, ReaderTypes
  <2>2. ReaderTypes'
    BY <1>2, <1>4, <2>1 DEF SkipFile, PlaceInv, ReaderTypes
  <2> QED
    BY <1>2, <2>2, WriterUnchanged
<1>5. CASE NoFile
  <2>1. ReaderTypes'
    BY <1>2, <1>5 DEF NoFile, PlaceInv, ReaderTypes
  <2> QED
    BY <1>2, <2>1, WriterUnchanged
<1>6. CASE ReadRecord
  <2>1. PICK r \in Record(disk[fds[ri].file], LocalOffset) :
          IF r.result > 0
          THEN /\ position' = position + r.result
               /\ rmsg' = r.msg
               /\ fetched' = Append(fetched, r.msg)
               /\ rpc' = "send"
               /\ UNCHANGED <<ri, roff>>
          ELSE /\ ri' = ri + 1
               /\ roff' = LocalOffset
               /\ UNCHANGED <<rpc, position, rmsg, fetched>>
    BY <1>6 DEF ReadRecord
  <2>2. ri \in 1..Len(fds) /\ LocalOffset \in Int
    BY <1>6, LocalOffsetType DEF ReadRecord
  <2>3. r.result \in Int /\ r.msg \in Messages \cup {Nothing}
    <3>1. r \in [result : Int, msg : Messages \cup {Nothing}]
      BY <1>6, LocalOffsetType, RecordType DEF ReadRecord
    <3> QED
      BY <3>1
  <2>4. CASE r.result > 0
    <3>1. Append(fetched, r.msg) \in Seq(Messages \cup {Nothing})
      BY <2>3, AppendProperties DEF PlaceInv, ReaderTypes
    <3>2. position + r.result \in Nat
      BY <2>3, <2>4 DEF PlaceInv, ReaderTypes
    <3>3. ReaderTypes'
      BY <1>2, <2>1, <2>3, <2>4, <3>1, <3>2 DEF PlaceInv, ReaderTypes
    <3> QED
      BY <1>2, <3>3, WriterUnchanged
  <2>5. CASE ~(r.result > 0)
    <3>1. ri + 1 \in 1..(Len(fds) + 1)
      BY <1>1, <2>2
    <3>2. ReaderTypes'
      BY <1>2, <2>1, <2>2, <2>5, <3>1 DEF PlaceInv, ReaderTypes
    <3> QED
      BY <1>2, <3>2, WriterUnchanged
  <2> QED
    BY <2>4, <2>5
<1>7. CASE SendRecord
  <2>1. ReaderTypes'
    BY <1>2, <1>7 DEF SendRecord, PlaceInv, ReaderTypes
  <2> QED
    BY <1>2, <2>1, WriterUnchanged
<1> QED
  BY <1>3, <1>4, <1>5, <1>6, <1>7 DEF Reader

\* A restart begins with no file, whatever the old ones hold.
LEMMA RestartKeepsPlace ==
    ASSUME PlaceInv, Restart
    PROVE  PlaceInv'
<1>1. /\ fds' = <<>> /\ current' = 0 /\ total' = 0
      /\ wpc' = "read" /\ wmsg' = Nothing /\ written' = 0
      /\ rpc' = "poll" /\ ri' = 1 /\ roff' = 0 /\ position' = 0 /\ rmsg' = Nothing
      /\ committed' = <<>> /\ torn' = FALSE /\ intact' = <<>> /\ fetched' = <<>>
      /\ UNCHANGED <<disk, published, storage>>
  BY DEF Restart
<1>2. Len(fds') = 0 /\ published' \in 0..MaxMsgs /\ 1 \in 1..(Len(fds') + 1) /\ DOMAIN fds' = {}
  BY <1>1 DEF PlaceInv, WriterTypes
<1>3. WriterTypes'
  <2>1. fds' \in Seq(FdSet) /\ committed' \in Seq(Messages) /\ intact' \in Seq(Messages)
    BY <1>1
  <2>2. /\ disk' \in [0..MaxMsgs -> Seq(Byte)] /\ published' \in 0..MaxMsgs
        /\ total' \in Nat /\ written' \in Nat
    BY <1>1 DEF PlaceInv, WriterTypes
  <2> QED
    BY <1>1, <2>1, <2>2 DEF WriterTypes, WriterPhases
<1>4. ReaderTypes'
  BY <1>1, <1>2 DEF ReaderTypes
<1>5. FilesInv'
  BY <1>1, <1>2 DEF FilesInv
<1> QED
  BY <1>3, <1>4, <1>5 DEF PlaceInv

\* At the start there is no file.
LEMMA InitPlace == FileInit => PlaceInv
<1> SUFFICES ASSUME FileInit PROVE PlaceInv
  OBVIOUS
<1> USE DEF FileInit, MemoryInit
<1>1. WriterTypes
  <2>1. fds \in Seq(FdSet) /\ committed \in Seq(Messages) /\ intact \in Seq(Messages)
    OBVIOUS
  <2>2. disk \in [0..MaxMsgs -> Seq(Byte)] /\ published \in 0..MaxMsgs
    BY FileBoundsAssumption
  <2> QED
    BY <2>1, <2>2 DEF WriterTypes, WriterPhases
<1>2. ReaderTypes
  BY DEF ReaderTypes
<1>3. FilesInv
  BY DEF FilesInv
<1> QED
  BY <1>1, <1>2, <1>3 DEF PlaceInv

\* Every step keeps the places, as long as files can be created.
LEMMA StepPlace ==
    ASSUME "create" \notin Faults, PlaceInv, [FileNext]_fileVars
    PROVE  PlaceInv'
<1>1. CASE UNCHANGED fileVars
  BY <1>1 DEF fileVars, writerVars, readerVars, crashVars, PlaceInv, WriterTypes, ReaderTypes,
              FilesInv
<1> QED
  BY <1>1, SelectKeepsPlace, WritingKeepsPlace, CountingKeepsPlace, ReaderKeepsPlace,
     RestartKeepsPlace DEF FileNext, Writer

\* As long as files can be created, current_fd_index_ is an index of file_fds_
\* whenever the writer uses it, whatever else fails and however often the broker
\* restarts (connection_file.h: set_current_file, get_current_file).
THEOREM FileTypeCorrect ==
    ASSUME "create" \notin Faults
    PROVE  FileSpec => []FileTypeOK
<1> DEFINE Phases == rpc \in {"poll", "scan", "send"}
<1>1. PlaceInv /\ Phases => FileTypeOK
  <2> SUFFICES ASSUME PlaceInv, Phases PROVE FileTypeOK
    OBVIOUS
  <2>1. /\ Len(fds) \in Nat /\ DOMAIN fds = 1..Len(fds)
        /\ \A i \in 1..Len(fds) : fds[i] \in FdSet
        /\ fds # <<>> => Len(fds) \in Nat \ {0}
    BY FdsProperties DEF PlaceInv
  <2>a. current = IF fds = <<>> THEN 0 ELSE Len(fds) - 1
    BY DEF PlaceInv, FilesInv
  <2>2. DOMAIN disk = 0..MaxMsgs
    BY DEF PlaceInv, WriterTypes
  <2>3. CurrentInRange
    <3>1. fds # <<>> => current < Len(fds)
      BY <2>1, <2>a
    <3> QED
      BY <3>1 DEF CurrentInRange, InRange, PlaceInv, FilesInv
  <2>4. current \in Nat
    <3> DEFINE n == Len(fds)
    <3>1. (n \in Nat \ {0} => n - 1 \in Nat) /\ current = (IF fds = <<>> THEN 0 ELSE n - 1)
      BY <2>a
    <3>2. fds # <<>> => n \in Nat \ {0}
      BY <2>1
    <3> HIDE DEF n
    <3> QED
      BY <3>1, <3>2
  <2> QED
    BY <2>1, <2>2, <2>3, <2>4 DEF FileTypeOK, PlaceInv, WriterTypes, ReaderTypes, FdSet
<1>2. FileInit => Phases
  BY DEF FileInit, MemoryInit
<1>3. Phases /\ [FileNext]_fileVars => Phases'
  BY DEF FileNext, ReadProducer, Writer, FirstFile, SameFile, NextFile, WriteLength,
         WritePayload, CountTotal, CountFile, Reader, PollFile, SkipFile, NoFile, ReadRecord,
         SendRecord, Restart, fileVars, readerVars
<1> HIDE DEF Phases
<1> QED
  BY <1>1, <1>2, <1>3, InitPlace, StepPlace, PTL DEF FileSpec

-----------------------------------------------------------------------------
(***************************************************************************)
(* Gaps.                                                                   *)
(***************************************************************************)

\* What the gaps depend on: the phase, the message that is written and the ones
\* that are counted.
CountingTypes ==
    /\ wpc \in WriterPhases
    /\ published \in Nat
    /\ committed \in Seq(Messages)
    /\ wmsg \in Messages \cup {Nothing}
    /\ wmsg = Nothing <=> wpc = "read"

\* Counting keeps the order of the messages.
LEMMA CountTotalKeepsOrder ==
    ASSUME CountingTypes, CountingInv, CountTotal
    PROVE  CountingInv'
<1> DEFINE n == Len(committed)
<1>1. /\ wpc = "count" /\ wpc' = "cumulate" /\ committed' = Append(committed, wmsg)
      /\ UNCHANGED <<published, storage>>
  BY DEF CountTotal, crashVars
<1>2. wmsg \in Messages /\ committed \in Seq(Messages) /\ n \in Nat /\ published \in Nat
  BY <1>1, LenProperties DEF CountingTypes
<1>3. /\ Len(committed') = n + 1 /\ committed' # <<>>
      /\ \A i \in 1..n : committed'[i] = committed[i]
      /\ committed'[n + 1] = wmsg
  BY <1>1, <1>2, AppendProperties
<1>4. n # 0 => committed # <<>>
  OBVIOUS
<1> HIDE DEF n
<1>5. ASSUME storage = "file", NEW i \in 1..n
      PROVE  committed'[i + 1].num = committed'[i].num + 1
  <2>1. CASE i = n
    <3>1. committed[n].num = published - 1 /\ wmsg.num = published
      BY <1>1, <1>2, <1>4, <1>5, <2>1 DEF CountingInv, n
    <3> QED
      BY <1>2, <1>3, <2>1, <3>1
  <2>2. CASE i # n
    <3>1. i \in 1..n - 1 /\ i \in 1..n /\ i + 1 \in 1..n
      BY <1>2, <2>2
    <3>2. committed[i + 1].num = committed[i].num + 1
      BY <1>5, <3>1 DEF CountingInv, n
    <3> QED
      BY <1>3, <3>1, <3>2
  <2> QED
    BY <2>1, <2>2
<1>6. storage = "file" => committed'[n + 1].num = published
  BY <1>1, <1>3 DEF CountingInv
<1> QED
  BY <1>1, <1>2, <1>3, <1>5, <1>6 DEF CountingInv

\* Every step keeps CountingInv, whatever fails: a file topic's writer that fails
\* does not go on.
LEMMA StepCounting == CountingTypes /\ CountingInv /\ [FileNext]_fileVars =>
                          CountingTypes' /\ CountingInv'
<1> SUFFICES ASSUME CountingTypes, CountingInv, [FileNext]_fileVars
             PROVE  CountingTypes' /\ CountingInv'
  OBVIOUS
<1>1. CASE ReadProducer
  <2>1. PICK len \in Lengths : wmsg' = [num |-> published + 1, len |-> len]
    BY <1>1 DEF ReadProducer
  <2>2. /\ wpc = "read" /\ wpc' = "select" /\ published' = published + 1 /\ published < MaxMsgs
        /\ UNCHANGED <<committed, storage>>
    BY <1>1 DEF ReadProducer, crashVars
  <2>3. published \in Nat /\ published + 1 \in 1..MaxMsgs
    BY <2>2, FileBoundsAssumption DEF CountingTypes
  <2>4. wmsg' \in Messages /\ wmsg'.num = published + 1
    BY <2>1, <2>3 DEF Messages
  <2>5. CountingTypes'
    BY <2>2, <2>3, <2>4, MessageProperties DEF CountingTypes, WriterPhases
  <2> QED
    BY <2>2, <2>3, <2>4, <2>5 DEF CountingInv
<1>2. CASE CountTotal
  <2>1. /\ wpc = "count" /\ wpc' = "cumulate" /\ committed' = Append(committed, wmsg)
        /\ UNCHANGED <<wmsg, published>>
    BY <1>2 DEF CountTotal
  <2>2. CountingTypes'
    BY <2>1, AppendProperties DEF CountingTypes, WriterPhases
  <2> QED
    BY <1>2, <2>2, CountTotalKeepsOrder
<1>3. CASE FirstFile \/ SameFile \/ NextFile \/ WriteLength
  <2>1. /\ wpc \in {"select", "length"} /\ UNCHANGED <<published, committed, storage>>
        /\ \/ wpc' \in {"length", "payload"} /\ UNCHANGED wmsg
           \/ storage = "file" /\ wpc' = "stopped" /\ UNCHANGED wmsg
           \/ storage # "file" /\ wpc' = "read" /\ wmsg' = Nothing
    BY <1>3 DEF FirstFile, SameFile, NextFile, WriteLength, WriteFails, crashVars
  <2>2. CountingTypes'
    BY <2>1 DEF CountingTypes, WriterPhases
  <2> QED
    BY <2>1, <2>2 DEF CountingInv
<1>4. CASE WritePayload
  <2>1. wpc = "payload" /\ wpc' = "count" /\ UNCHANGED <<wmsg, published, committed, storage>>
    BY <1>4 DEF WritePayload, crashVars
  <2> QED
    BY <2>1 DEF CountingTypes, CountingInv, WriterPhases
<1>5. CASE CountFile
  <2>1. /\ wpc = "cumulate" /\ wpc' = "read" /\ wmsg' = Nothing
        /\ UNCHANGED <<published, committed, storage>>
    BY <1>5 DEF CountFile, crashVars
  <2> QED
    BY <2>1 DEF CountingTypes, CountingInv, WriterPhases
<1>6. CASE Reader \/ UNCHANGED fileVars
  <2>1. UNCHANGED <<wpc, wmsg, published, committed, storage>>
    BY <1>6 DEF Reader, PollFile, SkipFile, NoFile, ReadRecord, SendRecord, fileVars,
                writerVars, crashVars
  <2> QED
    BY <2>1 DEF CountingTypes, CountingInv
<1>7. CASE Restart
  <2>1. /\ wpc' = "read" /\ wmsg' = Nothing /\ committed' = <<>> /\ published' = published
        /\ Len(committed') = 0
    BY <1>7 DEF Restart
  <2> QED
    BY <2>1 DEF CountingTypes, CountingInv, WriterPhases
<1> QED
  BY <1>1, <1>2, <1>3, <1>4, <1>5, <1>6, <1>7 DEF FileNext, Writer

\* For any faults, sizes and restarts: on a file topic what is counted has no gap,
\* since a writer that could not write a message ends (broker_storage.h:
\* write_to_file, add_to_storage).
THEOREM NoGapsHold == FileSpec => []NoGapsInFileTopic
<1>1. FileInit => CountingTypes /\ CountingInv
  BY EmptySeq DEF FileInit, MemoryInit, CountingTypes, CountingInv, WriterPhases
<1>2. CountingInv => NoGapsInFileTopic
  BY DEF CountingInv, NoGapsInFileTopic
<1> QED
  BY <1>1, <1>2, StepCounting, PTL DEF FileSpec

-----------------------------------------------------------------------------
(***************************************************************************)
(* The log: the files are its parts, and the records are in them.          *)
(***************************************************************************)

PartsTypes == PlaceInv /\ PartsInv

\* The bases are numbers, those of the files after one as well.
LEMMA BaseType ==
    ASSUME WriterTypes
    PROVE  \A i \in 1..(Len(fds) + 1) : Base(i) \in Nat
<1> SUFFICES ASSUME NEW i \in 1..(Len(fds) + 1) PROVE Base(i) \in Nat
  OBVIOUS
<1>1. Len(fds) \in Nat /\ \A j \in 1..Len(fds) : fds[j].cum \in Nat
  BY FdsProperties
<1>2. i > 1 => i - 1 \in 1..Len(fds)
  BY <1>1
<1> QED
  BY <1>1, <1>2 DEF Base

\* In the phases in which nothing is being written, all of the log is counted.
LEMMA IdlePhases ==
    /\ wpc \in {"read", "select", "length", "stopped"} => InFlight = 0 /\ Counted = total
    /\ wpc = "payload" => InFlight = Header /\ Counted = total
    /\ wpc = "count" => InFlight = written /\ Counted = total
    /\ wpc = "cumulate" => InFlight = 0 /\ Counted = total - written
BY DEF InFlight, Counted

\* The steps that leave the files and the total alone, between messages.
LEMMA PartsUnchanged ==
    ASSUME PartsTypes, UNCHANGED <<fds, total, torn>>,
           wpc \in {"read", "select", "length", "stopped"},
           wpc' \in {"read", "select", "length", "stopped"}
    PROVE  PartsInv'
<1>1. InFlight = 0 /\ Counted = total /\ InFlight' = 0 /\ Counted' = total
  BY DEF InFlight, Counted
<1> QED
  BY <1>1 DEF PartsTypes, PartsInv, HoldsUpTo, Base, End

\* Bytes are added to the last part.  All of them are in flight, unless the write
\* stopped half way.
LEMMA PartsOfWrite ==
    ASSUME PartsTypes, fds # <<>>, NEW bytes \in Seq(Byte), Write(bytes),
           UNCHANGED total,
           wpc \in {"length", "payload"}, wpc' \in {"payload", "count", "read", "stopped"},
           torn => torn',
           InFlight' \in Nat, InFlight' <= InFlight + Len(bytes),
           ~torn' => InFlight' = InFlight + Len(bytes),
           wpc' = "count" /\ ~torn' => written' = Header + wmsg'.len
    PROVE  PartsInv'
<1>a. PICK n : n = Len(fds)
  OBVIOUS
<1>b. PICK o : o = fds[n].offset
  OBVIOUS
<1>c. PICK l : l = Len(bytes)
  OBVIOUS
<1>1. /\ n \in Nat \ {0} /\ o \in Nat
      /\ fds' \in Seq(FdSet) /\ Len(fds') = n
      /\ \A i \in 1..n : fds'[i].cum = fds[i].cum
      /\ \A i \in 1..n - 1 : fds'[i] = fds[i]
      /\ fds'[n].offset = o + l
  BY <1>a, <1>b, <1>c, WriteEffect DEF PartsTypes
<1>2. DOMAIN fds' = 1..n /\ DOMAIN fds = 1..n /\ l \in Nat
  BY <1>1, <1>a, <1>c, LenProperties DEF PartsTypes, PlaceInv, WriterTypes
<1>3. \A i \in 1..n : Base(i)' = Base(i)
  <2> SUFFICES ASSUME NEW i \in 1..n PROVE Base(i)' = Base(i)
    OBVIOUS
  <2>1. i > 1 => i - 1 \in 1..n
    BY <1>1
  <2> QED
    BY <1>1, <2>1 DEF Base
<1>4. \A i \in 1..n - 1 : End(i)' = End(i)
  <2> QED
    BY <1>1, <1>3 DEF End
<1>5. End(n)' = End(n) + l
  <2>1. Base(n) \in Nat /\ Base(n)' = Base(n)
    BY <1>1, <1>3, <1>a, BaseType DEF PartsTypes, PlaceInv
  <2>2. End(n) = Base(n) + o /\ End(n)' = Base(n) + (o + l)
    BY <1>1, <1>b, <2>1 DEF End
  <2> QED
    BY <1>1, <1>2, <2>1, <2>2
<1>6. Counted' = Counted /\ Counted = total
  BY DEF Counted
<1>7. /\ \A i \in 1..n - 1 : HoldsUpTo(i, fds[i].cum)
      /\ \A i, j \in 1..n : i < j => fds[i].cum <= Base(j)
      /\ HoldsUpTo(n, total + InFlight) /\ Base(n) <= Counted
      /\ fds[n].cum = Counted \/ (fds[n].cum = 0 /\ Counted = Base(n))
  BY <1>1, <1>2, <1>a, EmptySeq DEF PartsTypes, PartsInv
<1>8. /\ \A i \in 1..n - 1 : HoldsUpTo(i, fds[i].cum)'
      /\ \A i, j \in 1..n : i < j => fds'[i].cum <= Base(j)'
      /\ fds'[n].cum = Counted' \/ (fds'[n].cum = 0 /\ Counted' = Base(n)')
      /\ Base(n)' <= Counted'
  <2>1. n \in 1..n /\ \A i \in 1..n - 1 : i \in 1..n
    BY <1>1
  <2>2. ASSUME NEW i \in 1..n - 1 PROVE HoldsUpTo(i, fds[i].cum)'
    <3>1. fds'[i].cum = fds[i].cum /\ End(i)' = End(i) /\ HoldsUpTo(i, fds[i].cum)
      BY <1>1, <1>4, <1>7, <2>1, <2>2
    <3> QED
      BY <3>1 DEF HoldsUpTo
  <2>3. ASSUME NEW i \in 1..n, NEW j \in 1..n, i < j PROVE fds'[i].cum <= Base(j)'
    <3>1. fds'[i].cum = fds[i].cum /\ Base(j)' = Base(j) /\ fds[i].cum <= Base(j)
      BY <1>1, <1>3, <1>7, <2>3
    <3> QED
      BY <3>1
  <2>4. fds'[n].cum = fds[n].cum /\ Base(n)' = Base(n)
    BY <1>1, <1>3, <2>1
  <2> QED
    BY <1>6, <1>7, <2>2, <2>3, <2>4
<1>9. HoldsUpTo(n, total + InFlight)'
  <2>1. InFlight \in Nat /\ total \in Nat /\ End(n) \in Nat
    <3>1. Header \in Nat /\ total \in Nat /\ written \in Nat
      BY HeaderAssumption DEF PartsTypes, PlaceInv, WriterTypes
    <3>2. Base(n) \in Nat
      BY <1>1, <1>a, BaseType DEF PartsTypes, PlaceInv
    <3> QED
      BY <1>1, <1>b, <3>1, <3>2 DEF InFlight, End
  <2>a. PICK x : x = InFlight
    OBVIOUS
  <2>b. PICK y : y = InFlight'
    OBVIOUS
  <2>c. PICK e : e = End(n)
    OBVIOUS
  <2>2. /\ x \in Nat /\ y \in Nat /\ e \in Nat /\ total \in Nat /\ l \in Nat
        /\ total + x <= e /\ (~torn => total + x = e)
        /\ y <= x + l /\ (~torn' => y = x + l) /\ (torn => torn')
    BY <1>2, <1>7, <1>c, <2>1, <2>a, <2>b, <2>c DEF HoldsUpTo
  <2>3. total + y <= e + l /\ (~torn' => total + y = e + l)
    BY <2>2
  <2> QED
    BY <1>5, <2>3, <2>b, <2>c DEF HoldsUpTo
<1> QED
  BY <1>1, <1>2, <1>8, <1>9 DEF PartsInv

\* The steps that write bytes.
LEMMA WritingKeepsParts ==
    ASSUME PartsTypes, WriteLength \/ WritePayload
    PROVE  PartsInv'
<1>1. /\ wpc \in {"length", "payload"} /\ fds # <<>> /\ wpc # "read"
      /\ wmsg \in Messages /\ UNCHANGED <<current, total>> /\ torn \in BOOLEAN
  BY DEF WriteLength, WritePayload, PartsTypes, PlaceInv, WriterTypes, FilesInv
<1>2. wmsg.len \in Nat /\ Header \in Nat /\ wmsg.len >= 1 /\ Header >= 2
  <2>1. wmsg.len \in Nat \ {0}
    BY <1>1, MessageProperties
  <2> QED
    BY <2>1, HeaderAssumption
<1>3. CASE WriteLength
  <2>1. CASE Write(Bytes(wmsg, 1, Header)) /\ wpc' = "payload" /\ UNCHANGED <<wmsg, torn>>
    <3>1. Bytes(wmsg, 1, Header) \in Seq(Byte) /\ Len(Bytes(wmsg, 1, Header)) = Header
      <4>1. 1 \in Nat \ {0} /\ 1 <= Header + 1 /\ Header - 1 + 1 = Header
        BY <1>2
      <4> QED
        BY <1>1, <1>2, <4>1, BytesProperties
    <3>2. /\ InFlight' \in Nat
          /\ InFlight' = InFlight + Len(Bytes(wmsg, 1, Header))
          /\ InFlight' <= InFlight + Len(Bytes(wmsg, 1, Header))
      BY <1>2, <1>3, <2>1, <3>1 DEF InFlight, WriteLength
    <3> QED
      BY <1>1, <2>1, <3>1, <3>2, PartsOfWrite
  <2>2. ASSUME NEW n \in 0..Header - 1, Write(Bytes(wmsg, 1, n)), torn' = (torn \/ n > 0),
               WriteFails
        PROVE  PartsInv'
    <3>1. Bytes(wmsg, 1, n) \in Seq(Byte) /\ Len(Bytes(wmsg, 1, n)) = n /\ n \in Nat
      <4>1. 1 \in Nat \ {0} /\ n \in Nat /\ 1 <= n + 1 /\ n - 1 + 1 = n
        BY <1>2
      <4> QED
        BY <1>1, <4>1, BytesProperties
    <3>2. wpc' \in {"read", "stopped"}
      BY <2>2 DEF WriteFails
    <3>3. InFlight = 0 /\ InFlight' = 0
      BY <1>3, <3>2 DEF InFlight, WriteLength
    <3>4. /\ InFlight' \in Nat /\ InFlight' <= InFlight + Len(Bytes(wmsg, 1, n))
          /\ ~torn' => InFlight' = InFlight + Len(Bytes(wmsg, 1, n))
      <4>1. ~torn' => ~(n > 0)
        BY <2>2, Zenon
      <4> QED
        BY <3>1, <3>3, <4>1
    <3>5. torn => torn'
      BY <2>2, Zenon
    <3> QED
      BY <1>1, <2>2, <3>1, <3>2, <3>4, <3>5, PartsOfWrite
  <2> QED
    BY <1>3, <2>1, <2>2 DEF WriteLength
<1>4. CASE WritePayload
  <2>1. PICK n \in {wmsg.len} \cup (IF "payload" \in Faults THEN 0..wmsg.len - 1 ELSE {}) :
          /\ Write(Bytes(wmsg, Header + 1, Header + n))
          /\ written' = Header + (IF n = 0 THEN -1 ELSE n)
          /\ torn' = (torn \/ n < wmsg.len)
    BY <1>4 DEF WritePayload
  <2>2. wpc = "payload" /\ wpc' = "count" /\ UNCHANGED wmsg /\ n \in Nat /\ n <= wmsg.len
    BY <1>2, <1>4 DEF WritePayload
  <2>b. PICK bytes : bytes = Bytes(wmsg, Header + 1, Header + n)
    OBVIOUS
  <2>3. bytes \in Seq(Byte) /\ Len(bytes) = n
    <3>a. PICK a : a = Header + 1
      OBVIOUS
    <3>b. PICK b : b = Header + n
      OBVIOUS
    <3>1. a \in Nat \ {0} /\ b \in Nat /\ a <= b + 1 /\ b - a + 1 = n
      BY <1>2, <2>2, <3>a, <3>b
    <3>2. Bytes(wmsg, a, b) \in Seq(Byte) /\ Len(Bytes(wmsg, a, b)) = b - a + 1
      BY <1>1, <3>1, BytesProperties
    <3> QED
      BY <2>b, <3>a, <3>b, <3>1, <3>2
  <2>4. InFlight = Header /\ InFlight' = written'
    BY <2>2 DEF InFlight
  <2>5. /\ written' \in Nat /\ written' <= Header + n
        /\ ~torn' => written' = Header + n /\ n = wmsg.len
    <3>a. PICK l : l = wmsg.len
      OBVIOUS
    <3>1. ~torn' => ~(n < l)
      BY <2>1, <3>a, Zenon
    <3>2. n \in Nat /\ l \in Nat /\ n <= l /\ l >= 1
      BY <1>2, <2>2, <3>a
    <3>3. ~torn' => n = l
      BY <3>1, <3>2
    <3>4. n = 0 \/ n > 0
      BY <3>2
    <3>5. CASE n = 0
      BY <1>2, <2>1, <3>2, <3>3, <3>5
    <3>6. CASE n > 0
      <4>1. written' = Header + n
        BY <2>1, <3>2, <3>6
      <4> QED
        BY <1>2, <3>2, <3>3, <3>a, <4>1
    <3> QED
      BY <3>4, <3>5, <3>6
  <2>6. /\ InFlight' \in Nat /\ InFlight' <= InFlight + Len(bytes)
        /\ ~torn' => InFlight' = InFlight + Len(bytes)
        /\ ~torn' => written' = Header + wmsg'.len
    BY <2>2, <2>3, <2>4, <2>5
  <2>7. torn => torn'
    BY <2>1, Zenon
  <2> QED
    BY <1>1, <2>1, <2>2, <2>3, <2>6, <2>7, <2>b, PartsOfWrite
<1> QED
  BY <1>3, <1>4

\* The total is raised by what was in flight.
LEMMA CountTotalKeepsParts ==
    ASSUME PartsTypes, CountTotal
    PROVE  PartsInv'
<1>1. /\ wpc = "count" /\ wpc' = "cumulate" /\ total' = total + written
      /\ UNCHANGED <<fds, written, wmsg, torn>>
  BY DEF CountTotal
<1>2. /\ written \in Nat /\ total \in Nat
      /\ ~torn => written = Header + wmsg.len
  BY <1>1 DEF PartsTypes, PartsInv, PlaceInv, WriterTypes
<1>3. /\ InFlight = written /\ InFlight' = 0 /\ Counted = total /\ Counted' = total
      /\ total' + InFlight' = total + InFlight
  BY <1>1, <1>2 DEF InFlight, Counted
<1> QED
  BY <1>1, <1>2, <1>3 DEF PartsTypes, PartsInv, HoldsUpTo, Base, End

\* What the current file remembers is brought up to date.
LEMMA CountFileKeepsParts ==
    ASSUME PartsTypes, CountFile
    PROVE  PartsInv'
<1>a. PICK n : n = Len(fds)
  OBVIOUS
<1>1. /\ wpc = "cumulate" /\ wpc' = "read" /\ fds' = Closed(total) /\ UNCHANGED <<total, written, torn>>
      /\ total \in Nat /\ fds # <<>> /\ written \in Nat
  BY DEF CountFile, Closed, PartsTypes, PlaceInv, FilesInv, WriterTypes
<1>2. /\ fds' \in Seq(FdSet) /\ Len(fds') = n /\ n \in Nat \ {0}
      /\ \A i \in 1..n : fds'[i].offset = fds[i].offset
      /\ \A i \in 1..n - 1 : fds'[i] = fds[i]
      /\ fds'[n].cum = total
  BY <1>a, <1>1, SetCum DEF PartsTypes
<1>3. DOMAIN fds = 1..n /\ DOMAIN fds' = 1..n
  BY <1>a, <1>2, LenProperties DEF PartsTypes, PlaceInv, WriterTypes
<1>4. \A i \in 1..n : Base(i)' = Base(i) /\ End(i)' = End(i)
  <2> SUFFICES ASSUME NEW i \in 1..n PROVE Base(i)' = Base(i) /\ End(i)' = End(i)
    OBVIOUS
  <2>1. i > 1 => i - 1 \in 1..n - 1
    BY <1>2
  <2>2. Base(i)' = Base(i)
    BY <1>2, <2>1 DEF Base
  <2> QED
    BY <1>2, <2>2 DEF End
<1>5. InFlight = 0 /\ InFlight' = 0 /\ Counted' = total /\ Counted <= total
  BY <1>1 DEF InFlight, Counted
<1>6. Base(n) \in Nat /\ Base(n) <= Counted /\ HoldsUpTo(n, total + InFlight)
  <2>1. n \in 1..Len(fds) + 1
    BY <1>a, <1>2
  <2> QED
    BY <1>a, <1>1, <2>1, BaseType DEF PartsTypes, PartsInv, PlaceInv
<1>7. ASSUME NEW i \in 1..n - 1 PROVE HoldsUpTo(i, fds[i].cum)'
  <2>1. i \in 1..n
    BY <1>2
  <2>2. HoldsUpTo(i, fds[i].cum)
    BY <1>a, <1>7 DEF PartsTypes, PartsInv
  <2> QED
    BY <1>1, <1>2, <1>4, <2>1, <2>2 DEF HoldsUpTo
<1>8. ASSUME NEW i \in 1..n, NEW j \in 1..n, i < j PROVE fds'[i].cum <= Base(j)'
  <2>1. i \in 1..n - 1
    BY <1>2, <1>8
  <2> QED
    BY <1>2, <1>3, <1>4, <1>8, <2>1 DEF PartsTypes, PartsInv
<1>9. Base(n)' <= Counted' /\ HoldsUpTo(n, total + InFlight)' /\ n \in 1..n
  <2>1. n \in 1..n
    BY <1>2
  <2>2. Base(n)' = Base(n) /\ End(n)' = End(n)
    BY <1>4, <2>1
  <2>3. Counted \in Int
    BY <1>1 DEF Counted
  <2> QED
    BY <1>1, <1>5, <1>6, <2>1, <2>2, <2>3 DEF HoldsUpTo
<1> QED
  BY <1>1, <1>2, <1>3, <1>5, <1>7, <1>8, <1>9 DEF PartsInv

\* A new part begins where the last one ends.
LEMMA NextFileKeepsParts ==
    ASSUME PartsTypes, "create" \notin Faults, NextFile
    PROVE  PartsInv'
<1>a. PICK n : n = Len(fds)
  OBVIOUS
<1>1. /\ wpc = "select" /\ wpc' = "length" /\ fds # <<>> /\ total \in Nat
      /\ UNCHANGED <<total, written, torn>>
      /\ fds' = Append(Closed(total), NewFile(current'))
  BY DEF NextFile, Closed, PartsTypes, PlaceInv, WriterTypes
<1>c. PICK c : c = Closed(total)
  OBVIOUS
<1>2. /\ c \in Seq(FdSet) /\ Len(c) = n /\ n \in Nat \ {0}
      /\ \A i \in 1..n : c[i].offset = fds[i].offset
      /\ \A i \in 1..n - 1 : c[i] = fds[i]
      /\ c[n].cum = total
  BY <1>a, <1>1, <1>c, SetCum DEF PartsTypes
<1>3. /\ Len(fds') = n + 1 /\ DOMAIN fds' = 1..n + 1
      /\ \A i \in 1..n : fds'[i] = c[i]
      /\ fds'[n + 1].offset = 0 /\ fds'[n + 1].cum = 0
  <2>1. Len(fds') \in Nat /\ DOMAIN fds' = 1..Len(fds')
    <3>1. PlaceInv'
      BY <1>1, SelectKeepsPlace DEF PartsTypes
    <3> QED
      BY <3>1, LenProperties DEF PlaceInv, WriterTypes
  <2>2. fds' = Append(c, NewFile(current'))
    BY <1>1, <1>c
  <2>3. /\ Len(fds') = n + 1 /\ fds'[n + 1] = NewFile(current')
        /\ \A i \in 1..n : fds'[i] = c[i]
    BY <1>2, <2>2, AppendProperties
  <2> QED
    BY <2>1, <2>3 DEF NewFile
<1>4. \A i \in 1..n : Base(i)' = Base(i) /\ End(i)' = End(i)
  <2> SUFFICES ASSUME NEW i \in 1..n PROVE Base(i)' = Base(i) /\ End(i)' = End(i)
    OBVIOUS
  <2>1. i > 1 => i - 1 \in 1..n - 1 /\ i - 1 \in 1..n
    BY <1>2
  <2>2. Base(i)' = Base(i)
    BY <1>2, <1>3, <2>1 DEF Base
  <2> QED
    BY <1>2, <1>3, <2>2 DEF End
<1>5. InFlight = 0 /\ InFlight' = 0 /\ Counted' = total /\ Counted = total
  BY <1>1 DEF InFlight, Counted
<1>6. Base(n) \in Nat /\ Base(n) <= total /\ HoldsUpTo(n, total)
  <2>1. n \in 1..Len(fds) + 1
    BY <1>a, <1>2
  <2> QED
    BY <1>a, <1>1, <1>5, <2>1, BaseType DEF PartsTypes, PartsInv, PlaceInv
<1>7. fds'[n].cum = total /\ Base(n + 1)' = total /\ End(n + 1)' = total
  <2>1. n + 1 > 1 /\ (n + 1) - 1 = n /\ n \in 1..n
    BY <1>2
  <2>2. fds'[n].cum = total
    BY <1>2, <1>3, <2>1
  <2>3. Base(n + 1)' = fds'[n].cum
    BY <2>1 DEF Base
  <2> QED
    BY <1>1, <1>3, <2>2, <2>3 DEF End
<1>8. ASSUME NEW i \in 1..n PROVE HoldsUpTo(i, fds[i].cum)' /\ fds'[i].cum <= total
  <2>1. CASE i = n
    <3>1. End(n)' = End(n) /\ fds'[n].cum = total /\ torn' = torn
      BY <1>1, <1>2, <1>4, <1>7
    <3>2. fds'[n].cum <= End(n)' /\ (~torn' => fds'[n].cum = End(n)')
      BY <1>6, <3>1 DEF HoldsUpTo
    <3>3. fds'[n].cum <= total
      BY <1>1, <3>1
    <3> QED
      BY <2>1, <3>2, <3>3 DEF HoldsUpTo
  <2>2. CASE i # n
    <3>1. i \in 1..n - 1 /\ i \in 1..n /\ n \in 1..n /\ i < n
      BY <1>2, <2>2
    <3>2. fds'[i].cum = fds[i].cum /\ HoldsUpTo(i, fds[i].cum)
      BY <1>a, <1>2, <1>3, <3>1 DEF PartsTypes, PartsInv
    <3>3. fds[i].cum <= Base(n) /\ fds[i].cum \in Nat
      BY <1>a, <3>1, FdsProperties DEF PartsTypes, PartsInv, PlaceInv
    <3>4. End(i)' = End(i)
      BY <1>4, <3>1
    <3>5. fds[i].cum <= total
      BY <1>1, <1>6, <3>3
    <3> QED
      BY <1>1, <3>2, <3>4, <3>5 DEF HoldsUpTo
  <2> QED
    BY <2>1, <2>2
<1>9. ASSUME NEW i \in 1..n + 1, NEW j \in 1..n + 1, i < j PROVE fds'[i].cum <= Base(j)'
  <2>1. CASE j = n + 1
    <3>1. i \in 1..n
      BY <1>2, <1>9, <2>1
    <3> QED
      BY <1>7, <1>8, <2>1, <3>1
  <2>2. CASE j # n + 1
    <3>1. i \in 1..n - 1 /\ i \in 1..n /\ j \in 1..n
      BY <1>2, <1>9, <2>2
    <3>2. fds'[i].cum = fds[i].cum /\ fds[i].cum <= Base(j)
      BY <1>a, <1>2, <1>3, <1>9, <3>1, FdsProperties DEF PartsTypes, PartsInv, PlaceInv
    <3> QED
      BY <1>4, <3>1, <3>2
  <2> QED
    BY <2>1, <2>2
<1> QED
  <2>1. (n + 1) - 1 = n
    BY <1>2
  <2>2. HoldsUpTo(n + 1, total + InFlight)'
    BY <1>1, <1>5, <1>7 DEF HoldsUpTo
  <2>3. \A i \in 1..(Len(fds') - 1) : HoldsUpTo(i, fds[i].cum)'
    BY <1>3, <1>8, <2>1
  <2>4. \A i, j \in DOMAIN fds' : i < j => fds'[i].cum <= Base(j)'
    BY <1>3, <1>9
  <2>5. /\ HoldsUpTo(Len(fds), total + InFlight)'
        /\ Base(Len(fds))' <= Counted'
        /\ fds'[Len(fds')].cum = 0 /\ Counted' = Base(Len(fds))'
    <3>1. Base(Len(fds))' = total
      BY <1>3, <1>7
    <3>2. HoldsUpTo(Len(fds), total + InFlight)'
      BY <1>3, <2>2
    <3> QED
      BY <1>1, <1>3, <1>5, <3>1, <3>2
  <2>6. ~(wpc' \in {"count", "cumulate"})
    BY <1>1
  <2> QED
    BY <2>3, <2>4, <2>5, <2>6 DEF PartsInv

\* The first part begins where the log does.
LEMMA FirstFileKeepsParts ==
    ASSUME PartsTypes, "create" \notin Faults, FirstFile
    PROVE  PartsInv'
<1>1. /\ wpc = "select" /\ wpc' = "length" /\ fds = <<>> /\ fds' = <<NewFile(current)>>
      /\ total = 0 /\ total' = 0 /\ UNCHANGED written
  BY DEF FirstFile, PartsTypes, PlaceInv, FilesInv
<1>2. /\ Len(fds') = 1 /\ DOMAIN fds' = {1} /\ fds'[1] = NewFile(current)
      /\ fds'[1].cum = 0 /\ fds'[1].offset = 0
  BY <1>1 DEF NewFile
<1>3. Base(1)' = 0 /\ End(1)' = 0 /\ InFlight' = 0 /\ Counted' = 0
  BY <1>1, <1>2 DEF Base, End, InFlight, Counted
<1>4. HoldsUpTo(1, total + InFlight)'
  BY <1>1, <1>3 DEF HoldsUpTo
<1> QED
  BY <1>1, <1>2, <1>3, <1>4 DEF PartsInv

\* Every step keeps the parts of the log.
LEMMA StepParts ==
    ASSUME "create" \notin Faults, PartsTypes, [FileNext]_fileVars
    PROVE  PartsTypes'
<1>1. PlaceInv'
  BY StepPlace DEF PartsTypes
<1>2. CASE UNCHANGED fileVars
  <2>1. UNCHANGED <<fds, total, wpc, wmsg, written, torn>>
    BY <1>2 DEF fileVars, writerVars
  <2> QED
    BY <1>1, <2>1 DEF PartsTypes, PartsInv, HoldsUpTo, Base, End, InFlight, Counted
<1>3. CASE ReadProducer \/ SameFile
  <2>1. /\ UNCHANGED <<fds, total, torn>> /\ wpc \in {"read", "select", "length", "stopped"}
        /\ wpc' \in {"read", "select", "length", "stopped"}
    BY <1>3 DEF ReadProducer, SameFile
  <2> QED
    BY <1>1, <2>1, PartsUnchanged DEF PartsTypes
<1>4. CASE Reader
  <2>1. UNCHANGED <<fds, total, wpc, wmsg, written, torn>>
    BY <1>4 DEF Reader, PollFile, SkipFile, NoFile, ReadRecord, SendRecord, writerVars
  <2> QED
    BY <1>1, <2>1 DEF PartsTypes, PartsInv, HoldsUpTo, Base, End, InFlight, Counted
<1>5. CASE Restart
  <2>1. fds' = <<>> /\ wpc' = "read" /\ DOMAIN fds' = {} /\ Len(fds') = 0
    BY <1>5 DEF Restart
  <2> QED
    BY <1>1, <2>1 DEF PartsTypes, PartsInv
<1> QED
  BY <1>1, <1>2, <1>3, <1>4, <1>5, WritingKeepsParts, CountTotalKeepsParts, CountFileKeepsParts,
     NextFileKeepsParts, FirstFileKeepsParts DEF FileNext, Writer, PartsTypes

\* If files can be created, the numbers that the reader finds its file by never
\* claim more than was written, and add up between two messages until a write
\* stops half way, for any files and messages and whatever writes fail
\* (connection_file.h: "if 9 bytes written across 3 files, ...").
THEOREM CumulativeOffsetsHold ==
    ASSUME "create" \notin Faults
    PROVE  FileSpec => []CumulativeOffsets
<1>1. FileInit => PartsTypes
  <2> SUFFICES ASSUME FileInit PROVE PartsTypes
    OBVIOUS
  <2>1. fds = <<>> /\ wpc = "read" /\ DOMAIN fds = {} /\ Len(fds) = 0
    BY DEF FileInit, MemoryInit
  <2> QED
    BY <2>1, InitPlace DEF PartsTypes, PartsInv
<1>2. PartsTypes => CumulativeOffsets
  <2> SUFFICES ASSUME PartsTypes, wpc \in {"read", "select"}, NEW i \in DOMAIN fds
               PROVE  LET end == fds[i].offset + Base(i)
                      IN  /\ fds[i].cum <= end
                          /\ i = Len(fds) => total <= end
                          /\ ~torn => /\ \/ fds[i].cum = end
                                         \/ i = Len(fds) /\ fds[i].cum = 0 /\ fds[i].offset = 0
                                      /\ i = Len(fds) => total = end
    BY DEF CumulativeOffsets, Base
  <2>1. InFlight = 0 /\ Counted = total
    BY DEF InFlight, Counted
  <2>2. /\ Len(fds) \in Nat /\ i \in 1..Len(fds) /\ fds[i].offset \in Nat /\ fds[i].cum \in Nat
        /\ Base(i) \in Nat /\ total \in Nat
    <3>1. /\ Len(fds) \in Nat /\ i \in 1..Len(fds) /\ i \in 1..Len(fds) + 1
          /\ fds[i].offset \in Nat /\ fds[i].cum \in Nat
      BY FdsProperties DEF PartsTypes, PlaceInv
    <3> QED
      BY <3>1, BaseType DEF PartsTypes, PlaceInv, WriterTypes
  <2>3. CASE i = Len(fds)
    <3>1. /\ HoldsUpTo(i, total + InFlight)
          /\ fds[i].cum = Counted \/ (fds[i].cum = 0 /\ Counted = Base(i))
      BY <2>2, <2>3, FdsProperties DEF PartsTypes, PartsInv, PlaceInv
    <3>2. End(i) = fds[i].offset + Base(i)
      BY <2>2 DEF End
    <3> QED
      BY <2>1, <2>2, <2>3, <3>1, <3>2 DEF HoldsUpTo
  <2>4. CASE i # Len(fds)
    <3>1. i \in 1..Len(fds) - 1
      BY <2>2, <2>4
    <3>2. HoldsUpTo(i, fds[i].cum) /\ End(i) = fds[i].offset + Base(i)
      BY <2>2, <3>1 DEF PartsTypes, PartsInv, End
    <3> QED
      BY <2>2, <2>4, <3>2 DEF HoldsUpTo
  <2> QED
    BY <2>3, <2>4
<1> QED
  BY <1>1, <1>2, StepParts, PTL DEF FileSpec

-----------------------------------------------------------------------------
(***************************************************************************)
(* The records.                                                            *)
(***************************************************************************)

\* A step that takes nothing out of the files, and closes one at the total.
FilesKept ==
    /\ DOMAIN fds \subseteq DOMAIN fds'
    /\ \A i \in 1..Len(fds) - 1 : fds'[i] = fds[i]
    /\ fds # <<>> /\ Len(fds') > Len(fds) => fds'[Len(fds)].cum = total
    /\ \A i \in DOMAIN fds :
          /\ Base(i)' = Base(i)
          /\ fds'[i].offset \in Nat
          /\ fds'[i].offset >= fds[i].offset
          /\ \A j \in 1..fds[i].offset : disk'[i - 1][j] = disk[i - 1][j]

\* Such a step keeps the records.
LEMMA RecordKept ==
    ASSUME PlaceInv, FilesKept, NEW i, NEW at \in Nat, NEW m, NEW n \in Nat,
           HasRecord(i, at, m, n)
    PROVE  HasRecord(i, at, m, n)'
<1>a. PICK b : b = Base(i)
  OBVIOUS
<1>1. /\ i \in DOMAIN fds /\ i \in DOMAIN fds' /\ fds[i].offset \in Nat /\ b \in Nat
      /\ Base(i)' = b
  <2>1. i \in DOMAIN fds /\ Len(fds) \in Nat /\ i \in 1..Len(fds) /\ fds[i].offset \in Nat
    BY FdsProperties DEF HasRecord, PlaceInv
  <2>2. i \in 1..Len(fds) + 1
    BY <2>1
  <2> QED
    BY <1>a, <2>1, <2>2, BaseType DEF FilesKept, PlaceInv
<1>2. /\ b <= at /\ at + n <= b + fds[i].offset
      /\ \A j \in 1..n : disk[i - 1][at - b + j] = [msg |-> m, at |-> j]
  BY <1>a DEF HasRecord, End
<1>3. /\ fds'[i].offset \in Nat /\ fds'[i].offset >= fds[i].offset
      /\ \A j \in 1..fds[i].offset : disk'[i - 1][j] = disk[i - 1][j]
  BY <1>1 DEF FilesKept
<1>4. at + n <= End(i)'
  BY <1>1, <1>2, <1>3 DEF End
<1>5. ASSUME NEW j \in 1..n PROVE disk'[i - 1][at - b + j] = [msg |-> m, at |-> j]
  <2>1. at - b + j \in 1..fds[i].offset
    BY <1>1, <1>2
  <2> QED
    BY <1>2, <1>3, <2>1
<1> QED
  BY <1>1, <1>2, <1>4, <1>5 DEF HasRecord

\* Where a record lies whole it still does.
LEMMA WholeKept ==
    ASSUME PlaceInv, FilesKept, PlaceInv', NEW i, NEW at \in Nat, NEW m \in Messages,
           at + (Header + m.len) <= total, HasWhole(i, at, m)
    PROVE  HasWhole(i, at, m)' /\ i \in DOMAIN fds'
<1>a. PICK n : n = Len(fds)
  OBVIOUS
<1>b. PICK k : k = Len(fds')
  OBVIOUS
<1>1. /\ n \in Nat /\ DOMAIN fds = 1..n /\ k \in Nat /\ DOMAIN fds' = 1..k /\ n <= k
      /\ i \in 1..n /\ i \in 1..k /\ fds # <<>>
  <2>1. n \in Nat /\ DOMAIN fds = 1..n /\ k \in Nat /\ DOMAIN fds' = 1..k
    BY <1>a, <1>b, LenProperties DEF PlaceInv, WriterTypes
  <2>2. i \in 1..n /\ i \in 1..k /\ n \in 1..n /\ n \in 1..k
    <3>1. i \in DOMAIN fds /\ DOMAIN fds \subseteq DOMAIN fds'
      BY DEF HasWhole, HasRecord, FilesKept
    <3> QED
      BY <2>1, <3>1
  <2> QED
    BY <1>a, <2>1, <2>2
<1>2. HasRecord(i, at, m, Header + m.len)'
  <2>1. Header + m.len \in Nat
    BY MessageProperties
  <2>l. PICK l \in Nat : l = Header + m.len
    BY <2>1
  <2>2. HasRecord(i, at, m, l)'
    BY <2>l, RecordKept DEF HasWhole
  <2> QED
    BY <2>2, <2>l DEF HasRecord
<1>3. ASSUME NEW h \in 1..n - 1
      PROVE  fds'[h] = fds[h] /\ Base(h)' = Base(h) /\ End(h)' = End(h)
  <2>1. h \in DOMAIN fds
    BY <1>1
  <2> QED
    BY <1>a, <2>1 DEF FilesKept, End
<1>4. i < k => at + (Header + m.len) <= fds'[i].cum
  <2>1. CASE i < n
    <3>1. i \in 1..n - 1
      BY <1>1, <2>1
    <3> QED
      BY <1>3, <1>a, <2>1, <3>1 DEF HasWhole
  <2>2. CASE i = n /\ i < k
    BY <1>1, <1>a, <1>b, <2>2 DEF FilesKept
  <2> QED
    BY <1>1, <2>1, <2>2
<1>5. ASSUME NEW h \in 1..i - 1 PROVE fds'[h].cum = End(h)'
  <2>1. h \in 1..n - 1
    BY <1>1
  <2> QED
    BY <1>3, <2>1 DEF HasWhole
<1> QED
  BY <1>1, <1>2, <1>4, <1>5, <1>b DEF HasWhole

\* The records before the total when none is added to the log.
LEMMA RecordsKept ==
    ASSUME PlaceInv, PlaceInv', FilesKept, UNCHANGED intact, NEW start, RecordsInv(start),
           total <= total', torn => torn', ~torn' => total' = total,
           InFlight' > 0 /\ ~torn' => HasRecord(Len(fds), total, wmsg, InFlight)'
    PROVE  RecordsInv(start)'
<1>0. /\ total \in Nat /\ total' \in Nat /\ intact \in Seq(Messages)
      /\ Len(intact) \in Nat /\ DOMAIN intact = 1..Len(intact)
  BY LenProperties DEF PlaceInv, WriterTypes
<1>1. ASSUME NEW k \in DOMAIN intact
      PROVE  \E i \in DOMAIN fds' : HasWhole(i, start[k], intact[k])'
  <2>1. PICK i \in DOMAIN fds : HasWhole(i, start[k], intact[k])
    BY DEF RecordsInv
  <2>2. /\ intact[k] \in Messages
        /\ k \in 1..Len(intact) + 1 /\ k + 1 \in 1..Len(intact) + 1
    BY <1>0, ElementOfSeq
  <2>3. /\ start[k] \in Nat /\ start[k + 1] = start[k] + (Header + intact[k].len)
        /\ start[k + 1] <= total
    BY <2>2 DEF RecordsInv
  <2>a. PICK at : at = start[k]
    OBVIOUS
  <2>b. PICK m : m = intact[k]
    OBVIOUS
  <2>4. HasWhole(i, at, m)' /\ i \in DOMAIN fds'
    BY <2>1, <2>2, <2>3, <2>a, <2>b, WholeKept
  <2> QED
    BY <2>4, <2>a, <2>b DEF HasWhole, HasRecord
<1>2. ASSUME NEW k \in 1..Len(intact) + 1 PROVE start[k] <= total'
  <2>1. start[k] \in Nat /\ start[k] <= total
    BY DEF RecordsInv
  <2> QED
    BY <1>0, <2>1
<1> QED
  BY <1>1, <1>2 DEF RecordsInv

\* Writing keeps what is before the offset of the current file.
LEMMA WriteKeeps ==
    ASSUME PlaceInv, fds # <<>>, NEW bytes \in Seq(Byte), Write(bytes)
    PROVE  FilesKept
<1>a. PICK n : n = Len(fds)
  OBVIOUS
<1>b. PICK o : o = fds[n].offset
  OBVIOUS
<1>1. /\ n \in Nat \ {0} /\ o \in Nat /\ n - 1 \in 0..MaxMsgs
      /\ \A f \in 0..MaxMsgs : f # n - 1 => disk'[f] = disk[f]
      /\ \A j \in 1..o : disk'[n - 1][j] = disk[n - 1][j]
      /\ fds' \in Seq(FdSet) /\ Len(fds') = n
      /\ \A i \in 1..n : fds'[i].file = fds[i].file /\ fds'[i].cum = fds[i].cum
      /\ \A i \in 1..n - 1 : fds'[i] = fds[i]
      /\ fds'[n].offset = o + Len(bytes)
  BY <1>a, <1>b, WriteEffect, SMTT(30)
<1>2. DOMAIN fds = 1..n /\ DOMAIN fds' = 1..n /\ Len(bytes) \in Nat
  BY <1>a, <1>1, LenProperties DEF PlaceInv, WriterTypes
<1>3. ASSUME NEW i \in 1..n PROVE Base(i)' = Base(i)
  <2>1. i > 1 => i - 1 \in 1..n
    BY <1>1
  <2> QED
    BY <1>1, <2>1 DEF Base
<1>4. ASSUME NEW i \in 1..n
      PROVE  /\ fds'[i].offset \in Nat
             /\ fds'[i].offset >= fds[i].offset
             /\ \A j \in 1..fds[i].offset : disk'[i - 1][j] = disk[i - 1][j]
  <2>1. CASE i = n
    BY <1>1, <1>2, <1>b, <2>1
  <2>2. CASE i # n
    <3>1. i \in 1..n - 1 /\ i - 1 # n - 1 /\ i - 1 \in 0..MaxMsgs
      BY <1>1, <2>2, FileBoundsAssumption
    <3>2. fds[i].offset \in Nat
      BY <1>a, FdsProperties DEF PlaceInv
    <3> QED
      BY <1>1, <3>1, <3>2
  <2> QED
    BY <2>1, <2>2
<1>5. /\ \A i \in 1..Len(fds) - 1 : fds'[i] = fds[i]
      /\ ~(Len(fds') > Len(fds))
  BY <1>1, <1>a
<1> QED
  BY <1>2, <1>3, <1>4, <1>5 DEF FilesKept

\* So do the steps that do not write, but for a restart.
LEMMA OthersKeep ==
    ASSUME PlaceInv, "create" \notin Faults,
           \/ UNCHANGED <<disk, fds>>
           \/ FirstFile \/ NextFile \/ CountFile
    PROVE  FilesKept
<1>a. PICK n : n = Len(fds)
  OBVIOUS
<1>1. /\ n \in Nat /\ DOMAIN fds = 1..n
      /\ \A i \in 1..n : fds[i].offset \in Nat
  BY <1>a, FdsProperties DEF PlaceInv
<1>2. CASE UNCHANGED <<disk, fds>>
  BY <1>1, <1>2, <1>a DEF FilesKept, Base
<1>3. CASE FirstFile
  <2>1. DOMAIN fds = {} /\ fds = <<>> /\ Len(fds) = 0 /\ 1..0 - 1 = {}
    BY <1>3 DEF FirstFile
  <2> QED
    BY <2>1 DEF FilesKept
<1>4. ASSUME NEW c, c = Closed(total), disk' = disk, fds # <<>>,
             DOMAIN fds \subseteq DOMAIN fds',
             \A i \in 1..n : fds'[i] = c[i]
      PROVE  FilesKept
  <2>1. /\ \A i \in 1..n : c[i].offset = fds[i].offset
        /\ \A i \in 1..n - 1 : c[i] = fds[i]
        /\ n \in 1..n /\ c[n].cum = total
    BY <1>a, <1>4, SetCum DEF PlaceInv, WriterTypes
  <2>2. ASSUME NEW i \in 1..n PROVE Base(i)' = Base(i)
    <3>1. i > 1 => i - 1 \in 1..n - 1 /\ i - 1 \in 1..n
      BY <1>1
    <3> QED
      BY <1>4, <2>1, <3>1 DEF Base
  <2>3. ASSUME NEW i \in 1..n
        PROVE  /\ fds'[i].offset = fds[i].offset
               /\ fds[i].offset \in Nat
               /\ \A j \in 1..fds[i].offset : disk'[i - 1][j] = disk[i - 1][j]
    BY <1>1, <1>4, <2>1
  <2>4. \A i \in 1..n - 1 : fds'[i] = fds[i]
    BY <1>1, <1>4, <2>1
  <2> QED
    BY <1>1, <1>4, <1>a, <2>1, <2>2, <2>3, <2>4 DEF FilesKept
<1>c. PICK c : c = Closed(total)
  OBVIOUS
<1>5. fds # <<>> => c \in Seq(FdSet) /\ Len(c) = n
  BY <1>a, <1>c, SetCum DEF PlaceInv, WriterTypes
<1>6. CASE CountFile
  <2>1. fds' = c /\ disk' = disk /\ fds # <<>>
    BY <1>c, <1>6 DEF CountFile, Closed, PlaceInv, FilesInv
  <2>2. DOMAIN fds' = 1..n
    BY <1>5, <2>1, LenProperties
  <2> QED
    BY <1>1, <1>4, <1>c, <2>1, <2>2
<1>7. CASE NextFile
  <2>1. fds' = Append(c, NewFile(current')) /\ disk' = disk /\ fds # <<>>
    BY <1>c, <1>7 DEF NextFile, Closed
  <2>2. \A i \in 1..n : fds'[i] = c[i]
    BY <1>5, <2>1, AppendProperties
  <2>3. Len(fds') = n + 1 /\ DOMAIN fds' = 1..Len(fds')
    <3>1. PlaceInv'
      BY <1>7, SelectKeepsPlace
    <3>2. Len(fds') = n + 1
      BY <1>5, <2>1, AppendProperties
    <3> QED
      BY <3>1, <3>2, LenProperties DEF PlaceInv, WriterTypes
  <2>4. DOMAIN fds \subseteq DOMAIN fds'
    BY <1>1, <2>3
  <2> QED
    BY <1>4, <1>c, <2>1, <2>2, <2>4
<1> QED
  BY <1>2, <1>3, <1>6, <1>7

\* The part of a record that has been written is in the last file, after all
\* that is counted.
LEMMA InFlightWritten ==
    ASSUME PartsTypes, fds # <<>>, wmsg \in Messages, wpc \in {"length", "payload"},
           NEW first \in Nat \ {0}, NEW last \in Nat, first <= last,
           Write(Bytes(wmsg, first, last)), UNCHANGED <<total, wmsg>>,
           ~torn, InFlight = first - 1,
           first > 1 => HasRecord(Len(fds), total, wmsg, first - 1)
    PROVE  HasRecord(Len(fds), total, wmsg, last)'
<1>a. PICK n : n = Len(fds)
  OBVIOUS
<1>b. PICK o : o = fds[n].offset
  OBVIOUS
<1>c. PICK b : b = Base(n)
  OBVIOUS
<1>m. PICK m : m = wmsg
  OBVIOUS
<1>t. PICK t : t = total
  OBVIOUS
<1>1. /\ Bytes(m, first, last) \in Seq(Byte)
      /\ Len(Bytes(m, first, last)) = last - first + 1
      /\ \A j \in 1..(last - first + 1) :
            Bytes(m, first, last)[j] = [msg |-> m, at |-> first + j - 1]
  <2>1. first <= last + 1
    OBVIOUS
  <2> QED
    BY <1>m, <2>1, BytesProperties
<1>d. PICK bytes \in Seq(Byte) : bytes = Bytes(m, first, last)
  BY <1>1
<1>2. /\ n \in Nat \ {0} /\ o \in Nat
      /\ \A j \in 1..Len(bytes) : disk'[n - 1][o + j] = bytes[j]
      /\ fds' \in Seq(FdSet) /\ Len(fds') = n
      /\ fds'[n].offset = o + Len(bytes)
  <2>1. Write(bytes) /\ PlaceInv /\ bytes \in Seq(Byte) /\ fds # <<>>
    BY <1>m, <1>d DEF PartsTypes
  <2> HIDE DEF PlaceInv, Write
  <2>2. /\ n \in Nat \ {0} /\ o \in Nat
        /\ \A j \in 1..Len(bytes) : disk'[n - 1][o + j] = bytes[j]
        /\ fds' \in Seq(FdSet) /\ Len(fds') = n
        /\ fds'[n].offset = o + Len(bytes)
    BY ONLY <1>a, <1>b, <2>1, WriteEffect, SMTT(30)
  <2> QED
    BY <2>2
<1>3. FilesKept
  <2>1. Write(bytes) /\ PlaceInv
    BY <1>m, <1>d DEF PartsTypes
  <2> QED
    BY <2>1, WriteKeeps
<1>4. n \in DOMAIN fds /\ n \in DOMAIN fds' /\ Base(n)' = b /\ b \in Nat /\ t \in Nat
  <2>1. n \in DOMAIN fds /\ n \in 1..Len(fds) + 1
    BY <1>a, <1>2, LenProperties DEF PartsTypes, PlaceInv, WriterTypes
  <2> QED
    BY <1>3, <1>c, <1>t, <2>1, BaseType DEF FilesKept, PartsTypes, PlaceInv, WriterTypes
<1>5. t + (first - 1) = b + o /\ b <= t
  <2>1. HoldsUpTo(n, total + InFlight) /\ Base(n) <= Counted
    BY <1>a DEF PartsTypes, PartsInv
  <2> QED
    BY <1>b, <1>c, <1>t, <2>1 DEF HoldsUpTo, End, Counted
<1>6. t + last <= End(n)'
  <2>a. PICK l : l = Len(bytes)
    OBVIOUS
  <2>1. l = last - first + 1 /\ o \in Nat /\ b \in Nat /\ t \in Nat /\ t + (first - 1) = b + o
    BY <1>1, <1>2, <1>4, <1>5, <1>d, <2>a
  <2>2. End(n)' = b + (o + l)
    BY <1>2, <1>4, <2>a DEF End
  <2>3. t + last <= b + (o + l)
    BY <2>1
  <2> QED
    BY <2>2, <2>3
<1>7. ASSUME NEW j \in 1..last PROVE disk'[n - 1][t - b + j] = [msg |-> m, at |-> j]
  <2>1. CASE j < first
    <3>1. first > 1 /\ j \in 1..first - 1 /\ first - 1 \in Nat
      BY <2>1
    <3>2. HasRecord(n, t, m, first - 1)'
      BY <1>3, <1>4, <1>a, <1>m, <1>t, <3>1, RecordKept DEF PartsTypes
    <3> QED
      BY <1>4, <3>1, <3>2 DEF HasRecord
  <2>2. CASE ~(j < first)
    <3>1. PICK q : q = j - first + 1
      OBVIOUS
    <3>a. o \in Nat /\ b \in Nat /\ t \in Nat /\ t + (first - 1) = b + o
      BY <1>2, <1>4, <1>5
    <3>2. q \in 1..(last - first + 1) /\ t - b + j = o + q /\ first + q - 1 = j
      BY <2>2, <3>1, <3>a
    <3>3. q \in 1..Len(bytes) /\ bytes[q] = [msg |-> m, at |-> j]
      <4>1. Len(bytes) = last - first + 1 /\ bytes[q] = [msg |-> m, at |-> first + q - 1]
        BY <1>1, <1>d, <3>2
      <4> QED
        BY <3>2, <4>1
    <3>4. disk'[n - 1][o + q] = bytes[q]
      BY <1>2, <3>3
    <3>5. t - b + j = o + q
      BY <3>2
    <3> QED
      BY <3>3, <3>4, <3>5
  <2> QED
    BY <2>1, <2>2
<1> QED
  <2>1. Len(fds)' = n /\ total' = t /\ wmsg' = m
    BY <1>2, <1>t, <1>m
  <2>2. HasRecord(n, t, m, last)'
    BY <1>4, <1>5, <1>6, <1>7 DEF HasRecord
  <2> QED
    BY <2>1, <2>2

\* The steps of the writer that count nothing.
LEMMA WriterKeepsRecords ==
    ASSUME "create" \notin Faults, PartsTypes, PlaceInv', NEW start, RecordsInv(start),
           \/ ReadProducer \/ FirstFile \/ SameFile \/ NextFile \/ CountFile
           \/ WriteLength \/ WritePayload
    PROVE  RecordsInv(start)'
<1>1. UNCHANGED <<intact, total>> /\ total \in Nat /\ torn \in BOOLEAN
  BY DEF ReadProducer, FirstFile, SameFile, NextFile, CountFile, WriteLength, WritePayload,
         PartsTypes, PlaceInv, WriterTypes
<1>3. ASSUME FilesKept, torn => torn',
             InFlight' > 0 /\ ~torn' => HasRecord(Len(fds), total, wmsg, InFlight)'
      PROVE  RecordsInv(start)'
  BY <1>1, <1>3, RecordsKept DEF PartsTypes
<1>4. CASE ReadProducer \/ FirstFile \/ SameFile \/ NextFile \/ CountFile
  <2>1. wpc' \in {"read", "select", "length", "stopped"} /\ torn' = torn
    BY <1>4 DEF ReadProducer, FirstFile, SameFile, NextFile, CountFile, WriteFails
  <2>2. InFlight' = 0
    BY <2>1 DEF InFlight
  <2>3. UNCHANGED <<disk, fds>> \/ FirstFile \/ NextFile \/ CountFile
    BY <1>4 DEF ReadProducer, SameFile
  <2> QED
    BY <1>3, <2>1, <2>2, <2>3, OthersKeep DEF PartsTypes
<1>5. CASE WriteLength \/ WritePayload
  <2>1. /\ fds # <<>> /\ wmsg \in Messages /\ wpc \in {"length", "payload"}
        /\ wmsg.len \in Nat /\ wmsg.len >= 1 /\ Header \in Nat /\ Header >= 2
    <3>1. fds # <<>> /\ wmsg \in Messages /\ wpc \in {"length", "payload"}
      BY <1>5 DEF WriteLength, WritePayload, PartsTypes, PlaceInv, WriterTypes, FilesInv
    <3>2. wmsg.len \in Nat \ {0}
      BY <3>1, MessageProperties
    <3> QED
      BY <3>1, <3>2, HeaderAssumption
  <2>2. ASSUME NEW first \in Nat \ {0}, NEW last \in Nat, first <= last + 1,
               Write(Bytes(wmsg, first, last)), torn => torn',
               ~torn' /\ InFlight' > 0 =>
                  first <= last /\ UNCHANGED wmsg /\ InFlight = first - 1 /\ InFlight' = last
        PROVE  RecordsInv(start)'
    <3>1. Bytes(wmsg, first, last) \in Seq(Byte)
      BY <2>1, <2>2, BytesProperties
    <3>2. FilesKept
      BY <2>1, <2>2, <3>1, WriteKeeps DEF PartsTypes
    <3>3. ASSUME ~torn', InFlight' > 0 PROVE HasRecord(Len(fds), total, wmsg, InFlight)'
      <4>1. /\ first <= last /\ UNCHANGED wmsg /\ InFlight = first - 1 /\ InFlight' = last
            /\ ~torn
        BY <2>2, <3>3
      <4>2. first > 1 => HasRecord(Len(fds), total, wmsg, first - 1)
        BY <2>2, <4>1 DEF RecordsInv
      <4>3. HasRecord(Len(fds), total, wmsg, last)'
        BY <1>1, <2>1, <2>2, <4>1, <4>2, InFlightWritten
      <4> QED
        BY <4>1, <4>3
    <3> QED
      BY <1>3, <2>2, <3>2, <3>3
  <2>3. CASE WriteLength
    <3>1. CASE Write(Bytes(wmsg, 1, Header)) /\ wpc' = "payload" /\ UNCHANGED <<wmsg, torn>>
      <4>1. InFlight = 1 - 1 /\ InFlight' = Header
        BY <2>1, <2>3, <3>1 DEF InFlight, WriteLength
      <4>2. 1 \in Nat \ {0} /\ 1 <= Header /\ 1 <= Header + 1
        BY <2>1
      <4> QED
        BY <2>1, <2>2, <3>1, <4>1, <4>2
    <3>2. ASSUME NEW n \in 0..Header - 1, Write(Bytes(wmsg, 1, n)), torn' = (torn \/ n > 0),
                 WriteFails
          PROVE  RecordsInv(start)'
      <4>1. InFlight' = 0
        BY <3>2 DEF InFlight, WriteFails
      <4>2. 1 \in Nat \ {0} /\ n \in Nat /\ 1 <= n + 1
        BY <2>1
      <4>3. torn => torn'
        BY <3>2, Zenon
      <4>4. ~(InFlight' > 0)
        BY <4>1
      <4> QED
        BY <2>2, <3>2, <4>2, <4>3, <4>4
    <3> QED
      BY <2>3, <3>1, <3>2 DEF WriteLength
  <2>4. CASE WritePayload
    <3>1. PICK n \in {wmsg.len} \cup (IF "payload" \in Faults THEN 0..wmsg.len - 1 ELSE {}) :
            /\ Write(Bytes(wmsg, Header + 1, Header + n))
            /\ written' = Header + (IF n = 0 THEN -1 ELSE n)
            /\ torn' = (torn \/ n < wmsg.len)
      BY <2>4 DEF WritePayload
    <3>2. wpc = "payload" /\ wpc' = "count" /\ UNCHANGED wmsg /\ n \in Nat /\ n <= wmsg.len
      BY <2>1, <2>4 DEF WritePayload
    <3>a. PICK first : first = Header + 1
      OBVIOUS
    <3>b. PICK last : last = Header + n
      OBVIOUS
    <3>3. /\ first \in Nat \ {0} /\ last \in Nat /\ first <= last + 1
          /\ first - 1 = Header
      BY <2>1, <3>2, <3>a, <3>b
    <3>4. InFlight = first - 1 /\ InFlight' = written'
      BY <3>2, <3>3 DEF InFlight
    <3>5. torn => torn'
      BY <3>1
    <3>6. ~torn' => first <= last /\ written' = last
      <4>a. PICK l : l = wmsg.len
        OBVIOUS
      <4>b. ~torn' => ~(n < l)
        BY <3>1, <4>a, Zenon
      <4>c. n \in Nat /\ l \in Nat /\ n <= l
        BY <2>1, <3>2, <4>a
      <4>1. ~torn' => n = wmsg.len
        BY <4>a, <4>b, <4>c
      <4> QED
        BY <2>1, <3>1, <3>2, <3>a, <3>b, <4>1
    <3> QED
      BY <2>2, <3>1, <3>2, <3>3, <3>4, <3>5, <3>6, <3>a, <3>b
  <2> QED
    BY <1>5, <2>3, <2>4
<1> QED
  BY <1>4, <1>5

\* They leave the reader where it is; if the write stops half way, they leave it
\* before that.
LEMMA WriterKeepsLog ==
    ASSUME "create" \notin Faults, PartsTypes, PlaceInv', NEW start, LogFrom(start),
           \/ ReadProducer \/ FirstFile \/ SameFile \/ NextFile \/ CountFile
           \/ WriteLength \/ WritePayload
    PROVE  LogFrom(start)'
<1>1. UNCHANGED <<intact, readerVars>> /\ (torn => torn')
  <2>1. CASE ReadProducer \/ FirstFile \/ SameFile \/ NextFile \/ CountFile
    BY <2>1 DEF ReadProducer, FirstFile, SameFile, NextFile, CountFile
  <2>2. CASE WriteLength \/ WritePayload
    <3>1. UNCHANGED <<intact, readerVars>>
      BY <2>2 DEF WriteLength, WritePayload
    <3>2. torn => torn'
      BY <2>2 DEF WriteLength, WritePayload
    <3> QED
      BY <3>1, <3>2
  <2> QED
    BY <2>1, <2>2
<1>2. FetchInv(start)'
  BY <1>1 DEF LogFrom, FetchInv, BeforeTear, readerVars
<1>3. RecordsInv(start)'
  BY WriterKeepsRecords DEF LogFrom
<1> QED
  BY <1>2, <1>3 DEF LogFrom

\* Counting a message adds its record at the end of the log.
LEMMA CountTotalKeepsRecords ==
    ASSUME PartsTypes, NEW start, RecordsInv(start), CountTotal, ~torn
    PROVE  \E s : RecordsInv(s)' /\ \A k \in 1..Len(intact) + 1 : s[k] = start[k]
<1>a. PICK n : n = Len(intact)
  OBVIOUS
<1>m. PICK m : m = wmsg
  OBVIOUS
<1>t. PICK t : t = total
  OBVIOUS
<1>1. /\ wpc = "count" /\ wpc' = "cumulate" /\ total' = total + written
      /\ intact' = Append(intact, m)
      /\ UNCHANGED <<disk, fds, written, wmsg, torn, readerVars>>
  BY <1>m DEF CountTotal
<1>2. /\ intact \in Seq(Messages) /\ n \in Nat /\ DOMAIN intact = 1..n
      /\ m \in Messages /\ fds # <<>> /\ Len(fds) \in DOMAIN fds
      /\ t \in Nat /\ written = Header + m.len /\ m.len \in Nat /\ Header \in Nat /\ m.len >= 1
  <2>1. /\ intact \in Seq(Messages) /\ m \in Messages /\ fds # <<>> /\ fds \in Seq(FdSet)
        /\ t \in Nat /\ written = Header + m.len
    BY <1>1, <1>m, <1>t DEF PartsTypes, PartsInv, PlaceInv, WriterTypes, FilesInv
  <2>2. Len(fds) \in DOMAIN fds
    BY <2>1, LenProperties, EmptySeq
  <2>3. m.len \in Nat \ {0}
    BY <2>1, MessageProperties
  <2> QED
    BY <1>a, <2>1, <2>2, <2>3, LenProperties, HeaderAssumption
<1>3. /\ intact' \in Seq(Messages) /\ Len(intact') = n + 1
      /\ intact'[n + 1] = m /\ \A k \in 1..n : intact'[k] = intact[k]
      /\ DOMAIN intact' = 1..n + 1
  <2>1. /\ intact' \in Seq(Messages) /\ Len(intact') = n + 1
        /\ intact'[n + 1] = m /\ \A k \in 1..n : intact'[k] = intact[k]
    BY <1>1, <1>2, <1>a, AppendProperties
  <2> QED
    BY <2>1, LenProperties
<1>4. /\ start \in [1..n + 1 -> Nat] /\ start[1] = 0 /\ start[n + 1] = t
      /\ \A k \in 1..n + 1 : start[k] <= t
      /\ \A k \in 1..n :
            /\ start[k + 1] = start[k] + (Header + intact[k].len)
            /\ \E i \in DOMAIN fds : HasWhole(i, start[k], intact[k])
      /\ HasWhole(Len(fds), t, m)
  <2>1. InFlight = Header + m.len /\ InFlight > 0
    BY <1>1, <1>2, <1>m DEF InFlight
  <2>2. HasRecord(Len(fds), t, m, Header + m.len)
    BY <1>m, <1>t, <2>1 DEF RecordsInv
  <2>3. \A h \in 1..Len(fds) - 1 : fds[h].cum = End(h)
    BY DEF PartsTypes, PartsInv, HoldsUpTo
  <2>4. ~(Len(fds) < Len(fds))
    BY FdsProperties DEF PartsTypes, PlaceInv
  <2> QED
    BY <1>2, <1>a, <1>m, <1>t, <2>2, <2>3, <2>4 DEF RecordsInv, HasWhole
<1>s. PICK s : s = [k \in 1..n + 2 |-> IF k <= n + 1 THEN start[k] ELSE t + (Header + m.len)]
  OBVIOUS
<1>5. /\ s \in [1..n + 2 -> Nat] /\ s[n + 2] = t + (Header + m.len)
      /\ \A k \in 1..n + 1 : s[k] = start[k]
  <2>1. /\ \A k \in 1..n + 2 : k <= n + 1 => k \in 1..n + 1
        /\ n + 2 \in 1..n + 2 /\ ~(n + 2 <= n + 1)
        /\ \A k \in 1..n + 1 : k \in 1..n + 2 /\ k <= n + 1
        /\ t + (Header + m.len) \in Nat
    BY <1>2
  <2> QED
    BY <1>4, <1>s, <2>1
<1>6. ASSUME NEW i, NEW at, NEW mm, HasWhole(i, at, mm)
      PROVE  HasWhole(i, at, mm)'
  BY <1>1, <1>6 DEF HasWhole, HasRecord, Base, End
<1>7. ASSUME NEW k \in 1..n + 1
      PROVE  /\ s[k + 1] = s[k] + (Header + intact'[k].len)
             /\ \E i \in DOMAIN fds' : HasWhole(i, s[k], intact[k])'
  <2>1. CASE k = n + 1
    <3>1. k + 1 = n + 2 /\ s[k] = t /\ intact'[k] = m /\ s[k + 1] = t + (Header + m.len)
      BY <1>2, <1>3, <1>4, <1>5, <2>1
    <3>2. s[k + 1] = s[k] + (Header + intact'[k].len)
      BY <1>2, <3>1
    <3>a. PICK j \in DOMAIN fds : j = Len(fds)
      BY <1>2
    <3>3. HasWhole(j, t, m)' /\ j \in DOMAIN fds'
      BY <1>1, <1>4, <1>6, <3>a
    <3> QED
      BY <3>1, <3>2, <3>3 DEF HasWhole, HasRecord
  <2>2. CASE k # n + 1
    <3>1. k \in 1..n /\ k \in 1..n + 1 /\ k + 1 \in 1..n + 1
      BY <1>2, <2>2
    <3>b. PICK c : c = intact[k]
      OBVIOUS
    <3>2. s[k] = start[k] /\ s[k + 1] = start[k + 1] /\ intact'[k] = c
      BY <1>3, <1>5, <3>1, <3>b
    <3>3. PICK i \in DOMAIN fds : HasWhole(i, start[k], c)
      BY <1>4, <3>1, <3>b
    <3>4. HasWhole(i, start[k], c)' /\ i \in DOMAIN fds'
      BY <1>1, <1>6, <3>3
    <3>5. s[k + 1] = s[k] + (Header + intact'[k].len)
      BY <1>4, <3>1, <3>2, <3>b
    <3> QED
      BY <3>2, <3>4, <3>5 DEF HasWhole, HasRecord
  <2> QED
    BY <2>1, <2>2
<1>8. RecordsInv(s)'
  <2>1. InFlight' = 0 /\ (n + 1) + 1 = n + 2 /\ 1 \in 1..n + 1
    BY <1>1, <1>2 DEF InFlight
  <2>2. s[1] = 0 /\ total' = t + (Header + m.len)
    BY <1>1, <1>2, <1>4, <1>5, <1>t, <2>1
  <2>3. ASSUME NEW k \in 1..n + 2 PROVE s[k] <= total'
    <3>1. CASE k = n + 2
      BY <1>2, <1>5, <2>2, <3>1
    <3>2. CASE k # n + 2
      <4>1. k \in 1..n + 1
        BY <1>2, <3>2
      <4>2. s[k] = start[k] /\ start[k] <= t /\ start[k] \in Nat
        BY <1>4, <1>5, <4>1
      <4> QED
        BY <1>2, <2>2, <4>2
    <3> QED
      BY <3>1, <3>2
  <2> QED
    BY <1>1, <1>3, <1>5, <1>7, <2>1, <2>2, <2>3 DEF RecordsInv
<1> QED
  BY <1>5, <1>8, <1>a

\* The reader has the same records before it.
LEMMA CountTotalKeepsLog ==
    ASSUME "create" \notin Faults, PartsTypes, PlaceInv', NEW start, LogFrom(start), CountTotal
    PROVE  \E s : LogFrom(s)'
<1>1. CASE torn
  <2>1. /\ UNCHANGED <<disk, fds, torn, intact, readerVars>> /\ wpc' = "cumulate"
        /\ total' = total + written /\ total \in Nat /\ written \in Nat
    BY <1>1 DEF CountTotal, PartsTypes, PlaceInv, WriterTypes
  <2>2. RecordsInv(start)'
    <3>1. FilesKept
      BY <2>1, OthersKeep DEF PartsTypes
    <3>2. total <= total'
      BY <2>1
    <3> QED
      BY <1>1, <2>1, <3>1, <3>2, RecordsKept DEF PartsTypes, LogFrom
  <2>3. FetchInv(start)'
    BY <2>1 DEF LogFrom, FetchInv, BeforeTear, readerVars
  <2> QED
    BY <2>2, <2>3 DEF LogFrom
<1>2. CASE ~torn
  <2>1. PICK s : RecordsInv(s)' /\ \A k \in 1..Len(intact) + 1 : s[k] = start[k]
    BY <1>2, CountTotalKeepsRecords DEF LogFrom
  <2>a. PICK n : n = Len(intact)
    OBVIOUS
  <2>2. UNCHANGED readerVars /\ intact' = Append(intact, wmsg)
    BY <1>2 DEF CountTotal
  <2>3. /\ intact \in Seq(Messages) /\ wmsg \in Messages /\ n \in Nat
        /\ DOMAIN intact = 1..n
        /\ Len(intact') = n + 1 /\ \A k \in 1..n : intact'[k] = intact[k]
    <3>1. intact \in Seq(Messages) /\ wmsg \in Messages
      BY DEF CountTotal, PartsTypes, PlaceInv, WriterTypes
    <3> QED
      BY <2>2, <2>a, <3>1, LenProperties, AppendProperties
  <2>4. FetchInv(s)'
    <3>1. /\ Len(fetched) \in Nat /\ DOMAIN fetched = 1..Len(fetched)
          /\ Len(fetched) <= n
      BY <1>2, <2>a, LenProperties DEF PartsTypes, PlaceInv, ReaderTypes, LogFrom, FetchInv
    <3>2. \A k \in DOMAIN fetched : fetched[k] = intact'[k]
      <4> SUFFICES ASSUME NEW k \in DOMAIN fetched PROVE fetched[k] = intact'[k]
        OBVIOUS
      <4>1. k \in 1..n /\ k <= n
        BY <2>3, <3>1
      <4> QED
        BY <2>3, <2>a, <4>1 DEF LogFrom, FetchInv
    <3>3. position = s[Len(fetched) + 1]
      <4>1. Len(fetched) + 1 \in 1..n + 1
        BY <2>3, <3>1
      <4> QED
        BY <1>2, <2>1, <2>a, <4>1 DEF LogFrom, FetchInv, BeforeTear
    <3>4. rpc = "scan" => roff = position \/ roff < 0
      BY <1>2 DEF LogFrom, FetchInv, BeforeTear
    <3>5. Len(fetched) <= n + 1
      BY <2>3, <3>1
    <3> QED
      BY <2>2, <2>3, <3>2, <3>3, <3>4, <3>5 DEF FetchInv, readerVars
  <2> QED
    BY <2>1, <2>4 DEF LogFrom
<1> QED
  BY <1>1, <1>2

\* No file remembers more than the total.
LEMMA CumWithinTotal ==
    ASSUME PartsTypes, NEW i \in 1..Len(fds)
    PROVE  /\ fds[i].cum <= total /\ fds[i].cum \in Nat
           /\ Base(i) \in Nat /\ fds[i].offset \in Nat
<1>1. /\ Len(fds) \in Nat /\ DOMAIN fds = 1..Len(fds) /\ fds # <<>>
      /\ Len(fds) \in 1..Len(fds) /\ i \in 1..Len(fds) + 1
      /\ fds[i].cum \in Nat /\ fds[i].offset \in Nat /\ total \in Nat
  BY FdsProperties DEF PartsTypes, PlaceInv, WriterTypes
<1>2. Counted <= total /\ Counted \in Int /\ Base(Len(fds)) <= Counted
  <2>1. written \in Nat /\ total \in Nat /\ Base(Len(fds)) <= Counted
    BY <1>1 DEF PartsTypes, PlaceInv, WriterTypes, PartsInv
  <2> QED
    BY <2>1 DEF Counted
<1>3. Base(i) \in Nat /\ Base(Len(fds)) \in Nat
  <2>1. Len(fds) \in 1..Len(fds) + 1
    BY <1>1
  <2> QED
    BY <1>1, <2>1, BaseType DEF PartsTypes, PlaceInv
<1>4. CASE i = Len(fds)
  <2>1. fds[i].cum = Counted \/ fds[i].cum = 0
    BY <1>1, <1>4 DEF PartsTypes, PartsInv
  <2> QED
    BY <1>1, <1>2, <1>3, <2>1
<1>5. CASE i # Len(fds)
  <2>1. i < Len(fds)
    <3>a. PICK n : n = Len(fds)
      OBVIOUS
    <3>1. n \in Nat /\ i \in 1..n /\ i # n
      BY <1>1, <1>5, <3>a
    <3>2. i < n
      BY <3>1
    <3> QED
      BY <3>2, <3>a
  <2>2. fds[i].cum <= Base(Len(fds))
    BY <1>1, <2>1 DEF PartsTypes, PartsInv
  <2> QED
    BY <1>1, <1>2, <1>3, <2>2
<1> QED
  BY <1>4, <1>5

\* What a look at a file comes to: nothing, and then the reader finds nothing
\* in the files after it either; or the next message of the log.
GoesOn == roff' < 0 /\ UNCHANGED <<rpc, position, fetched>>
Serves(start) ==
    LET k == Len(fetched) + 1
    IN  /\ k \in DOMAIN intact
        /\ position' = start[k + 1]
        /\ fetched' = Append(fetched, intact[k])
        /\ rpc' = "send"

\* The record at position is in the file whose part of the log position is in.
\* In the files after it the local offset is negative; those before it remember
\* no more than position.
LEMMA ReadRecordServes ==
    ASSUME PartsTypes, NEW start, LogFrom(start), ReadRecord, BeforeTear
    PROVE  GoesOn \/ Serves(start)
<1>a. PICK i : i = ri
  OBVIOUS
<1>b. PICK b : b = Base(i)
  OBVIOUS
<1>p. PICK p : p = position
  OBVIOUS
<1>k. PICK k : k = Len(fetched) + 1
  OBVIOUS
<1>c. PICK file : file = disk[fds[i].file]
  OBVIOUS
<1>l. PICK at : at = LocalOffset
  OBVIOUS
<1>1. /\ i \in 1..Len(fds) /\ p < fds[i].cum /\ fds[i].cum <= total /\ fds[i].cum \in Nat
      /\ b \in Nat /\ p \in Nat /\ total \in Nat /\ at \in Int /\ file \in Seq(Byte)
      /\ at = roff - b /\ roff \in Int /\ (roff = p \/ roff < 0)
      /\ fds[i].offset \in Nat /\ Len(fds) \in Nat /\ DOMAIN fds = 1..Len(fds)
  <2>1. ri <= Len(fds) /\ position < fds[ri].cum /\ rpc = "scan"
    BY DEF ReadRecord
  <2>2. LocalOffset \in Int /\ ri \in 1..Len(fds) /\ disk[fds[ri].file] \in Seq(Byte)
    BY <2>1, LocalOffsetType DEF PartsTypes
  <2>3. at = roff - b
    BY <1>a, <1>b, <1>l DEF LocalOffset, Base
  <2>4. roff = position \/ roff < 0
    BY <2>1 DEF LogFrom, FetchInv
  <2>5. position \in Nat /\ roff \in Int /\ total \in Nat
    BY DEF PartsTypes, PlaceInv, ReaderTypes, WriterTypes
  <2>6. /\ fds[i].cum <= total /\ fds[i].cum \in Nat /\ b \in Nat /\ fds[i].offset \in Nat
    BY <1>a, <1>b, <2>2, CumWithinTotal
  <2>7. Len(fds) \in Nat /\ DOMAIN fds = 1..Len(fds)
    BY FdsProperties DEF PartsTypes, PlaceInv
  <2> QED
    BY <1>a, <1>c, <1>l, <1>p, <2>1, <2>2, <2>3, <2>4, <2>5, <2>6, <2>7
<1>2. PICK r \in Record(file, at) :
          IF r.result > 0
          THEN /\ position' = position + r.result
               /\ rmsg' = r.msg
               /\ fetched' = Append(fetched, r.msg)
               /\ rpc' = "send"
               /\ UNCHANGED <<ri, roff>>
          ELSE /\ ri' = ri + 1
               /\ roff' = LocalOffset
               /\ UNCHANGED <<rpc, position, rmsg, fetched>>
  BY <1>a, <1>c, <1>l DEF ReadRecord
<1>3. ASSUME at < 0 PROVE GoesOn
  <2>1. Record(file, at) = {[result |-> at, msg |-> Nothing]}
    BY <1>3 DEF Record
  <2>2. r.result = at
    BY <1>2, <2>1
  <2>3. ~(r.result > 0)
    BY <1>1, <1>3, <2>2
  <2> QED
    BY <1>2, <1>3, <1>l, <2>3 DEF GoesOn
<1>4. /\ k \in DOMAIN intact /\ k \in Nat /\ p = start[k]
      /\ intact[k] \in Messages
  <2>1. /\ Len(fetched) \in Nat /\ Len(intact) \in Nat /\ DOMAIN intact = 1..Len(intact)
        /\ \A j \in 1..Len(intact) : intact[j] \in Messages
    BY LenProperties, ElementOfSeq DEF PartsTypes, PlaceInv, ReaderTypes, WriterTypes
  <2>2. p = start[k]
    BY <1>k, <1>p DEF LogFrom, FetchInv
  <2>3. k <= Len(intact)
    <3>1. CASE Len(fetched) < Len(intact)
      BY <1>k, <2>1, <3>1
    <3>2. CASE ~torn
      <4>1. k <= Len(intact) + 1 /\ start[Len(intact) + 1] = total
        BY <1>k, <2>1, <3>2 DEF LogFrom, FetchInv, RecordsInv
      <4>2. k # Len(intact) + 1
        BY <1>1, <2>2, <4>1
      <4> QED
        BY <1>k, <2>1, <4>1, <4>2
    <3> QED
      BY <3>1, <3>2 DEF BeforeTear
  <2> QED
    BY <1>k, <2>1, <2>2, <2>3
<1>m. PICK m : m = intact[k]
  OBVIOUS
<1>n. PICK n : n = Header + m.len
  OBVIOUS
<1>5. /\ m \in Messages /\ n \in Nat /\ n > 0 /\ start[k + 1] = p + n
      /\ \E f \in DOMAIN fds : HasWhole(f, p, m)
  <2>1. m \in Messages
    BY <1>4, <1>m
  <2>2. m.len \in Nat \ {0} /\ Header \in Nat
    BY <2>1, MessageProperties, HeaderAssumption
  <2>3. start[k + 1] = p + n
    BY <1>4, <1>m, <1>n DEF LogFrom, RecordsInv
  <2>4. \E f \in DOMAIN fds : HasWhole(f, p, m)
    BY <1>4, <1>m DEF LogFrom, RecordsInv
  <2>5. n \in Nat /\ n > 0
    BY <1>n, <2>2
  <2> QED
    BY <2>1, <2>3, <2>4, <2>5
<1>6. PICK f \in DOMAIN fds : HasWhole(f, p, m)
  BY <1>5
<1>f. PICK c : c = Base(f)
  OBVIOUS
<1>7. /\ f \in 1..Len(fds) /\ c \in Nat /\ fds[f].offset \in Nat /\ fds[f].cum \in Nat
      /\ c <= p /\ p + n <= c + fds[f].offset
      /\ \A j \in 1..n : disk[f - 1][p - c + j] = [msg |-> m, at |-> j]
  <2>1. HasRecord(f, p, m, n)
    BY <1>6, <1>n DEF HasWhole
  <2> QED
    BY <1>1, <1>6, <1>f, <2>1, CumWithinTotal DEF HasRecord, End
<1>8. ~(i < f)
  <2> SUFFICES ASSUME i < f PROVE FALSE
    OBVIOUS
  <2>1. fds[i].cum <= c
    BY <1>1, <1>6, <1>f DEF PartsTypes, PartsInv
  <2> QED
    BY <1>1, <1>7, <2>1
<1>9. CASE f < i
  <2>1. PICK last : last = Len(fds)
    OBVIOUS
  <2>2. f < last
    BY <1>1, <1>7, <1>9, <2>1
  <2>3. p + n <= fds[f].cum
    BY <1>6, <1>n, <2>1, <2>2 DEF HasWhole
  <2>4. fds[f].cum <= b
    BY <1>1, <1>6, <1>9, <1>b DEF PartsTypes, PartsInv
  <2>5. at < 0
    BY <1>1, <1>5, <1>7, <2>3, <2>4, SMTT(30)
  <2> QED
    BY <1>3, <2>5
<1>10. CASE f = i
  <2>1. c = b
    BY <1>10, <1>b, <1>f
  <2>2. CASE roff < 0
    BY <1>1, <1>3, <2>2
  <2>3. CASE roff = p
    <3>1. at = p - b /\ at \in Nat
      BY <1>1, <1>7, <2>1, <2>3
    <3>2. fds[i].file = i - 1 /\ fds[i].offset <= Len(file) /\ file = disk[i - 1]
      BY <1>1, <1>c DEF PartsTypes, PlaceInv, FilesInv
    <3>3. Len(file) \in Nat
      BY <1>1, LenProperties
    <3>4. at + n <= Len(file)
      BY <1>1, <1>5, <1>7, <1>10, <2>1, <3>1, <3>2, <3>3, SMTT(30)
    <3>5. \A j \in 1..n : file[at + j] = [msg |-> m, at |-> j]
      BY <1>7, <1>10, <2>1, <3>1, <3>2
    <3>6. at + Header + m.len <= Len(file)
      <4>1. m.len \in Nat /\ Header \in Nat
        BY <1>5, MessageProperties, HeaderAssumption
      <4> QED
        BY <1>n, <3>1, <3>4, <4>1
    <3>7. Record(file, at) = {[result |-> n, msg |-> m]}
      <4>1. \A j \in 1..(Header + m.len) : file[at + j] = [msg |-> m, at |-> j]
        BY <1>n, <3>5
      <4>2. Record(file, at) = {[result |-> Header + m.len, msg |-> m]}
        BY <1>1, <1>5, <3>1, <3>6, <4>1, RecordFound
      <4> QED
        BY <1>n, <4>2
    <3>8. r.result = n /\ r.msg = m
      BY <1>2, <3>7
    <3>9. r.result > 0
      BY <1>5, <3>8
    <3> QED
      BY <1>2, <1>4, <1>5, <1>k, <1>m, <1>p, <3>8, <3>9 DEF Serves
  <2> QED
    BY <1>1, <2>2, <2>3
<1> QED
  <2>1. PICK last : last = Len(fds)
    OBVIOUS
  <2>2. last \in Nat /\ i \in 1..last /\ f \in 1..last
    BY <1>1, <1>7, <2>1
  <2>3. i < f \/ f < i \/ f = i
    BY <2>2
  <2> QED
    BY <1>8, <1>9, <1>10, <2>3

\* Nothing that the log consists of is changed by the reader.
LEMMA ReaderKeepsRecords ==
    ASSUME NEW start, RecordsInv(start),
           UNCHANGED <<disk, fds, total, wpc, wmsg, written, torn, intact>>
    PROVE  RecordsInv(start)'
BY DEF RecordsInv, HasWhole, HasRecord, Base, End, InFlight

\* A look at a file adds one message to what is fetched, or none.
LEMMA ReadRecordFetches ==
    ASSUME PlaceInv, ReadRecord
    PROVE  fetched' = fetched \/ \E m \in Messages \cup {Nothing} : fetched' = Append(fetched, m)
<1>1. LocalOffset \in Int /\ disk[fds[ri].file] \in Seq(Byte)
  BY LocalOffsetType DEF ReadRecord
<1>2. \A r \in Record(disk[fds[ri].file], LocalOffset) : r.msg \in Messages \cup {Nothing}
  BY <1>1, RecordType
<1> QED
  BY <1>2 DEF ReadRecord

\* The steps of the reader.
LEMMA ReaderKeepsLog ==
    ASSUME PartsTypes, NEW start, LogFrom(start), Reader
    PROVE  LogFrom(start)'
<1>1. UNCHANGED <<disk, writerVars, crashVars>>
  BY DEF Reader, PollFile, SkipFile, NoFile, ReadRecord, SendRecord
<1>2. RecordsInv(start)'
  BY <1>1, ReaderKeepsRecords DEF LogFrom, writerVars
<1>3. intact' = intact /\ torn' = torn
  BY <1>1 DEF writerVars
<1>4. CASE PollFile \/ SkipFile \/ NoFile \/ SendRecord
  <2>1. /\ UNCHANGED <<fetched, position>>
        /\ rpc' = "scan" => (rpc = "scan" /\ roff' = roff) \/ roff' = position'
    BY <1>4 DEF PollFile, SkipFile, NoFile, SendRecord
  <2> QED
    BY <1>2, <1>3, <2>1 DEF LogFrom, FetchInv, BeforeTear
<1>5. CASE ReadRecord /\ BeforeTear
  <2>1. CASE GoesOn
    BY <1>2, <1>3, <2>1 DEF LogFrom, FetchInv, GoesOn, BeforeTear
  <2>2. CASE Serves(start)
    <3>a. PICK k : k = Len(fetched) + 1
      OBVIOUS
    <3>b. PICK m : m = intact[k]
      OBVIOUS
    <3>1. /\ k \in DOMAIN intact /\ position' = start[k + 1]
          /\ fetched' = Append(fetched, m) /\ rpc' = "send"
      BY <2>2, <3>a, <3>b DEF Serves
    <3>2. /\ fetched \in Seq(Messages \cup {Nothing}) /\ intact \in Seq(Messages)
          /\ Len(fetched) \in Nat /\ DOMAIN fetched = 1..Len(fetched)
          /\ Len(intact) \in Nat /\ DOMAIN intact = 1..Len(intact) /\ m \in Messages
      BY <3>1, <3>b, LenProperties, ElementOfSeq DEF PartsTypes, PlaceInv, ReaderTypes, WriterTypes
    <3>3. /\ Len(fetched') = k /\ fetched'[k] = m /\ fetched' \in Seq(Messages \cup {Nothing})
          /\ \A j \in 1..Len(fetched) : fetched'[j] = fetched[j]
      BY <3>1, <3>2, <3>a, AppendProperties
    <3>4. DOMAIN fetched' = 1..k
      BY <3>3, LenProperties
    <3>5. k <= Len(intact)
      BY <3>1, <3>2
    <3>6. ASSUME NEW j \in 1..k PROVE fetched'[j] = intact[j]
      <4>1. CASE j = k
        BY <3>3, <3>b, <4>1
      <4>2. CASE j # k
        <5>1. j \in 1..Len(fetched)
          BY <3>2, <3>a, <4>2
        <5> QED
          BY <3>2, <3>3, <3>5, <5>1 DEF LogFrom, FetchInv
      <4> QED
        BY <4>1, <4>2
    <3> QED
      BY <1>2, <1>3, <3>1, <3>3, <3>4, <3>5, <3>6 DEF LogFrom, FetchInv, BeforeTear
  <2> QED
    BY <1>5, <2>1, <2>2, ReadRecordServes
<1>6. CASE ReadRecord /\ ~BeforeTear
  <2>1. /\ fetched \in Seq(Messages \cup {Nothing}) /\ Len(fetched) \in Nat
        /\ DOMAIN fetched = 1..Len(fetched) /\ Len(intact) \in Nat
    BY LenProperties DEF PartsTypes, PlaceInv, ReaderTypes, WriterTypes
  <2>2. fetched' = fetched \/ \E m \in Messages \cup {Nothing} : fetched' = Append(fetched, m)
    BY <1>6, ReadRecordFetches DEF PartsTypes
  <2>3. /\ Len(fetched') \in Nat /\ Len(fetched') >= Len(fetched)
        /\ \A k \in 1..Len(fetched) : fetched'[k] = fetched[k]
    BY <2>1, <2>2, AppendProperties
  <2>4. torn /\ Len(intact) <= Len(fetched)
    BY <1>6, <2>1 DEF BeforeTear
  <2>5. torn' /\ ~(Len(fetched') < Len(intact'))
    BY <1>3, <2>1, <2>3, <2>4
  <2>6. ASSUME NEW k \in DOMAIN fetched', k <= Len(intact') PROVE fetched'[k] = intact'[k]
    <3>1. k \in 1..Len(fetched) /\ k <= Len(intact)
      <4>1. DOMAIN fetched' = 1..Len(fetched')
        BY <2>1, <2>2, AppendProperties, LenProperties
      <4> QED
        BY <1>3, <2>1, <2>3, <2>4, <2>6, <4>1
    <3> QED
      BY <1>3, <2>1, <2>3, <3>1 DEF LogFrom, FetchInv
  <2> QED
    BY <1>2, <2>5, <2>6 DEF LogFrom, FetchInv, BeforeTear
<1> QED
  BY <1>4, <1>5, <1>6 DEF Reader

\* A restart begins a log without records.
LEMMA EmptyLog ==
    ASSUME intact = <<>>, torn = FALSE, fetched = <<>>, total = 0, position = 0,
           wpc = "read", rpc = "poll"
    PROVE  LogFrom([k \in 1..1 |-> 0])
<1> DEFINE start == [k \in 1..1 |-> 0]
<1>1. Len(intact) = 0 /\ Len(fetched) = 0 /\ DOMAIN intact = {} /\ DOMAIN fetched = {}
  OBVIOUS
<1>2. start \in [1..1 -> Nat] /\ start[1] = 0 /\ 0 + 1 = 1
  OBVIOUS
<1>3. InFlight = 0
  BY DEF InFlight
<1> HIDE DEF start
<1>4. RecordsInv(start)
  BY <1>1, <1>2, <1>3 DEF RecordsInv
<1>5. FetchInv(start)
  BY <1>1, <1>2 DEF FetchInv
<1> QED
  BY <1>4, <1>5 DEF LogFrom, start

\* Every step keeps the log.
LEMMA StepLog ==
    "create" \notin Faults /\ LogInv /\ [FileNext]_fileVars => LogInv'
<1>0. (intact = <<>> /\ torn = FALSE /\ fetched = <<>> /\ total = 0 /\ position = 0 /\ wpc = "read"
         /\ rpc = "poll")' => LogFrom([k \in 1..1 |-> 0])'
  BY EmptyLog, PTL
<1> SUFFICES ASSUME "create" \notin Faults, LogInv, [FileNext]_fileVars PROVE LogInv'
  OBVIOUS
<1>1. PartsTypes /\ PartsTypes'
  BY StepParts DEF LogInv, PartsTypes
<1>2. PICK start : LogFrom(start)
  BY DEF LogInv
<1>3. ASSUME NEW s, LogFrom(s)' PROVE LogInv'
  BY <1>1, <1>3 DEF LogInv, PartsTypes
<1>4. CASE UNCHANGED fileVars
  <2>1. LogFrom(start)'
    BY <1>2, <1>4, ReaderKeepsRecords
       DEF LogFrom, FetchInv, BeforeTear, fileVars, writerVars, readerVars
  <2> QED
    BY <1>3, <2>1
<1>5. CASE Restart
  <2>1. /\ intact' = <<>> /\ torn' = FALSE /\ fetched' = <<>> /\ total' = 0 /\ position' = 0
        /\ wpc' = "read" /\ rpc' = "poll"
    BY <1>5 DEF Restart
  <2>2. LogFrom([k \in 1..1 |-> 0])'
    BY <2>1, <1>0
  <2> QED
    BY <1>3, <2>2
<1> QED
  <2>1. PlaceInv'
    BY <1>1 DEF PartsTypes
  <2> QED
    BY <1>1, <1>2, <1>3, <1>4, <1>5, <2>1, WriterKeepsLog, CountTotalKeepsLog, ReaderKeepsLog
       DEF FileNext, Writer

\* At the start the log has no records.
LEMMA InitLog == FileInit => LogInv
<1> SUFFICES ASSUME FileInit PROVE LogInv
  OBVIOUS
<1>1. /\ intact = <<>> /\ torn = FALSE /\ fetched = <<>> /\ total = 0 /\ position = 0
      /\ wpc = "read" /\ rpc = "poll" /\ fds = <<>> /\ DOMAIN fds = {} /\ Len(fds) = 0
  BY DEF FileInit, MemoryInit
<1>2. PartsInv
  BY <1>1 DEF PartsInv
<1>3. LogFrom([k \in 1..1 |-> 0])
  BY <1>1, EmptyLog
<1> QED
  BY <1>2, <1>3, InitPlace DEF LogInv

\* The reader has exactly the first of the committed messages, intact and in
\* order, whatever it looks at while the writer writes, rolls over and counts,
\* whatever writes fail and whatever the files hold from an earlier broker; once a
\* write stopped half way, of the messages before that (connection_file.h: read,
\* file_details.h: read_msg).
THEOREM FetchesCommittedHolds ==
    ASSUME "create" \notin Faults
    PROVE  FileSpec => []FetchesCommitted
<1>1. LogInv => FetchesCommitted
  <2> SUFFICES ASSUME LogInv PROVE FetchesCommitted
    OBVIOUS
  <2>1. PICK start : LogFrom(start)
    BY DEF LogInv
  <2>a. PICK n : n = Len(fetched)
    OBVIOUS
  <2>b. PICK l : l = Len(intact)
    OBVIOUS
  <2>2. /\ n \in Nat /\ l \in Nat /\ (~torn => n <= l)
        /\ \A k \in 1..n : k <= l => fetched[k] = intact[k]
    BY <2>1, <2>a, <2>b, LenProperties
       DEF LogInv, PlaceInv, ReaderTypes, WriterTypes, LogFrom, FetchInv
  <2>3. CASE n <= l
    <3>1. SubSeq(fetched, 1, n) = SubSeq(intact, 1, n)
      BY <2>2, <2>3
    <3> QED
      BY <2>2, <2>3, <2>a, <2>b, <3>1 DEF FetchesCommitted, IsPrefix
  <2>4. CASE ~(n <= l)
    <3>1. torn /\ l <= n
      BY <2>2, <2>4
    <3>2. \A k \in 1..l : fetched[k] = intact[k]
      BY <2>2, <3>1
    <3>3. SubSeq(fetched, 1, l) = SubSeq(intact, 1, l)
      BY <2>2, <3>2
    <3> QED
      BY <2>a, <2>b, <3>1, <3>3 DEF FetchesCommitted, IsPrefix
  <2> QED
    BY <2>3, <2>4
<1> QED
  BY <1>1, InitLog, StepLog, PTL DEF FileSpec

\* Each step of the files is one of the log, or none: counting a message stores
\* it, unless a write stopped half way, reading a record serves the next one, if it
\* is of the log, a crash begins anew.
LEMMA StepImplementsLog ==
    ASSUME "create" \notin Faults, LogInv, [FileNext]_fileVars
    PROVE  [FileAsLog!Next]_FileAsLog!vars
<1> USE DEF FileAsLog!Next, FileAsLog!vars
<1>1. PICK start : LogFrom(start)
  BY DEF LogInv
<1>0. /\ fetched \in Seq(Messages \cup {Nothing}) /\ Len(fetched) \in Nat
      /\ intact \in Seq(Messages) /\ Len(intact) \in Nat
      /\ DOMAIN intact = 1..Len(intact)
      /\ \A k \in DOMAIN intact : intact[k] \in Messages
      /\ ~torn => Len(fetched) <= Len(intact)
  BY <1>1, LenProperties, ElementOfSeq
     DEF LogInv, PlaceInv, ReaderTypes, WriterTypes, LogFrom, FetchInv
<1>2. CASE CountTotal
  <2>1. wmsg \in Messages /\ fetched' = fetched
    BY <1>2 DEF CountTotal, LogInv, PlaceInv, WriterTypes, readerVars
  <2>2. CASE torn
    <3>1. UNCHANGED <<intact, fetched>>
      BY <1>2, <2>1, <2>2 DEF CountTotal
    <3> QED
      BY <3>1
  <2>3. CASE ~torn
    <3>1. intact' = Append(intact, wmsg)
      BY <1>2, <2>3 DEF CountTotal
    <3>2. Len(intact') = Len(intact) + 1
      BY <1>0, <2>1, <3>1, AppendProperties
    <3>3. /\ (IF Len(fetched) < Len(intact) THEN Len(fetched) ELSE Len(intact)) = Len(fetched)
          /\ (IF Len(fetched') < Len(intact') THEN Len(fetched') ELSE Len(intact'))
                = Len(fetched)
      BY <1>0, <2>1, <2>3, <3>2
    <3>4. FileAsLog!Store(wmsg)
      BY <3>1, <3>3 DEF FileAsLog!Store
    <3> QED
      BY <2>1, <3>4
  <2> QED
    BY <2>2, <2>3
<1>3. CASE ReadRecord
  <2>1. intact' = intact
    BY <1>3 DEF ReadRecord, writerVars
  <2>2. CASE ~(Len(fetched) < Len(intact))
    <3>1. fetched' = fetched \/ \E m \in Messages \cup {Nothing} : fetched' = Append(fetched, m)
      BY <1>3, ReadRecordFetches DEF LogInv
    <3>2. Len(fetched') \in Nat /\ Len(fetched') >= Len(fetched)
      BY <1>0, <3>1, AppendProperties
    <3>3. ~(Len(fetched') < Len(intact'))
      BY <1>0, <2>1, <2>2, <3>2
    <3> QED
      BY <2>1, <2>2, <3>3
  <2>3. CASE Len(fetched) < Len(intact)
    <3>1. CASE GoesOn
      BY <2>1, <3>1 DEF GoesOn
    <3>2. CASE Serves(start)
      <4>1. PICK m : m = intact[Len(fetched) + 1]
        OBVIOUS
      <4>2. /\ Len(fetched) + 1 \in 1..Len(intact) /\ m \in Messages
            /\ fetched' = Append(fetched, m)
        BY <1>0, <3>2, <4>1 DEF Serves
      <4>3. Len(fetched') = Len(fetched) + 1
        BY <1>0, <4>2, AppendProperties
      <4>4. /\ (IF Len(fetched) < Len(intact) THEN Len(fetched) ELSE Len(intact))
                  = Len(fetched)
            /\ (IF Len(fetched') < Len(intact') THEN Len(fetched') ELSE Len(intact'))
                  = Len(fetched) + 1
        BY <1>0, <2>1, <2>3, <4>3
      <4>5. FileAsLog!Serve
        BY <2>1, <2>3, <4>4 DEF FileAsLog!Serve
      <4> QED
        BY <4>5
    <3> QED
      BY <1>1, <1>3, <2>3, <3>1, <3>2, ReadRecordServes DEF LogInv, PartsTypes, BeforeTear
  <2> QED
    BY <2>2, <2>3
<1>4. CASE Restart
  <2>1. intact' = <<>> /\ fetched' = <<>>
    BY <1>4 DEF Restart
  <2>2. (IF Len(fetched') < Len(intact') THEN Len(fetched') ELSE Len(intact')) = 0
    BY <2>1
  <2>3. FileAsLog!Forget
    BY <2>1, <2>2 DEF FileAsLog!Forget
  <2> QED
    BY <2>3
<1>5. CASE \/ UNCHANGED fileVars
           \/ ReadProducer \/ FirstFile \/ SameFile \/ NextFile \/ WriteLength \/ WritePayload
           \/ CountFile \/ PollFile \/ SkipFile \/ NoFile \/ SendRecord
  <2>1. UNCHANGED <<intact, fetched>>
    BY <1>5 DEF fileVars, writerVars, readerVars, ReadProducer, FirstFile, SameFile, NextFile,
                WriteLength, WritePayload, CountFile, PollFile, SkipFile, NoFile, SendRecord
  <2> QED
    BY <2>1
<1> QED
  BY <1>2, <1>3, <1>4, <1>5 DEF FileNext, Writer, Reader

\* The files implement the log of a topic, that of the messages before a write
\* that stopped half way, for any messages and file size and whatever writes fail:
\* what the run checks with fairness, proved here for the safety part.
THEOREM FilesImplementLog ==
    ASSUME "create" \notin Faults
    PROVE  FileSpec => FileAsLog!Spec
<1>1. FileInit => FileAsLog!Init
  <2> SUFFICES ASSUME FileInit PROVE FileAsLog!Init
    OBVIOUS
  <2>1. intact = <<>> /\ fetched = <<>> /\ Len(intact) = 0 /\ Len(fetched) = 0
    BY DEF FileInit
  <2> QED
    BY <2>1 DEF FileAsLog!Init
<1>2. LogInv /\ [FileNext]_fileVars => [FileAsLog!Next]_FileAsLog!vars
  BY StepImplementsLog
<1> QED
  BY <1>1, <1>2, InitLog, StepLog, PTL DEF FileSpec, FileAsLog!Spec
=============================================================================
