--------------------------- MODULE NetLayerProofs ---------------------------
(***************************************************************************)
(* Proofs about three parts of netLayer: the EventLoop and its thread, for *)
(* any number of threads and functors; the Acceptor with the loops that it *)
(* gives connections to, for every number of descriptors, loops and peers; *)
(* and the Buffer, for buffers and data of every size and every value of   *)
(* kCheapPrepend, kInitialSize and ExtraBuf: what the methods do to the    *)
(* content, which is the contract the rest of the library relies on, and   *)
(* that their asserts hold.                                                *)
(***************************************************************************)
EXTENDS EventLoopThread, Acceptor, Buffer, SequenceTheorems, TLAPS

-----------------------------------------------------------------------------
\* The buffer.

\* A function on 1..n is a sequence of length n.
LEMMA FunctionIsSeq ==
    ASSUME NEW n \in Nat, NEW f \in [1..n -> Byte]
    PROVE  f \in Seq(Byte) /\ Len(f) = n
<1>1. f \in Seq(Byte)
    BY SeqDef
<1>2. DOMAIN f = 1..Len(f) /\ Len(f) \in Nat /\ DOMAIN f = 1..n
    BY <1>1, LenProperties
<1> QED
    BY <1>1, <1>2

\* SubSeq, with its first index counted from 0 as the code counts.
LEMMA SubSeqBytes ==
    ASSUME NEW s \in Seq(Byte), NEW m \in Nat, NEW n \in Nat, m <= n, n <= Len(s)
    PROVE  /\ SubSeq(s, m + 1, n) \in Seq(Byte)
           /\ Len(SubSeq(s, m + 1, n)) = n - m
           /\ \A i \in 1..(n - m) : SubSeq(s, m + 1, n)[i] = s[m + i]
<1>1. \A i \in (m + 1)..n : s[i] \in Byte
    BY ElementOfSeq, LenProperties
<1>2. m + 1 \in Int /\ n \in Int
    OBVIOUS
<1>3. /\ SubSeq(s, m + 1, n) \in Seq(Byte)
      /\ Len(SubSeq(s, m + 1, n)) = IF m + 1 <= n THEN n - (m + 1) + 1 ELSE 0
      /\ \A i \in 1..(n - (m + 1) + 1) : SubSeq(s, m + 1, n)[i] = s[(m + 1) + i - 1]
    BY <1>1, <1>2, SubSeqProperties
<1>4. ASSUME NEW i \in 1..(n - m)
      PROVE  SubSeq(s, m + 1, n)[i] = s[m + i]
    <2>1. i \in 1..(n - (m + 1) + 1) /\ (m + 1) + i - 1 = m + i
        OBVIOUS
    <2> QED
        BY <1>3, <2>1, Zenon
<1>5. Len(SubSeq(s, m + 1, n)) = n - m
    BY <1>3
<1> QED
    BY <1>3, <1>4, <1>5

\* Concatenation is associative.
LEMMA BytesAssociate ==
    ASSUME NEW x \in Seq(Byte), NEW y \in Seq(Byte), NEW z \in Seq(Byte)
    PROVE  (x \o y) \o z = x \o (y \o z)
BY ConcatAssociative, SMTT(60), Z3T(60)

\* The content of a buffer, byte by byte.
LEMMA ContentBytes ==
    ASSUME NEW b, IsBuffer(b)
    PROVE  /\ Content(b) \in Seq(Byte)
           /\ Len(Content(b)) = b.w - b.r
           /\ \A i \in 1..(b.w - b.r) : Content(b)[i] = b.mem[b.r + i]
<1>1. b.mem \in Seq(Byte) /\ b.r \in Nat /\ b.w \in Nat /\ b.r <= b.w /\ b.w <= Len(b.mem)
    BY SMTT(60), Z3T(60) DEF IsBuffer
<1> QED
    BY <1>1, SubSeqBytes, ZenonT(60), ZenonT(90) DEF Content

\* How to show that a buffer has a given content.
LEMMA HasContent ==
    ASSUME NEW b, IsBuffer(b), NEW s \in Seq(Byte),
           Len(s) = b.w - b.r, \A i \in 1..Len(s) : s[i] = b.mem[b.r + i]
    PROVE  Content(b) = s
BY ContentBytes, SeqEqual, SMTT(60), Z3T(60)

\* A new buffer is empty; the constructor's asserts hold.
THEOREM NewBufferIsEmpty ==
    /\ IsBuffer(NewBuffer) /\ Content(NewBuffer) = << >>
    /\ WritableBytes(NewBuffer) = kInitialSize
<1> DEFINE n == kCheapPrepend + kInitialSize
<1>1. n \in Nat /\ kCheapPrepend \in Nat /\ kInitialSize \in Nat
    BY BufferAssumption
<1>2. Zeros(n) \in [1..n -> Byte]
    BY DEF Zeros, Byte
<1>3. Zeros(n) \in Seq(Byte) /\ Len(Zeros(n)) = n
    BY <1>1, <1>2, FunctionIsSeq
<1>4. IsBuffer(NewBuffer) /\ WritableBytes(NewBuffer) = kInitialSize
    BY <1>1, <1>3 DEF IsBuffer, NewBuffer, WritableBytes
<1>5. NewBuffer.w - NewBuffer.r = 0
    BY <1>1 DEF NewBuffer
<1>6. << >> \in Seq(Byte) /\ Len(<< >>) = 0
    BY EmptySeq
<1>7. \A i \in 1..Len(<< >>) : << >>[i] = NewBuffer.mem[NewBuffer.r + i]
    BY <1>6
<1> QED
    BY <1>4, <1>5, <1>6, <1>7, HasContent, Zenon

\* retrieve(len) drops the first len bytes, and retrieving all of them leaves an
\* empty buffer with all its prependable space.
THEOREM RetrieveDropsFront ==
    ASSUME NEW b, IsBuffer(b), NEW len \in 0..ReadableBytes(b)
    PROVE  /\ IsBuffer(Retrieve(b, len))
           /\ Content(Retrieve(b, len)) = SubSeq(Content(b), len + 1, ReadableBytes(b))
<1> DEFINE c == Retrieve(b, len)
           s == SubSeq(Content(b), len + 1, ReadableBytes(b))
<1> SUFFICES IsBuffer(c) /\ Content(c) = s
    OBVIOUS
<1> HIDE DEF c, s
<1>1. /\ b.mem \in Seq(Byte) /\ b.r \in Nat /\ b.w \in Nat /\ Len(b.mem) \in Nat
      /\ b.r <= b.w /\ b.w <= Len(b.mem) /\ kCheapPrepend <= Len(b.mem)
      /\ b \in [mem : Seq(Byte), r : Nat, w : Nat]
    BY LenProperties DEF IsBuffer
<1>2. ReadableBytes(b) = b.w - b.r /\ ReadableBytes(b) \in Nat /\ len \in Nat
    BY <1>1 DEF ReadableBytes
<1>3. /\ Content(b) \in Seq(Byte) /\ Len(Content(b)) = b.w - b.r
      /\ \A i \in 1..(b.w - b.r) : Content(b)[i] = b.mem[b.r + i]
    BY ContentBytes, SMTT(60), Z3T(60)
<1>4. /\ s \in Seq(Byte) /\ Len(s) = ReadableBytes(b) - len
      /\ \A i \in 1..(ReadableBytes(b) - len) : s[i] = Content(b)[len + i]
    BY <1>2, <1>3, SubSeqBytes, SMTT(60), Z3T(60) DEF s
<1>5. ASSUME NEW i \in 1..(ReadableBytes(b) - len)
      PROVE  s[i] = b.mem[(b.r + len) + i]
    <2>1. len + i \in 1..(b.w - b.r) /\ b.r + (len + i) = (b.r + len) + i
        BY <1>1, <1>2, SMTT(60), Z3T(60)
    <2> QED
        BY <1>3, <1>4, <2>1, SMTT(60), Z3T(60)
<1>6. CASE len < ReadableBytes(b)
    <2>1. c = [b EXCEPT !.r = @ + len]
        BY <1>6 DEF Retrieve, c
    <2>2. c.mem = b.mem /\ c.r = b.r + len /\ c.w = b.w /\ c \in [mem : Seq(Byte), r : Nat, w : Nat]
        BY <1>1, <1>2, <2>1, SMTT(60), Z3T(60)
    <2>3. IsBuffer(c)
        BY <1>1, <1>2, <1>6, <2>2, SMTT(60), Z3T(60) DEF IsBuffer
    <2>4. Len(s) = c.w - c.r
        BY <1>1, <1>2, <1>4, <1>6, <2>2, SMTT(60), Z3T(60)
    <2>5. \A i \in 1..Len(s) : s[i] = c.mem[c.r + i]
        BY <1>4, <1>5, <2>2, SMTT(60), Z3T(60)
    <2> QED
        BY <1>4, <2>3, <2>4, <2>5, HasContent, Zenon
<1>7. CASE ~(len < ReadableBytes(b))
    <2>1. c = [b EXCEPT !.r = kCheapPrepend, !.w = kCheapPrepend]
        BY <1>7 DEF Retrieve, RetrieveAll, c
    <2>2. /\ c.mem = b.mem /\ c.r = kCheapPrepend /\ c.w = kCheapPrepend
          /\ c \in [mem : Seq(Byte), r : Nat, w : Nat]
        BY <1>1, <2>1, BufferAssumption, ZenonT(60), ZenonT(90)
    <2>3. IsBuffer(c)
        BY <1>1, <2>2, BufferAssumption, SMTT(60), Z3T(60) DEF IsBuffer
    <2>4. Len(s) = 0 /\ c.w - c.r = 0
        BY <1>2, <1>4, <1>7, <2>2, BufferAssumption, SMTT(60), Z3T(60)
    <2>5. \A i \in 1..Len(s) : s[i] = c.mem[c.r + i]
        BY <2>4
    <2> QED
        BY <1>4, <2>3, <2>4, <2>5, HasContent, ZenonT(60), ZenonT(90)
<1> QED
    BY <1>6, <1>7

\* makeSpace, called when the writable space does not suffice, keeps the content and
\* makes room, whether it grows the vector or moves the content to the front; in the
\* second case its assert kCheapPrepend < readerIndex_ holds.
THEOREM MakeSpaceKeepsContent ==
    ASSUME NEW b, IsBuffer(b), NEW len \in Nat, WritableBytes(b) < len
    PROVE  /\ IsBuffer(MakeSpace(b, len))
           /\ Content(MakeSpace(b, len)) = Content(b)
           /\ WritableBytes(MakeSpace(b, len)) >= len
           /\ WritableBytes(b) + PrependableBytes(b) >= len + kCheapPrepend
                => kCheapPrepend < b.r
<1> DEFINE c == MakeSpace(b, len)
           s == Content(b)
           fits == WritableBytes(b) + PrependableBytes(b) >= len + kCheapPrepend
<1> SUFFICES /\ IsBuffer(c) /\ Content(c) = s /\ WritableBytes(c) >= len
             /\ fits => kCheapPrepend < b.r
    OBVIOUS
<1> HIDE DEF c, s
<1>1. /\ b.mem \in Seq(Byte) /\ b.r \in Nat /\ b.w \in Nat /\ Len(b.mem) \in Nat
      /\ b.r <= b.w /\ b.w <= Len(b.mem) /\ kCheapPrepend <= Len(b.mem)
      /\ b \in [mem : Seq(Byte), r : Nat, w : Nat]
    BY LenProperties DEF IsBuffer
<1>2. /\ kCheapPrepend \in Nat
      /\ ReadableBytes(b) = b.w - b.r /\ WritableBytes(b) = Len(b.mem) - b.w
      /\ PrependableBytes(b) = b.r
    BY BufferAssumption, SMTT(60), Z3T(60) DEF ReadableBytes, WritableBytes, PrependableBytes
<1>3. /\ s \in Seq(Byte) /\ Len(s) = b.w - b.r
      /\ \A i \in 1..(b.w - b.r) : s[i] = b.mem[b.r + i]
    BY ContentBytes, SMTT(60), Z3T(60) DEF s
<1>4. fits => kCheapPrepend < b.r
    BY <1>1, <1>2, SMTT(60), Z3T(60)
<1>5. CASE ~fits
    <2> DEFINE k == b.w + len - Len(b.mem)
               grown == b.mem \o Zeros(k)
    <2>1. k \in Nat
        BY <1>1, <1>2, SMTT(60), Z3T(60)
    <2>2. Zeros(k) \in Seq(Byte) /\ Len(Zeros(k)) = k
        <3>1. Zeros(k) \in [1..k -> Byte]
            BY DEF Zeros, Byte
        <3> QED
            BY <2>1, <3>1, FunctionIsSeq
    <2> HIDE DEF k
    <2>3. /\ grown \in Seq(Byte) /\ Len(grown) = Len(b.mem) + k
          /\ \A i \in 1..(Len(b.mem) + k) :
                grown[i] = IF i <= Len(b.mem) THEN b.mem[i] ELSE Zeros(k)[i - Len(b.mem)]
        <3> DEFINE z == Zeros(k)
        <3>1. z \in Seq(Byte) /\ Len(z) = k
            BY <2>2
        <3> HIDE DEF z
        <3>2. /\ b.mem \o z \in Seq(Byte) /\ Len(b.mem \o z) = Len(b.mem) + Len(z)
              /\ \A i \in 1..(Len(b.mem) + Len(z)) :
                    (b.mem \o z)[i] = IF i <= Len(b.mem) THEN b.mem[i] ELSE z[i - Len(b.mem)]
            BY <1>1, <3>1, ConcatProperties, ZenonT(60), ZenonT(90)
        <3>3. grown = b.mem \o z
            BY DEF z
        <3> QED
            BY <3>1, <3>2, <3>3, ZenonT(60), ZenonT(90) DEF z
    <2> HIDE DEF grown
    <2>4. c = [b EXCEPT !.mem = grown]
        BY <1>1, <1>2, <1>5, BufferAssumption, SMTT(60), Z3T(60) DEF MakeSpace, c, grown, k
    <2>5. c.mem = grown /\ c.r = b.r /\ c.w = b.w /\ c \in [mem : Seq(Byte), r : Nat, w : Nat]
        BY <1>1, <2>3, <2>4, Zenon
    <2>6. IsBuffer(c) /\ WritableBytes(c) >= len
        <3>1. Len(c.mem) = b.w + len
            BY <1>1, <2>3, <2>5, SMTT(60), Z3T(60) DEF k
        <3> QED
            BY <1>1, <1>2, <2>5, <3>1, SMTT(60), Z3T(60) DEF IsBuffer, WritableBytes
    <2>7. ASSUME NEW i \in 1..Len(s)
          PROVE  s[i] = c.mem[c.r + i]
        <3>1. b.r + i \in 1..(Len(b.mem) + k) /\ b.r + i <= Len(b.mem)
            BY <1>1, <1>3, <2>1, SMTT(60), Z3T(60)
        <3>2. grown[b.r + i] = b.mem[b.r + i]
            BY <2>3, <3>1, Zenon
        <3>3. s[i] = b.mem[b.r + i]
            BY <1>3
        <3>4. c.mem[c.r + i] = grown[b.r + i]
            BY <2>5, Zenon
        <3> QED
            BY <3>2, <3>3, <3>4, ZenonT(60), ZenonT(90)
    <2>8. Len(s) = c.w - c.r
        BY <1>3, <2>5, ZenonT(60), ZenonT(90)
    <2> QED
        BY <1>3, <1>4, <2>6, <2>7, <2>8, HasContent, SMTT(60), Z3T(60)
<1>6. CASE fits
    <2> DEFINE n == Len(b.mem)
               moved == [i \in 1..n |->
                            IF i \in (kCheapPrepend + 1)..(kCheapPrepend + ReadableBytes(b))
                            THEN b.mem[i - kCheapPrepend + b.r] ELSE b.mem[i]]
    <2>1. c = [b EXCEPT !.mem = moved, !.r = kCheapPrepend, !.w = kCheapPrepend + ReadableBytes(b)]
        BY <1>1, <1>2, <1>6, BufferAssumption, SMTT(60), Z3T(60) DEF MakeSpace, c
    <2>2. moved \in [1..n -> Byte]
        <3>1. ASSUME NEW i \in 1..n,
                     i \in (kCheapPrepend + 1)..(kCheapPrepend + ReadableBytes(b))
              PROVE  b.mem[i - kCheapPrepend + b.r] \in Byte
            <4>1. i - kCheapPrepend + b.r \in 1..Len(b.mem)
                BY <1>1, <1>2, <3>1, SMTT(60), Z3T(60)
            <4> QED
                BY <1>1, <4>1, ElementOfSeq
        <3>2. \A i \in 1..n : b.mem[i] \in Byte
            BY <1>1, ElementOfSeq
        <3> QED
            BY <3>1, <3>2
    <2>3. moved \in Seq(Byte) /\ Len(moved) = n
        BY <1>1, <2>2, FunctionIsSeq
    <2> HIDE DEF moved
    <2>4. /\ c.mem = moved /\ c.r = kCheapPrepend /\ c.w = kCheapPrepend + (b.w - b.r)
          /\ c \in [mem : Seq(Byte), r : Nat, w : Nat]
        <3>1. c.mem = moved /\ c.r = kCheapPrepend /\ c.w = kCheapPrepend + ReadableBytes(b)
            BY <1>1, <2>1, SMTT(60), Z3T(60)
        <3>2. kCheapPrepend + ReadableBytes(b) \in Nat
            BY <1>1, <1>2, SMTT(60), Z3T(60)
        <3>3. c \in [mem : Seq(Byte), r : Nat, w : Nat]
            BY <1>1, <1>2, <2>1, <2>3, <3>2, ZenonT(60), ZenonT(90)
        <3> QED
            BY <1>2, <3>1, <3>3
    <2>5. IsBuffer(c) /\ WritableBytes(c) >= len
        BY <1>1, <1>2, <1>4, <1>6, <2>3, <2>4, SMTT(60), Z3T(60) DEF IsBuffer, WritableBytes
    <2>6. ASSUME NEW i \in 1..Len(s)
          PROVE  s[i] = c.mem[c.r + i]
        <3>1. /\ kCheapPrepend + i \in 1..n
              /\ kCheapPrepend + i \in (kCheapPrepend + 1)..(kCheapPrepend + ReadableBytes(b))
              /\ (kCheapPrepend + i) - kCheapPrepend + b.r = b.r + i
            <4>1. i \in 1..(b.w - b.r) /\ kCheapPrepend < b.r
                BY <1>3, <1>4, <1>6
            <4> QED
                BY <1>1, <1>2, <4>1, SMTT(60), Z3T(60)
        <3>2. moved[kCheapPrepend + i] = b.mem[b.r + i]
            BY <3>1, SMTT(60), Z3T(60) DEF moved
        <3> QED
            BY <1>3, <2>4, <3>2, Zenon
    <2>7. Len(s) = c.w - c.r
        BY <1>1, <1>2, <1>3, <2>4, SMTT(60), Z3T(60)
    <2> QED
        BY <1>3, <1>4, <2>5, <2>6, <2>7, HasContent
<1> QED
    BY <1>5, <1>6

\* ensureWritableBytes keeps the content and makes its own assert true.
LEMMA EnsureKeepsContent ==
    ASSUME NEW b, IsBuffer(b), NEW len \in Nat
    PROVE  /\ IsBuffer(EnsureWritableBytes(b, len))
           /\ Content(EnsureWritableBytes(b, len)) = Content(b)
           /\ WritableBytes(EnsureWritableBytes(b, len)) >= len
<1>1. WritableBytes(b) \in Int
    BY LenProperties DEF IsBuffer, WritableBytes
<1>2. CASE WritableBytes(b) < len
    BY <1>2, MakeSpaceKeepsContent, SMTT(60), Z3T(60) DEF EnsureWritableBytes
<1>3. CASE ~(WritableBytes(b) < len)
    BY <1>1, <1>3 DEF EnsureWritableBytes
<1> QED
    BY <1>2, <1>3

\* Copying data into the writable space and hasWritten append the data.
LEMMA PutAppends ==
    ASSUME NEW b, IsBuffer(b), NEW data \in Seq(Byte), Len(data) <= WritableBytes(b)
    PROVE  IsBuffer(Put(b, data)) /\ Content(Put(b, data)) = Content(b) \o data
<1> DEFINE n == Len(b.mem)
           k == Len(data)
           c == Put(b, data)
           s == Content(b) \o data
           written == [i \in 1..n |-> IF i \in (b.w + 1)..(b.w + k)
                                      THEN data[i - b.w] ELSE b.mem[i]]
<1> SUFFICES IsBuffer(c) /\ Content(c) = s
    OBVIOUS
<1> HIDE DEF c, s
<1>1. /\ b.mem \in Seq(Byte) /\ b.r \in Nat /\ b.w \in Nat /\ n \in Nat /\ k \in Nat
      /\ b.r <= b.w /\ b.w + k <= n /\ kCheapPrepend <= n
      /\ b \in [mem : Seq(Byte), r : Nat, w : Nat]
    BY LenProperties, SMTT(60), Z3T(60) DEF IsBuffer, WritableBytes
<1>2. c = [b EXCEPT !.mem = written, !.w = b.w + k]
    BY <1>1 DEF Put, c
<1>3. written \in [1..n -> Byte]
    <2>1. ASSUME NEW i \in 1..n, i \in (b.w + 1)..(b.w + k)
          PROVE  data[i - b.w] \in Byte
        <3>1. i - b.w \in 1..k
            BY <1>1, <2>1, SMTT(60), Z3T(60)
        <3> QED
            BY <3>1, ElementOfSeq
    <2>2. \A i \in 1..n : b.mem[i] \in Byte
        BY <1>1, ElementOfSeq, SMTT(60), Z3T(60)
    <2> QED
        BY <2>1, <2>2
<1>4. written \in Seq(Byte) /\ Len(written) = n
    BY <1>1, <1>3, FunctionIsSeq, SMTT(60), Z3T(60)
<1> HIDE DEF written
<1>5. /\ c.mem = written /\ c.r = b.r /\ c.w = b.w + k
      /\ c \in [mem : Seq(Byte), r : Nat, w : Nat]
    <2>1. c.mem = written /\ c.r = b.r /\ c.w = b.w + k
        BY <1>1, <1>2
    <2>2. b.w + k \in Nat
        BY <1>1, SMTT(60), Z3T(60)
    <2> QED
        BY <1>1, <1>2, <1>4, <2>1, <2>2, Zenon
<1>6. IsBuffer(c)
    BY <1>1, <1>4, <1>5, SMTT(60), Z3T(60) DEF IsBuffer
<1>7. /\ Content(b) \in Seq(Byte) /\ Len(Content(b)) = b.w - b.r
      /\ \A i \in 1..(b.w - b.r) : Content(b)[i] = b.mem[b.r + i]
    BY ContentBytes, SMTT(60), Z3T(60)
<1>8. /\ s \in Seq(Byte) /\ Len(s) = (b.w - b.r) + k
      /\ \A i \in 1..((b.w - b.r) + k) :
            s[i] = IF i <= b.w - b.r THEN Content(b)[i] ELSE data[i - (b.w - b.r)]
    <2> DEFINE t == Content(b)
    <2>1. t \in Seq(Byte) /\ data \in Seq(Byte) /\ Len(t) = b.w - b.r
        BY <1>7
    <2> HIDE DEF t
    <2>2. /\ t \o data \in Seq(Byte) /\ Len(t \o data) = Len(t) + Len(data)
          /\ \A i \in 1..(Len(t) + Len(data)) :
                (t \o data)[i] = IF i <= Len(t) THEN t[i] ELSE data[i - Len(t)]
        BY <2>1, ConcatProperties, ZenonT(60), ZenonT(90)
    <2> QED
        BY <2>1, <2>2, SMTT(60), Z3T(60) DEF t, s
<1>9. ASSUME NEW i \in 1..Len(s)
      PROVE  s[i] = c.mem[c.r + i]
    <2>1. b.r + i \in 1..n /\ i \in 1..((b.w - b.r) + k)
        BY <1>1, <1>8, SMTT(60), Z3T(60)
    <2>2. CASE i <= b.w - b.r
        <3>1. i \in 1..(b.w - b.r) /\ b.r + i \notin (b.w + 1)..(b.w + k)
            BY <1>1, <2>1, <2>2, SMTT(60), Z3T(60)
        <3>2. written[b.r + i] = b.mem[b.r + i]
            BY <2>1, <3>1, SMTT(60), Z3T(60) DEF written
        <3> QED
            BY <1>5, <1>7, <1>8, <2>1, <2>2, <3>1, <3>2, Zenon
    <2>3. CASE ~(i <= b.w - b.r)
        <3>1. b.r + i \in (b.w + 1)..(b.w + k) /\ (b.r + i) - b.w = i - (b.w - b.r)
            BY <1>1, <2>1, <2>3, SMTT(60), Z3T(60)
        <3>2. written[b.r + i] = data[i - (b.w - b.r)]
            BY <2>1, <3>1, SMTT(60), Z3T(60) DEF written
        <3> QED
            BY <1>5, <1>8, <2>1, <2>3, <3>2, SMTT(60), Z3T(60)
    <2> QED
        BY <2>2, <2>3, SMTT(60), Z3T(60)
<1>10. Len(s) = c.w - c.r
    BY <1>1, <1>5, <1>8, SMTT(60), Z3T(60)
<1> QED
    BY <1>6, <1>8, <1>9, <1>10, HasContent, ZenonT(60), ZenonT(90)

\* append puts the data behind the content, whatever space there was.
THEOREM AppendAppends ==
    ASSUME NEW b, IsBuffer(b), NEW data \in Seq(Byte)
    PROVE  IsBuffer(AppendBytes(b, data)) /\ Content(AppendBytes(b, data)) = Content(b) \o data
<1> DEFINE c == EnsureWritableBytes(b, Len(data))
<1>1. Len(data) \in Nat
    BY LenProperties
<1>2. IsBuffer(c) /\ Content(c) = Content(b) /\ WritableBytes(c) >= Len(data)
    BY <1>1, EnsureKeepsContent, SMTT(60), Z3T(60)
<1>3. WritableBytes(c) \in Int
    BY <1>2, LenProperties DEF IsBuffer, WritableBytes
<1>4. Len(data) <= WritableBytes(c)
    BY <1>1, <1>2, <1>3, SMTT(60), Z3T(60)
<1> QED
    BY <1>2, <1>4, PutAppends, Zenon DEF AppendBytes

\* readFd appends all that readv returned, also when it did not fit the writable
\* space and came in two parts.
THEOREM ReadFdAppends ==
    ASSUME NEW b, IsBuffer(b), NEW data \in Seq(Byte)
    PROVE  IsBuffer(ReadFd(b, data)) /\ Content(ReadFd(b, data)) = Content(b) \o data
<1> DEFINE v == WritableBytes(b)
           front == SubSeq(data, 1, v)
           rest == SubSeq(data, v + 1, Len(data))
<1>1. v \in Nat /\ Len(data) \in Nat
    BY LenProperties DEF IsBuffer, WritableBytes
<1>2. CASE Len(data) <= v
    BY <1>2, PutAppends DEF ReadFd
<1>3. CASE ~(Len(data) <= v)
    <2>1. v <= Len(data) /\ 0 <= v
        BY <1>1, <1>3
    <2>2. front = SubSeq(data, 0 + 1, v)
        OBVIOUS
    <2>3. front \in Seq(Byte) /\ Len(front) = v
        BY <1>1, <2>1, <2>2, SubSeqBytes, SMTT(60), Z3T(60)
    <2>4. rest \in Seq(Byte)
        BY <1>1, <2>1, SubSeqBytes
    <2>5. front \o rest = data
        <3>1. 1 \in 1..(Len(data) + 1) /\ v \in (1 - 1)..Len(data) /\ Len(data) \in v..Len(data)
            BY <1>1, <2>1
        <3>2. front \o rest = SubSeq(data, 1, Len(data))
            BY <3>1, ConcatAdjacentSubSeq, Zenon
        <3> QED
            BY <3>2, SubSeqFull, ZenonT(60), ZenonT(90)
    <2>6. Len(front) <= WritableBytes(b)
        BY <1>1, <2>3
    <2>7. IsBuffer(Put(b, front)) /\ Content(Put(b, front)) = Content(b) \o front
        BY <2>3, <2>6, PutAppends, Zenon
    <2>8. /\ IsBuffer(AppendBytes(Put(b, front), rest))
          /\ Content(AppendBytes(Put(b, front), rest)) = (Content(b) \o front) \o rest
        <3> HIDE DEF front, rest
        <3> QED
            BY <2>4, <2>7, AppendAppends, Zenon
    <2>9. (Content(b) \o front) \o rest = Content(b) \o data
        <3>1. Content(b) \in Seq(Byte)
            BY ContentBytes
        <3> HIDE DEF front, rest
        <3>2. (Content(b) \o front) \o rest = Content(b) \o (front \o rest)
            BY <2>3, <2>4, <3>1, BytesAssociate, ZenonT(60), ZenonT(90)
        <3> QED
            BY <2>5, <3>2, Zenon
    <2>10. ReadFd(b, data) = AppendBytes(Put(b, front), rest)
        BY <1>3 DEF ReadFd
    <2> QED
        BY <2>8, <2>9, <2>10, ZenonT(60), ZenonT(90)
<1> QED
    BY <1>2, <1>3

\* unwrite(len) drops the last len bytes.
THEOREM UnwriteDropsEnd ==
    ASSUME NEW b, IsBuffer(b), NEW len \in 0..ReadableBytes(b)
    PROVE  /\ IsBuffer(Unwrite(b, len))
           /\ Content(Unwrite(b, len)) = SubSeq(Content(b), 1, ReadableBytes(b) - len)
<1> DEFINE c == Unwrite(b, len)
           n == ReadableBytes(b) - len
           s == SubSeq(Content(b), 0 + 1, n)
<1> SUFFICES IsBuffer(c) /\ Content(c) = s
    OBVIOUS
<1> HIDE DEF c, s, n
<1>1. /\ b.mem \in Seq(Byte) /\ b.r \in Nat /\ b.w \in Nat /\ Len(b.mem) \in Nat
      /\ b.r <= b.w /\ b.w <= Len(b.mem) /\ kCheapPrepend <= Len(b.mem)
      /\ b \in [mem : Seq(Byte), r : Nat, w : Nat]
    BY LenProperties DEF IsBuffer
<1>2. len \in Nat /\ len <= b.w - b.r /\ n = (b.w - b.r) - len /\ n \in Nat /\ n <= b.w - b.r
  <2>1. len \in 0..(b.w - b.r) /\ n = (b.w - b.r) - len
    BY ZenonT(60), ZenonT(90) DEF ReadableBytes, n
  <2> QED
    BY <1>1, <2>1
<1>3. /\ Content(b) \in Seq(Byte) /\ Len(Content(b)) = b.w - b.r
      /\ \A i \in 1..(b.w - b.r) : Content(b)[i] = b.mem[b.r + i]
    BY ContentBytes
<1>4. s \in Seq(Byte) /\ Len(s) = n - 0 /\ \A i \in 1..(n - 0) : s[i] = Content(b)[0 + i]
    BY <1>2, <1>3, SubSeqBytes, SMTT(60), Z3T(60) DEF s
<1>5. c = [b EXCEPT !.w = b.w - len]
    BY DEF Unwrite, c
<1>6. /\ c.mem = b.mem /\ c.r = b.r /\ c.w = b.w - len
      /\ c \in [mem : Seq(Byte), r : Nat, w : Nat]
    <2>1. b.w - len \in Nat
        BY <1>1, <1>2, SMTT(60), Z3T(60)
    <2> QED
        BY <1>1, <1>5, <2>1, SMTT(60), Z3T(60)
<1>7. IsBuffer(c)
    BY <1>1, <1>2, <1>6, SMTT(60), Z3T(60) DEF IsBuffer
<1>8. ASSUME NEW i \in 1..Len(s)
      PROVE  s[i] = c.mem[c.r + i]
    <2>1. i \in 1..(n - 0) /\ i \in 1..(b.w - b.r) /\ 0 + i = i
        BY <1>1, <1>2, <1>4, SMTT(60), Z3T(60)
    <2> QED
        BY <1>3, <1>4, <1>6, <2>1, SMTT(60), Z3T(60)
<1>9. Len(s) = c.w - c.r
    BY <1>1, <1>2, <1>4, <1>6
<1> QED
    BY <1>4, <1>7, <1>8, <1>9, HasContent, ZenonT(60), ZenonT(90)

\* prepend puts the data before the content, if it fits the prependable space.
THEOREM PrependPrepends ==
    ASSUME NEW b, IsBuffer(b), NEW data \in Seq(Byte), Len(data) <= PrependableBytes(b)
    PROVE  IsBuffer(Prepend(b, data)) /\ Content(Prepend(b, data)) = data \o Content(b)
<1> DEFINE n == Len(b.mem)
           k == Len(data)
           c == Prepend(b, data)
           t == Content(b)
           s == data \o t
           written == [i \in 1..n |-> IF i \in (b.r - k + 1)..b.r
                                      THEN data[i - b.r + k] ELSE b.mem[i]]
<1> SUFFICES IsBuffer(c) /\ Content(c) = s
    BY SMTT(60), Z3T(60)
<1> HIDE DEF c, s, t
<1>1. /\ b.mem \in Seq(Byte) /\ b.r \in Nat /\ b.w \in Nat /\ n \in Nat /\ k \in Nat
      /\ k <= b.r /\ b.r <= b.w /\ b.w <= n /\ kCheapPrepend <= n
      /\ b \in [mem : Seq(Byte), r : Nat, w : Nat]
    BY LenProperties DEF IsBuffer, PrependableBytes
<1>2. c = [b EXCEPT !.mem = written, !.r = b.r - k]
    BY <1>1, SMTT(60), Z3T(60) DEF Prepend, c
<1>3. written \in [1..n -> Byte]
    <2>1. ASSUME NEW i \in 1..n, i \in (b.r - k + 1)..b.r
          PROVE  data[i - b.r + k] \in Byte
        <3>1. i - b.r + k \in 1..k
            BY <1>1, <2>1, SMTT(60), Z3T(60)
        <3> QED
            BY <3>1, ElementOfSeq, SMTT(60), Z3T(60)
    <2>2. \A i \in 1..n : b.mem[i] \in Byte
        BY <1>1, ElementOfSeq, SMTT(60), Z3T(60)
    <2> QED
        BY <2>1, <2>2
<1>4. written \in Seq(Byte) /\ Len(written) = n
    BY <1>1, <1>3, FunctionIsSeq, Zenon
<1> HIDE DEF written
<1>5. /\ c.mem = written /\ c.r = b.r - k /\ c.w = b.w
      /\ c \in [mem : Seq(Byte), r : Nat, w : Nat]
    <2>1. c.mem = written /\ c.r = b.r - k /\ c.w = b.w
        BY <1>1, <1>2
    <2>2. b.r - k \in Nat
        BY <1>1, SMTT(60), Z3T(60)
    <2> QED
        BY <1>1, <1>2, <1>4, <2>1, <2>2, ZenonT(60), ZenonT(90)
<1>6. IsBuffer(c)
    BY <1>1, <1>4, <1>5, SMTT(60), Z3T(60) DEF IsBuffer
<1>7. /\ t \in Seq(Byte) /\ Len(t) = b.w - b.r
      /\ \A i \in 1..(b.w - b.r) : t[i] = b.mem[b.r + i]
    BY ContentBytes, SMTT(60), Z3T(60) DEF t
<1>8. /\ s \in Seq(Byte) /\ Len(s) = k + (b.w - b.r)
      /\ \A i \in 1..(k + (b.w - b.r)) : s[i] = IF i <= k THEN data[i] ELSE t[i - k]
    <2>1. /\ data \o t \in Seq(Byte) /\ Len(data \o t) = Len(data) + Len(t)
          /\ \A i \in 1..(Len(data) + Len(t)) :
                (data \o t)[i] = IF i <= Len(data) THEN data[i] ELSE t[i - Len(data)]
        BY <1>7, ConcatProperties, ZenonT(60), ZenonT(90)
    <2> QED
        BY <1>7, <2>1, SMTT(60), Z3T(60) DEF s
<1>9. ASSUME NEW i \in 1..Len(s)
      PROVE  s[i] = c.mem[c.r + i]
    <2>1. b.r - k + i \in 1..n /\ i \in 1..(k + (b.w - b.r))
        BY <1>1, <1>8, SMTT(60), Z3T(60)
    <2>2. CASE i <= k
        <3>1. b.r - k + i \in (b.r - k + 1)..b.r /\ (b.r - k + i) - b.r + k = i
            BY <1>1, <2>1, <2>2, SMTT(60), Z3T(60)
        <3>2. written[b.r - k + i] = data[i]
            BY <2>1, <3>1, SMTT(60), Z3T(60) DEF written
        <3> QED
            BY <1>5, <1>8, <2>1, <2>2, <3>2, Zenon
    <2>3. CASE ~(i <= k)
        <3>1. /\ b.r - k + i \notin (b.r - k + 1)..b.r /\ i - k \in 1..(b.w - b.r)
              /\ b.r + (i - k) = b.r - k + i
            BY <1>1, <2>1, <2>3, SMTT(60), Z3T(60)
        <3>2. written[b.r - k + i] = b.mem[b.r - k + i]
            BY <2>1, <3>1, SMTT(60), Z3T(60) DEF written
        <3> QED
            BY <1>5, <1>7, <1>8, <2>1, <2>3, <3>1, <3>2, Zenon
    <2> QED
        BY <2>2, <2>3, Zenon
<1>10. Len(s) = c.w - c.r
    BY <1>1, <1>5, <1>8, SMTT(60), Z3T(60)
<1> QED
    BY <1>6, <1>8, <1>9, <1>10, HasContent, ZenonT(60), ZenonT(90)

\* shrink keeps the content.
THEOREM ShrinkKeepsContent ==
    ASSUME NEW b, IsBuffer(b), NEW reserve \in Nat
    PROVE  IsBuffer(Shrink(b, reserve)) /\ Content(Shrink(b, reserve)) = Content(b)
<1> DEFINE other == EnsureWritableBytes(NewBuffer, ReadableBytes(b) + reserve)
<1>1. ReadableBytes(b) + reserve \in Nat
    BY SMTT(60), Z3T(60) DEF IsBuffer, ReadableBytes
<1>2. IsBuffer(other) /\ Content(other) = << >>
    BY <1>1, NewBufferIsEmpty, EnsureKeepsContent, SMTT(60), Z3T(60)
<1>3. Content(b) \in Seq(Byte)
    BY ContentBytes
<1>4. IsBuffer(Shrink(b, reserve)) /\ Content(Shrink(b, reserve)) = << >> \o Content(b)
    <2> HIDE DEF other
    <2>1. /\ IsBuffer(AppendBytes(other, Content(b)))
          /\ Content(AppendBytes(other, Content(b))) = Content(other) \o Content(b)
        BY <1>2, <1>3, AppendAppends, ZenonT(60), ZenonT(90)
    <2> QED
        BY <1>2, <2>1, Zenon DEF Shrink, other
<1> QED
    BY <1>3, <1>4, ConcatEmptySeq, SMTT(60), Z3T(60)

-----------------------------------------------------------------------------
\* The bytes of an integer are bytes, and the integer comes back, negative or not.
LEMMA TwoBytes ==
    ASSUME NEW x \in Int
    PROVE  /\ (x \div 256) % 256 \in Nat /\ x % 256 \in Nat
           /\ 256 * ((x \div 256) % 256) + (x % 256) = x % 65536
<1>. DEFINE q == x \div 256
            r == x % 256
            p == q \div 256
            t == q % 256
<1>1. q \in Int /\ r \in 0..255 /\ x = 256 * q + r
    BY SMTT(60), Z3T(60)
<1>2. p \in Int /\ t \in 0..255 /\ q = 256 * p + t
    BY <1>1, SMTT(60), Z3T(60)
<1>. HIDE DEF q, r, p, t
<1>3. 256 * t + r \in Int /\ 0 <= 256 * t + r /\ 256 * t + r < 65536
    BY <1>1, <1>2, SMTT(60), Z3T(60)
<1>4. x = 65536 * p + (256 * t + r)
    BY <1>1, <1>2, SMTT(60), Z3T(60)
<1>. DEFINE u == 256 * t + r
<1>. HIDE DEF u
<1>5. u \in Int /\ 0 <= u /\ u < 65536 /\ x = 65536 * p + u
    BY <1>3, <1>4, SMTT(60), Z3T(60) DEF u
<1>6. x % 65536 = u
    BY <1>2, <1>5, SMTT(60), Z3T(60)
<1>7. t \in Nat /\ r \in Nat /\ 256 * t + r = x % 65536
    BY <1>1, <1>2, <1>6, SMTT(60), Z3T(60) DEF u
<1>. QED BY <1>7, SMTT(60), Z3T(60) DEF q, r, t

LEMMA Bytes16 ==
    ASSUME NEW x \in Int, -32768 <= x, x < 32768
    PROVE  Signed(Unsigned16(Network16(x)[1], Network16(x)[2]), 65536) = x
<1>1. x % 65536 = IF x < 0 THEN x + 65536 ELSE x
    OBVIOUS
<1>2. Unsigned16(Network16(x)[1], Network16(x)[2]) = x % 65536
    BY TwoBytes DEF Unsigned16, Network16
<1>. QED BY <1>1, <1>2 DEF Signed

LEMMA FourBytes ==
    ASSUME NEW i1, NEW i2, NEW i3, NEW i4
    PROVE  /\ (<< i1, i2 >> \o << i3, i4 >>)[1] = i1
           /\ (<< i1, i2 >> \o << i3, i4 >>)[2] = i2
           /\ (<< i1, i2 >> \o << i3, i4 >>)[3] = i3
           /\ (<< i1, i2 >> \o << i3, i4 >>)[4] = i4
BY SMTT(60), Z3T(60)

LEMMA Bytes32 ==
    ASSUME NEW x \in Int, -(32768 * 65536) <= x, x < 32768 * 65536
    PROVE  Signed(65536 * Unsigned16(Network32(x)[1], Network32(x)[2])
                    + Unsigned16(Network32(x)[3], Network32(x)[4]), 65536 * 65536) = x
<1>. DEFINE h == x \div 65536
            l == x % 65536
<1>1. h \in Int /\ l \in Int /\ 0 <= l /\ l < 65536
    OBVIOUS
<1>2. x = 65536 * h + l
    BY SMTT(60), Z3T(60)
<1>3. /\ Network32(x)[1] = (h \div 256) % 256 /\ Network32(x)[2] = h % 256
      /\ Network32(x)[3] = (x \div 256) % 256 /\ Network32(x)[4] = x % 256
    <2>1. Network32(x) = << (h \div 256) % 256, h % 256 >> \o << (x \div 256) % 256, x % 256 >>
        BY DEF Network32, Network16
    <2>. QED BY <2>1, FourBytes
<1>4. Unsigned16((h \div 256) % 256, h % 256) = h % 65536
    BY <1>1, TwoBytes, SMTT(60), Z3T(60) DEF Unsigned16
<1>5. Unsigned16((x \div 256) % 256, x % 256) = l
    BY TwoBytes DEF Unsigned16
<1>. HIDE DEF h, l
<1>6. -32768 <= h /\ h < 32768
    BY <1>1, <1>2
<1>7. h % 65536 = IF h < 0 THEN h + 65536 ELSE h
    BY <1>1, <1>6, SMTT(60), Z3T(60)
<1>8. Signed(65536 * (h % 65536) + l, 65536 * 65536) = x
    BY <1>1, <1>2, <1>6, <1>7, SMTT(60), Z3T(60) DEF Signed
<1>. QED BY <1>3, <1>4, <1>5, <1>8, SMTT(60), Z3T(60)

\* The bytes are bytes of a buffer.
LEMMA NetworkBytes ==
    ASSUME NEW x \in Int
    PROVE  /\ Network16(x) \in Seq(Byte) /\ Len(Network16(x)) = 2
           /\ Network32(x) \in Seq(Byte) /\ Len(Network32(x)) = 4
<1>1. ASSUME NEW y \in Int
      PROVE  Network16(y) \in Seq(Byte) /\ Len(Network16(y)) = 2
    BY TwoBytes DEF Network16, Byte
<1>2. x \div 65536 \in Int
    OBVIOUS
<1>. DEFINE hi == Network16(x \div 65536)
            lo == Network16(x)
<1>3. hi \in Seq(Byte) /\ Len(hi) = 2 /\ lo \in Seq(Byte) /\ Len(lo) = 2
    <2>. HIDE DEF Network16
    <2>1. hi \in Seq(Byte) /\ Len(hi) = 2
        BY <1>1, <1>2, SMTT(60), Z3T(60)
    <2>2. lo \in Seq(Byte) /\ Len(lo) = 2
        BY <1>1
    <2>. QED BY <2>1, <2>2
<1>4. Network32(x) = hi \o lo
    BY DEF Network32
<1>. HIDE DEF hi, lo
<1>5. hi \o lo \in Seq(Byte) /\ Len(hi \o lo) = Len(hi) + Len(lo)
    BY <1>3, ConcatProperties, ZenonT(60), ZenonT(90)
<1>6. Len(hi \o lo) = 4
    BY <1>3, <1>5
<1>7. Network32(x) \in Seq(Byte) /\ Len(Network32(x)) = 4
    BY <1>4, <1>5, <1>6, SMTT(60), Z3T(60)
<1>. QED BY <1>1, <1>7, SMTT(60), Z3T(60)

\* What is appended last is read last, and what is prepended is read first.
LEMMA AppendedIsLast ==
    ASSUME NEW b, IsBuffer(b), NEW data \in Seq(Byte)
    PROVE  Content(Retrieve(AppendBytes(b, data), ReadableBytes(b))) = data
<1>. DEFINE c == AppendBytes(b, data)
            n == ReadableBytes(b)
            s == Content(b) \o data
            t == Content(b)
<1> SUFFICES Content(Retrieve(c, n)) = data
    OBVIOUS
<1> HIDE DEF c, n, s, t
<1>1. IsBuffer(c) /\ Content(c) = s
    BY AppendAppends, Zenon DEF c, s
<1>2. n \in Nat /\ Len(t) = n /\ t \in Seq(Byte) /\ s = t \o data
  <2>1. b.w - b.r \in Nat
    BY DEF IsBuffer
  <2> QED
    BY <2>1, ContentBytes, ZenonT(60), ZenonT(90) DEF ReadableBytes, n, s, t
<1>3. s \in Seq(Byte) /\ Len(s) = n + Len(data) /\ Len(data) \in Nat
    BY <1>2, ConcatProperties, LenProperties, ZenonT(60), ZenonT(90)
<1>4. ReadableBytes(c) = Len(s)
    BY <1>1, ContentBytes, SMTT(60), Z3T(60) DEF ReadableBytes
<1>5. n \in 0..ReadableBytes(c)
    BY <1>2, <1>3, <1>4
<1>6. Content(Retrieve(c, n)) = SubSeq(s, n + 1, Len(s))
    BY <1>1, <1>4, <1>5, RetrieveDropsFront, ZenonT(60), ZenonT(90)
<1>7. \A i \in 1..Len(data) : s[n + i] = data[i]
    BY <1>2, ConcatProperties, SMTT(60), Z3T(60)
<1>8. /\ SubSeq(s, n + 1, Len(s)) \in Seq(Byte)
      /\ Len(SubSeq(s, n + 1, Len(s))) = Len(data)
      /\ \A i \in 1..Len(data) : SubSeq(s, n + 1, Len(s))[i] = s[n + i]
    <2>1. /\ n \in Nat /\ Len(s) \in Nat /\ n <= Len(s) /\ Len(s) <= Len(s)
          /\ Len(s) - n = Len(data)
        BY <1>2, <1>3
    <2>2. /\ SubSeq(s, n + 1, Len(s)) \in Seq(Byte)
          /\ Len(SubSeq(s, n + 1, Len(s))) = Len(s) - n
          /\ \A i \in 1..(Len(s) - n) : SubSeq(s, n + 1, Len(s))[i] = s[n + i]
        BY <1>3, <2>1, SubSeqBytes, ZenonT(60), ZenonT(90)
    <2>. QED BY <2>1, <2>2, ZenonT(60), ZenonT(90)
<1>. QED BY <1>6, <1>7, <1>8, SeqEqual, ZenonT(60), ZenonT(90)

LEMMA PrependedIsFirst ==
    ASSUME NEW b, IsBuffer(b), NEW data \in Seq(Byte), Len(data) <= PrependableBytes(b)
    PROVE  /\ \A i \in 1..Len(data) : Content(Prepend(b, data))[i] = data[i]
           /\ Content(Retrieve(Prepend(b, data), Len(data))) = Content(b)
<1>. DEFINE c == Prepend(b, data)
            n == Len(data)
            s == data \o Content(b)
            t == Content(b)
<1> SUFFICES (\A i \in 1..n : Content(c)[i] = data[i]) /\ Content(Retrieve(c, n)) = t
    OBVIOUS
<1> HIDE DEF c, n, s, t
<1>1. IsBuffer(c) /\ Content(c) = s
    BY PrependPrepends, ZenonT(60), ZenonT(90) DEF c, s
<1>2. n \in Nat /\ n = Len(data) /\ t \in Seq(Byte) /\ Len(t) \in Nat /\ s = data \o t
    BY ContentBytes, LenProperties, SMTT(60), Z3T(60) DEF n, s, t
<1>3. s \in Seq(Byte) /\ Len(s) = n + Len(t)
    BY <1>2, ConcatProperties
<1>4. ReadableBytes(c) = Len(s)
    BY <1>1, ContentBytes, ZenonT(60), ZenonT(90) DEF ReadableBytes
<1>5. n \in 0..ReadableBytes(c)
    BY <1>2, <1>3, <1>4
<1>6. Content(Retrieve(c, n)) = SubSeq(s, n + 1, Len(s))
    BY <1>1, <1>4, <1>5, RetrieveDropsFront, ZenonT(60), ZenonT(90)
<1>7. \A i \in 1..Len(t) : s[n + i] = t[i]
    BY <1>2, ConcatProperties
<1>8. /\ SubSeq(s, n + 1, Len(s)) \in Seq(Byte)
      /\ Len(SubSeq(s, n + 1, Len(s))) = Len(t)
      /\ \A i \in 1..Len(t) : SubSeq(s, n + 1, Len(s))[i] = s[n + i]
    <2>1. /\ n \in Nat /\ Len(s) \in Nat /\ n <= Len(s) /\ Len(s) <= Len(s)
          /\ Len(s) - n = Len(t)
        BY <1>2, <1>3
    <2>2. /\ SubSeq(s, n + 1, Len(s)) \in Seq(Byte)
          /\ Len(SubSeq(s, n + 1, Len(s))) = Len(s) - n
          /\ \A i \in 1..(Len(s) - n) : SubSeq(s, n + 1, Len(s))[i] = s[n + i]
        BY <1>3, <2>1, SubSeqBytes, ZenonT(60), ZenonT(90)
    <2>. QED BY <2>1, <2>2, ZenonT(60), ZenonT(90)
<1>9. \A i \in 1..n : s[i] = data[i]
    BY <1>2, ConcatProperties, SMTT(60), Z3T(60)
<1>. QED BY <1>1, <1>2, <1>6, <1>7, <1>8, <1>9, SeqEqual, SMTT(60), Z3T(60)

\* What two bytes appended or prepended read back as.
LEMMA Bytes16ReadBack ==
    ASSUME NEW b, IsBuffer(b), NEW x \in Int
    PROVE  /\ ReadInt16(Retrieve(AppendInt16(b, x), ReadableBytes(b))).x = Host16(Network16(x))
           /\ PrependableBytes(b) >= 2 =>
                 /\ ReadInt16(PrependInt16(b, x)).x = Host16(Network16(x))
                 /\ Content(ReadInt16(PrependInt16(b, x)).buf) = Content(b)
<1>. DEFINE two == Network16(x)
            gone == Retrieve(AppendBytes(b, two), ReadableBytes(b))
            c == Prepend(b, two)
<1>1. two \in Seq(Byte) /\ Len(two) = 2
    BY NetworkBytes
<1>. HIDE DEF two
<1>2. Content(gone) = two
    BY <1>1, AppendedIsLast, Zenon
<1>3. PrependableBytes(b) >= 2 => Len(two) <= PrependableBytes(b)
    BY <1>1
<1>4. ASSUME PrependableBytes(b) >= 2
      PROVE  /\ \A i \in 1..Len(two) : Content(c)[i] = two[i]
             /\ Content(Retrieve(c, Len(two))) = Content(b)
    BY <1>1, <1>3, <1>4, PrependedIsFirst, ZenonT(60), ZenonT(90)
<1>. HIDE DEF gone, c
<1>5. ReadInt16(gone).x = Host16(two)
    BY <1>2 DEF ReadInt16, PeekInt16
<1>6. ASSUME PrependableBytes(b) >= 2
      PROVE  ReadInt16(c).x = Host16(two) /\ Content(ReadInt16(c).buf) = Content(b)
    <2>1. Host16(Content(c)) = Host16(two)
        BY <1>1, <1>4, <1>6 DEF Host16
    <2>2. Content(Retrieve(c, 2)) = Content(b)
        BY <1>1, <1>4, <1>6, ZenonT(60), ZenonT(90)
    <2>. QED BY <2>1, <2>2, ZenonT(60), ZenonT(90) DEF ReadInt16, PeekInt16
<1>. QED BY <1>5, <1>6, Zenon DEF gone, c, two, AppendInt16, PrependInt16

\* An int16_t written to a buffer comes back: appended, it is what readInt16 returns once
\* all that was there before is retrieved; prepended, it is what readInt16 returns next,
\* and readInt16 then leaves the buffer's content as it was.
THEOREM Int16ReadsBack ==
    ASSUME NEW b, IsBuffer(b), NEW x \in Int, -32768 <= x, x < 32768
    PROVE  /\ ReadInt16(Retrieve(AppendInt16(b, x), ReadableBytes(b))).x = x
           /\ PrependableBytes(b) >= 2 =>
                 /\ ReadInt16(PrependInt16(b, x)).x = x
                 /\ Content(ReadInt16(PrependInt16(b, x)).buf) = Content(b)
<1>1. Host16(Network16(x)) = x
    BY Bytes16 DEF Host16
<1>. QED BY <1>1, Bytes16ReadBack

\* The same of four bytes.
LEMMA Bytes32ReadBack ==
    ASSUME NEW b, IsBuffer(b), NEW x \in Int
    PROVE  /\ ReadInt32(Retrieve(AppendInt32(b, x), ReadableBytes(b))).x = Host32(Network32(x))
           /\ PrependableBytes(b) >= 4 =>
                 /\ ReadInt32(PrependInt32(b, x)).x = Host32(Network32(x))
                 /\ Content(ReadInt32(PrependInt32(b, x)).buf) = Content(b)
<1>. DEFINE four == Network32(x)
            gone == Retrieve(AppendBytes(b, four), ReadableBytes(b))
            c == Prepend(b, four)
<1>1. four \in Seq(Byte) /\ Len(four) = 4
    BY NetworkBytes
<1>. HIDE DEF four
<1>2. Content(gone) = four
    BY <1>1, AppendedIsLast, Zenon
<1>3. PrependableBytes(b) >= 4 => Len(four) <= PrependableBytes(b)
    BY <1>1
<1>4. ASSUME PrependableBytes(b) >= 4
      PROVE  /\ \A i \in 1..Len(four) : Content(c)[i] = four[i]
             /\ Content(Retrieve(c, Len(four))) = Content(b)
    BY <1>1, <1>3, <1>4, PrependedIsFirst, ZenonT(60), ZenonT(90)
<1>. HIDE DEF gone, c
<1>5. ReadInt32(gone).x = Host32(four)
    BY <1>2 DEF ReadInt32, PeekInt32
<1>6. ASSUME PrependableBytes(b) >= 4
      PROVE  ReadInt32(c).x = Host32(four) /\ Content(ReadInt32(c).buf) = Content(b)
    <2>1. Host32(Content(c)) = Host32(four)
        BY <1>1, <1>4, <1>6 DEF Host32
    <2>2. Content(Retrieve(c, 4)) = Content(b)
        BY <1>1, <1>4, <1>6, ZenonT(60), ZenonT(90)
    <2>. QED BY <2>1, <2>2, ZenonT(60), ZenonT(90) DEF ReadInt32, PeekInt32
<1>. QED BY <1>5, <1>6, ZenonT(60), ZenonT(90) DEF gone, c, four, AppendInt32, PrependInt32

\* The same of an int32_t.
THEOREM Int32ReadsBack ==
    ASSUME NEW b, IsBuffer(b), NEW x \in Int, -(32768 * 65536) <= x, x < 32768 * 65536
    PROVE  /\ ReadInt32(Retrieve(AppendInt32(b, x), ReadableBytes(b))).x = x
           /\ PrependableBytes(b) >= 4 =>
                 /\ ReadInt32(PrependInt32(b, x)).x = x
                 /\ Content(ReadInt32(PrependInt32(b, x)).buf) = Content(b)
<1>1. Host32(Network32(x)) = x
    BY Bytes32, SMTT(60), Z3T(60) DEF Host32
<1>. QED BY <1>1, Bytes32ReadBack, SMTT(60), Z3T(60)

\* The same of an int8_t, which needs no change of order but has a sign too.
THEOREM ByteReadsBack ==
    ASSUME NEW b, IsBuffer(b), NEW x \in Int, -128 <= x, x < 128
    PROVE  /\ ReadInt8(Retrieve(AppendInt8(b, x), ReadableBytes(b))).x = x
           /\ PrependableBytes(b) >= 1 =>
                 /\ ReadInt8(PrependInt8(b, x)).x = x
                 /\ Content(ReadInt8(PrependInt8(b, x)).buf) = Content(b)
<1>. DEFINE one == Network8(x)
<1>1. x % 256 \in Nat /\ x % 256 = IF x < 0 THEN x + 256 ELSE x
    OBVIOUS
<1>2. one \in Seq(Byte) /\ Len(one) = 1 /\ one[1] = x % 256
    BY <1>1, SMTT(60), Z3T(60) DEF Network8, Byte
<1>3. Signed(one[1], 256) = x
    BY <1>1, <1>2, SMTT(60), Z3T(60) DEF Signed
<1>4. Content(Retrieve(AppendInt8(b, x), ReadableBytes(b))) = one
    BY <1>2, AppendedIsLast, SMTT(60), Z3T(60) DEF AppendInt8
<1>5. ASSUME PrependableBytes(b) >= 1
      PROVE  /\ Content(PrependInt8(b, x))[1] = one[1]
             /\ Content(Retrieve(PrependInt8(b, x), 1)) = Content(b)
    <2>1. Len(one) <= PrependableBytes(b) /\ 1 \in 1..Len(one)
        BY <1>2, <1>5
    <2>2. /\ \A i \in 1..Len(one) : Content(Prepend(b, one))[i] = one[i]
          /\ Content(Retrieve(Prepend(b, one), Len(one))) = Content(b)
        BY <1>2, <2>1, PrependedIsFirst, ZenonT(60), ZenonT(90)
    <2>3. PrependInt8(b, x) = Prepend(b, one)
        BY SMTT(60), Z3T(60) DEF PrependInt8
    <2>. HIDE DEF one
    <2>. QED BY <1>2, <2>1, <2>2, <2>3, SMTT(60), Z3T(60)
<1>. HIDE DEF one
<1>. QED BY <1>3, <1>4, <1>5, SMTT(60), Z3T(60) DEF ReadInt8, PeekInt8, Host8
-----------------------------------------------------------------------------
\* The two vectors seen as one queue.

\* Pushing onto pendingFunctors_ appends to the whole queue.
LEMMA AppendToConcat ==
    ASSUME NEW S, NEW s \in Seq(S), NEW t \in Seq(S), NEW e \in S
    PROVE  s \o Append(t, e) = Append(s \o t, e)
  <1>1. /\ Append(t, e) = t \o <<e>>
        /\ <<e>> \in Seq(S)
        /\ s \o t \in Seq(S)
    BY AppendIsConcat, ConcatProperties, SMTT(60), Z3T(60)
  <1>2. Append(s \o t, e) = (s \o t) \o <<e>>
    BY <1>1, AppendIsConcat
  <1>3. QED
    BY <1>1, <1>2, ConcatAssociative, SMTT(60), Z3T(60)

\* Taking the first element of a local vector takes it from the whole queue.
LEMMA HeadTailConcat ==
    ASSUME NEW S, NEW s \in Seq(S), NEW t \in Seq(S), s # << >>
    PROVE  /\ s \o t # << >>
           /\ Head(s \o t) = Head(s)
           /\ Tail(s \o t) = Tail(s) \o t
  <1>1. /\ s \o t \in Seq(S)
        /\ s \o t # << >>
        /\ Len(s) \in Nat \ {0}
        /\ Len(t) \in Nat
        /\ Len(s \o t) = Len(s) + Len(t)
    BY ConcatProperties, EmptySeq, LenProperties, SMTT(60), Z3T(60)
  <1>2. /\ Tail(s) \in Seq(S)
        /\ Len(Tail(s)) = Len(s) - 1
        /\ \A i \in 1 .. Len(Tail(s)) : Tail(s)[i] = s[i + 1]
    BY HeadTailProperties, SMTT(60), Z3T(60)
  <1>3. /\ Tail(s \o t) \in Seq(S)
        /\ Len(Tail(s \o t)) = Len(s) + Len(t) - 1
        /\ \A i \in 1 .. Len(Tail(s \o t)) : Tail(s \o t)[i] = (s \o t)[i + 1]
    BY <1>1, HeadTailProperties, SMTT(60), Z3T(60)
  <1>4. /\ Tail(s) \o t \in Seq(S)
        /\ Len(Tail(s) \o t) = Len(s) - 1 + Len(t)
        /\ \A i \in 1 .. Len(s) - 1 + Len(t) : (Tail(s) \o t)[i] =
              IF i <= Len(s) - 1 THEN Tail(s)[i] ELSE t[i - (Len(s) - 1)]
    BY <1>2, ConcatProperties
  <1>5. \A i \in 1 .. Len(s) + Len(t) : (s \o t)[i] =
              IF i <= Len(s) THEN s[i] ELSE t[i - Len(s)]
    BY ConcatProperties, ZenonT(60), ZenonT(90)
  <1>6. ASSUME NEW i \in 1 .. Len(Tail(s \o t))
        PROVE  Tail(s \o t)[i] = (Tail(s) \o t)[i]
    BY <1>1, <1>2, <1>3, <1>4, <1>5, SMTT(60), Z3T(60)
  <1>7. Tail(s \o t) = Tail(s) \o t
    BY <1>1, <1>3, <1>4, <1>6, SeqEqual, SMTT(60), Z3T(60)
  <1>8. Head(s \o t) = Head(s)
    BY <1>1, <1>5, SMTT(60), Z3T(60)
  <1>9. QED
    BY <1>1, <1>7, <1>8, ZenonT(60), ZenonT(90)

-----------------------------------------------------------------------------
\* What loop() starts from satisfies the inductive invariant.
LEMMA InitIInv == Init => IInv
  <1> SUFFICES ASSUME Init PROVE IInv
    OBVIOUS
  <1>1. TypeOK
    <2>1. /\ {quit_, callingPendingFunctors_, readable, wakeupActive, ioActive} \subseteq BOOLEAN
          /\ current \in Functors \union {None}
      BY ZenonT(60), ZenonT(90) DEF Init
    <2>2. /\ pc \in PCs
          /\ {pendingFunctors_, functors, ran} \subseteq Seq(Functors)
          /\ caller \in [Threads -> {"idle", "pushed", "quitting"}]
          /\ {preloop, given} \subseteq SUBSET Functors
      BY EmptySeq, SMTT(60), Z3T(60) DEF Init, PCs
    <2>3. QED
      BY <2>1, <2>2, ZenonT(60), ZenonT(90) DEF TypeOK
  <1>2. PhaseOK
    BY DEF Init, PhaseOK
  <1>3. WakeupPending /\ NoLostQuit
    BY SMTT(60), Z3T(60) DEF Init, WakeupPending, OwesWakeup, NoLostQuit
  <1>4. QED
    BY <1>1, <1>2, <1>3, SMTT(60), Z3T(60) DEF IInv

\* Every step of the loop thread or of a caller preserves the inductive
\* invariant.
LEMMA NextIInv == IInv /\ [Next]_vars => IInv'
  <1> SUFFICES ASSUME IInv, [Next]_vars PROVE IInv'
    BY SMTT(60), Z3T(60)
  <1> USE NoneAssumption
      DEF IInv, TypeOK, PCs, PhaseOK, WakeupPending, OwesWakeup, NoLostQuit, loopVars
  <1>1. ASSUME NEW t \in Threads, NEW f \in Functors, QueueInLoopFrom(t, f)
        PROVE  IInv'
    BY <1>1 DEF QueueInLoopFrom
  <1>2. ASSUME NEW t \in Threads, QuitFrom(t)
        PROVE  IInv'
    BY <1>2, ZenonT(60), ZenonT(90) DEF QuitFrom
  <1>3. ASSUME NEW t \in Threads, WakeupFrom(t)
        PROVE  IInv'
    BY <1>3, ZenonT(60), ZenonT(90) DEF WakeupFrom
  <1>4. ASSUME NEW f \in Functors, QueueInLoopSelf(f)
        PROVE  IInv'
    BY <1>4, SMTT(60), Z3T(60) DEF QueueInLoopSelf, InCallback
  <1>5. ASSUME NEW f \in Functors, RunInLoopSelf(f)
        PROVE  IInv'
    BY <1>5, ZenonT(60), ZenonT(90) DEF RunInLoopSelf
  <1>6. CASE QuitSelf
    BY <1>6, Zenon DEF QuitSelf, InCallback
  <1>7. ASSUME NEW io \in BOOLEAN, PollReady(io)
        PROVE  IInv'
    BY <1>7, ZenonT(60), ZenonT(90) DEF PollReady
  <1>8. CASE PollTimeout
    BY <1>8, SMTT(60), Z3T(60) DEF PollTimeout
  <1>9. CASE LoopStart
    BY <1>9, ZenonT(60), ZenonT(90) DEF LoopStart
  <1>10. CASE LoopTest
    BY <1>10, SMTT(60), Z3T(60) DEF LoopTest
  <1>11. CASE HandleRead
    BY <1>11, ZenonT(60), ZenonT(90) DEF HandleRead
  <1>12. CASE HandleEvents
    BY <1>12, ZenonT(60), ZenonT(90) DEF HandleEvents
  <1>13. CASE SwapPending
    BY <1>13, SMTT(60), Z3T(60) DEF SwapPending
  <1>14. CASE FunctorBegin
    BY <1>14, SMTT(60), Z3T(60) DEF FunctorBegin
  <1>15. CASE FunctorEnd
    BY <1>15, SMTT(60), Z3T(60) DEF FunctorEnd
  <1>16. CASE FunctorsDone
    BY <1>16, ZenonT(60), ZenonT(90) DEF FunctorsDone
  <1>17. CASE UNCHANGED vars
    BY <1>17 DEF vars
  <1>18. QED
    BY <1>1, <1>2, <1>3, <1>4, <1>5, <1>6, <1>7, <1>8, <1>9, <1>10, <1>11, <1>12,
       <1>13, <1>14, <1>15, <1>16, <1>17, ZenonT(60), ZenonT(90) DEF Next, LoopStep

\* The inductive invariant holds in every state a loop and its callers reach.
THEOREM LoopInvariant == Spec => []IInv
  BY InitIInv, NextIInv, PTL DEF Spec

\* queueInLoop never loses a wakeup, however many threads call it: loop()
\* does not sleep in poll on a functor nobody will wake it for.
THEOREM WakeupsAreNotLost == Spec => []NoLostWakeup
  <1>1. IInv => NoLostWakeup
    BY DEF IInv, WakeupPending, NoLostWakeup
  <1>2. QED
    BY LoopInvariant, <1>1, PTL

\* quit() from another thread never leaves loop() asleep with quit_ set.
THEOREM QuitsAreNotLost == Spec => []NoLostQuit
  <1>1. IInv => NoLostQuit
    BY DEF IInv
  <1>2. QED
    BY LoopInvariant, <1>1, PTL

-----------------------------------------------------------------------------
\* A step of the loop that neither queues, swaps nor calls a functor leaves
\* the abstract queue alone; the others are its steps or stutter.
LEMMA FIFOStep == IInv /\ [Next]_vars => [FQ!Next]_<<functors \o pendingFunctors_, ran>>
  <1> SUFFICES ASSUME IInv, [Next]_vars
               PROVE  [FQ!Next]_<<functors \o pendingFunctors_, ran>>
    BY SMTT(60), Z3T(60)
  <1> USE DEF IInv, TypeOK, loopVars
  <1>1. ASSUME NEW f \in Functors, UNCHANGED <<functors, ran>>,
               pendingFunctors_' = Append(pendingFunctors_, f)
        PROVE  FQ!Enqueue(f)
    BY <1>1, AppendToConcat, SMTT(60), Z3T(60) DEF FQ!Enqueue
  <1>2. ASSUME NEW t \in Threads, NEW f \in Functors, QueueInLoopFrom(t, f)
        PROVE  FQ!Next
    BY <1>1, <1>2, ZenonT(60), ZenonT(90) DEF QueueInLoopFrom, FQ!Next
  <1>3. ASSUME NEW f \in Functors, QueueInLoopSelf(f)
        PROVE  FQ!Next
    BY <1>1, <1>3, ZenonT(60), ZenonT(90) DEF QueueInLoopSelf, FQ!Next
  <1>4. CASE SwapPending
    <2>1. functors = << >>
      BY <1>4, ZenonT(60), ZenonT(90) DEF SwapPending, PhaseOK
    <2>2. functors' \o pendingFunctors_' = functors \o pendingFunctors_
      BY <1>4, <2>1, ConcatEmptySeq, SMTT(60), Z3T(60) DEF SwapPending
    <2>3. QED
      BY <1>4, <2>2, ZenonT(60), ZenonT(90) DEF SwapPending
  <1>5. CASE FunctorBegin
    <2>1. /\ functors # << >> /\ functors' = Tail(functors) /\ pendingFunctors_' = pendingFunctors_
          /\ ran' = Append(ran, Head(functors))
      BY <1>5, ZenonT(60), ZenonT(90) DEF FunctorBegin
    <2>2. functors \in Seq(Functors) /\ pendingFunctors_ \in Seq(Functors)
      OBVIOUS
    <2>3. /\ functors \o pendingFunctors_ # << >>
          /\ Head(functors \o pendingFunctors_) = Head(functors)
          /\ Tail(functors \o pendingFunctors_) = Tail(functors) \o pendingFunctors_
      BY <2>1, <2>2, HeadTailConcat, ZenonT(60), ZenonT(90)
    <2>4. QED
      BY <2>1, <2>3, ZenonT(60), ZenonT(90) DEF FQ!Next, FQ!Execute
  <1>6. ASSUME UNCHANGED <<functors, pendingFunctors_, ran>>
        PROVE  UNCHANGED <<functors \o pendingFunctors_, ran>>
    BY <1>6, Zenon
  <1>7. ASSUME NEW t \in Threads, QuitFrom(t) \/ WakeupFrom(t)
        PROVE  UNCHANGED <<functors, pendingFunctors_, ran>>
    BY <1>7, ZenonT(60), ZenonT(90) DEF QuitFrom, WakeupFrom
  <1>8. ASSUME NEW f \in Functors, RunInLoopSelf(f)
        PROVE  UNCHANGED <<functors, pendingFunctors_, ran>>
    BY <1>8, ZenonT(60), ZenonT(90) DEF RunInLoopSelf
  <1>9. ASSUME NEW io \in BOOLEAN, PollReady(io)
        PROVE  UNCHANGED <<functors, pendingFunctors_, ran>>
    BY <1>9, ZenonT(60), ZenonT(90) DEF PollReady
  <1>10. ASSUME \/ QuitSelf \/ PollTimeout \/ LoopStart \/ LoopTest \/ HandleRead
                \/ HandleEvents \/ FunctorEnd \/ FunctorsDone \/ UNCHANGED vars
         PROVE  UNCHANGED <<functors, pendingFunctors_, ran>>
    BY <1>10 DEF QuitSelf, PollTimeout, LoopStart, LoopTest, HandleRead, HandleEvents,
                 FunctorEnd, FunctorsDone, vars
  <1>11. QED
    BY <1>2, <1>3, <1>4, <1>5, <1>6, <1>7, <1>8, <1>9, <1>10, ZenonT(60), ZenonT(90) DEF Next,
       LoopStep

\* pendingFunctors_ and the vector doPendingFunctors swaps it into implement
\* one first-in first-out queue.
THEOREM LoopImplementsFIFO == Spec => FunctorsAreFIFO
  <1>1. Init => FQ!Init
    BY ConcatEmptySeq DEF Init, FQ!Init
  <1>2. QED
    BY <1>1, LoopInvariant, FIFOStep, PTL DEF Spec, FunctorsAreFIFO, FQ!Spec

-----------------------------------------------------------------------------
\* The loop of an EventLoopThread, and the thread that owns it.

\* Whatever the owner and the new thread do, the loop takes a step of EventLoop or
\* stands still.
LEMMA ThreadStep == [ThreadNext]_<<vars, threadVars>> => [Next]_vars
  <1> SUFFICES ASSUME [ThreadNext]_<<vars, threadVars>> PROVE [Next]_vars
    BY SMTT(60), Z3T(60)
  <1>1. ASSUME StartLoop \/ WaitLoop \/ SpuriousWakeup \/ GotLoop \/ Publish
               \/ LeaveThreadFunc \/ DtorTest \/ DtorJoin
        PROVE  UNCHANGED vars
    BY <1>1, SMTT(60), Z3T(60)
    DEF StartLoop, WaitLoop, SpuriousWakeup, GotLoop, Publish, LeaveThreadFunc, ClearLoop,
        UnlockMutex, DestructLoop, EndThread, DtorTest, DtorJoin
  <1>2. ASSUME DtorQuit PROVE Next
    BY <1>2, OwnerAssumption, ZenonT(60), ZenonT(90) DEF DtorQuit, Next
  <1>3. ASSUME RunLoop \/ RunPoll \/ Callback \/ QuitCallback PROVE Next
    BY <1>3, ZenonT(60), ZenonT(90) DEF RunLoop, RunPoll, Callback, QuitCallback, Next
  <1>4. ASSUME NEW t \in Threads, Call(t) \/ QuitCall(t) \/ Wakeup(t) PROVE Next
    BY <1>4, SMTT(60), Z3T(60) DEF Call, QuitCall, Wakeup, Next
  <1>5. QED
    BY <1>1, <1>2, <1>3, <1>4, ZenonT(60), ZenonT(90) DEF ThreadNext, OwnerStep

\* A thread's loop starts where a loop starts, and its owner with no thread.
LEMMA ThreadInitIInv == ThreadInit => ThreadIInv
  <1> SUFFICES ASSUME ThreadInit PROVE ThreadIInv
    OBVIOUS
  <1>1. IInv
    BY InitIInv, Zenon DEF ThreadInit
  <1>2. QED
    BY <1>1 DEF ThreadInit, ThreadIInv, LoopOutlivesHandle, Init

\* The owner, the thread, the loop and its callers preserve what the owner relies on.
LEMMA ThreadNextIInv == ThreadIInv /\ [ThreadNext]_<<vars, threadVars>> => ThreadIInv'
  <1> SUFFICES ASSUME ThreadIInv, [ThreadNext]_<<vars, threadVars>> PROVE ThreadIInv'
    BY SMTT(60), Z3T(60)
  <1>1. IInv /\ IInv'
    BY ThreadStep, NextIInv, SMTT(60), Z3T(60) DEF ThreadIInv, LoopOutlivesHandle
  <1> USE DEF ThreadIInv, LoopOutlivesHandle, threadVars, vars, loopVars
  <1>2. ASSUME StartLoop \/ WaitLoop \/ SpuriousWakeup \/ GotLoop PROVE ThreadIInv'
    <2>1. ASSUME StartLoop PROVE ThreadIInv'
      BY <1>1, <2>1, SMTT(60), Z3T(60) DEF StartLoop
    <2>2. ASSUME WaitLoop PROVE ThreadIInv'
      BY <1>1, <2>2, SMTT(60), Z3T(60) DEF WaitLoop
    <2>3. ASSUME SpuriousWakeup PROVE ThreadIInv'
      BY <1>1, <2>3, SMTT(60), Z3T(60) DEF SpuriousWakeup
    <2>4. ASSUME GotLoop PROVE ThreadIInv'
      BY <1>1, <2>4, SMTT(60), Z3T(60) DEF GotLoop
    <2>5. QED
      BY <1>2, <2>1, <2>2, <2>3, <2>4, ZenonT(60), ZenonT(90)
  <1>3. ASSUME Publish PROVE ThreadIInv'
    BY <1>1, <1>3, SMTT(60), Z3T(60) DEF Publish
  <1>4. ASSUME LeaveThreadFunc PROVE ThreadIInv'
    <2>1. ASSUME ClearLoop PROVE ThreadIInv'
      BY <1>1, <2>1, SMTT(60), Z3T(60) DEF ClearLoop
    <2>2. ASSUME UnlockMutex PROVE ThreadIInv'
      BY <1>1, <2>2, SMTT(60), Z3T(60) DEF UnlockMutex
    <2>3. ASSUME DestructLoop PROVE ThreadIInv'
      BY <1>1, <2>3, SMTT(60), Z3T(60) DEF DestructLoop
    <2>4. ASSUME EndThread PROVE ThreadIInv'
      BY <1>1, <2>4, SMTT(60), Z3T(60) DEF EndThread
    <2>5. QED
      BY <1>4, <2>1, <2>2, <2>3, <2>4, ZenonT(60), ZenonT(90) DEF LeaveThreadFunc
  <1>5. ASSUME DtorTest PROVE ThreadIInv'
    BY <1>1, <1>5, SMTT(60), Z3T(60) DEF DtorTest
  <1>6. ASSUME DtorQuit PROVE ThreadIInv'
    <2>1. quit_' = TRUE /\ pc' = pc
      BY <1>6, SMTT(60), Z3T(60) DEF DtorQuit, QuitFrom
    <2>2. QED
      BY <1>1, <1>6, <2>1, SMTT(60), Z3T(60) DEF DtorQuit, LoopGone
  <1>7. ASSUME DtorJoin PROVE ThreadIInv'
    BY <1>1, <1>7, SMTT(60), Z3T(60) DEF DtorJoin
  <1>8. ASSUME RunLoop \/ RunPoll PROVE ThreadIInv'
    <2>1. /\ pc' = "exited" => pc = "exited" \/ quit_
          /\ quit_' = quit_ \/ (pc = "start" /\ pc' = "test" /\ quit_' = FALSE)
          /\ pc = "exited" => pc' = "exited"
      <3>1. CASE LoopStart
        BY <3>1, SMTT(60), Z3T(60) DEF LoopStart
      <3>2. CASE LoopTest
        BY <3>2, SMTT(60), Z3T(60) DEF LoopTest
      <3>3. CASE HandleRead \/ HandleEvents \/ SwapPending
        BY <3>3, SMTT(60), Z3T(60) DEF HandleRead, HandleEvents, SwapPending
      <3>4. CASE FunctorBegin \/ FunctorEnd \/ FunctorsDone
        BY <3>4, SMTT(60), Z3T(60) DEF FunctorBegin, FunctorEnd, FunctorsDone
      <3>5. CASE (\E io \in BOOLEAN : PollReady(io)) \/ PollTimeout
        BY <3>5, SMTT(60), Z3T(60) DEF PollReady, PollTimeout
      <3>. QED
        BY <1>8, <3>1, <3>2, <3>3, <3>4, <3>5, ZenonT(60), ZenonT(90) DEF RunLoop, RunPoll, LoopStep
    <2>2. thread = "looping" /\ UNCHANGED threadVars
      BY <1>8, ZenonT(60), ZenonT(90) DEF RunLoop, RunPoll
    <2>3. QED
      BY <1>1, <2>1, <2>2, SMTT(60), Z3T(60)
  <1>9. ASSUME UNCHANGED <<pc, quit_, threadVars>> PROVE ThreadIInv'
    BY <1>1, <1>9, SMTT(60), Z3T(60)
  <1>10. ASSUME Callback PROVE ThreadIInv'
    BY <1>9, <1>10, ZenonT(60), ZenonT(90) DEF Callback, QueueInLoopSelf, RunInLoopSelf
  <1>11. ASSUME asked', quit_', UNCHANGED <<pc, owner, thread, loop_, dangling>>
         PROVE  ThreadIInv'
    BY <1>1, <1>11, SMTT(60), Z3T(60)
  <1>12. ASSUME QuitCallback PROVE ThreadIInv'
    BY <1>11, <1>12, ZenonT(60), ZenonT(90) DEF QuitCallback, QuitSelf
  <1>13. ASSUME NEW t \in Threads, Call(t) PROVE ThreadIInv'
    BY <1>9, <1>13, ZenonT(60), ZenonT(90) DEF Call, QueueInLoopFrom
  <1>14. ASSUME NEW t \in Threads, QuitCall(t) PROVE ThreadIInv'
    BY <1>11, <1>14, SMTT(60), Z3T(60) DEF QuitCall, QuitFrom
  <1>15. ASSUME NEW t \in Threads, Wakeup(t) PROVE ThreadIInv'
    <2>1. UNCHANGED <<pc, quit_>>
      BY <1>15, SMTT(60), Z3T(60) DEF Wakeup, WakeupFrom
    <2>2. QED
      BY <1>1, <1>15, <2>1, SMTT(60), Z3T(60) DEF Wakeup, LoopGone
  <1>16. QED
    BY <1>2, <1>3, <1>4, <1>5, <1>6, <1>7, <1>8, <1>9, <1>10, <1>12, <1>13, <1>14, <1>15,
       ZenonT(60), ZenonT(90)
    DEF ThreadNext, OwnerStep

\* The invariant of the owner and its thread holds in every state of an EventLoopThread.
THEOREM ThreadInvariant == ThreadSpec => []ThreadIInv
  BY ThreadInitIInv, ThreadNextIInv, PTL DEF ThreadSpec

\* The loop that startLoop() has returned exists until loop() returns, whatever is
\* called meanwhile; when the destructor is done no callback of it runs any more; and
\* unless someone other than the destructor quits the loop, the destructor ends only
\* after the thread and nothing but the eventfd is used too late.
THEOREM HandleIsValid == ThreadSpec => []LoopOutlivesHandle
  <1>1. ThreadIInv => LoopOutlivesHandle
    BY DEF ThreadIInv
  <1>2. QED
    BY <1>1, ThreadInvariant, PTL

\* The loop of an EventLoopThread loses no wakeup either.
THEOREM ThreadWakeupsAreNotLost == ThreadSpec => []NoLostWakeup
  <1>1. ThreadIInv => NoLostWakeup
    BY DEF ThreadIInv, LoopOutlivesHandle, IInv, WakeupPending, NoLostWakeup
  <1>2. QED
    BY <1>1, ThreadInvariant, PTL

\* The functors given to the loop of an EventLoopThread, by its callback before loop(),
\* by its own callbacks and by other threads, run once and in order.
THEOREM ThreadImplementsFIFO == ThreadSpec => FunctorsAreFIFO
  <1>1. ThreadInit => FQ!Init
    BY ConcatEmptySeq, SMTT(60), Z3T(60) DEF ThreadInit, Init, FQ!Init
  <1>2. ThreadIInv /\ [ThreadNext]_<<vars, threadVars>>
            => [FQ!Next]_<<functors \o pendingFunctors_, ran>>
    BY ThreadStep, FIFOStep, SMTT(60), Z3T(60) DEF ThreadIInv, LoopOutlivesHandle
  <1>3. QED
    BY <1>1, <1>2, ThreadInvariant, PTL DEF ThreadSpec, FunctorsAreFIFO, FQ!Spec

-----------------------------------------------------------------------------
\* The Acceptor.

\* A descriptor that was free and is taken is not the spare one.
LEMMA FreeIsNotSpare ==
    ASSUME OwnDescriptors, SpareUse # "none", NEW f \in Fds, fds[f] = "free"
    PROVE  f # idleFd_
BY DEF OwnDescriptors, SpareUse, Fds, Closed

\* The Acceptor owns what it closes, at every step of handleRead and in every
\* interleaving with threads that take and release descriptors.
LEMMA OwnStep == OwnDescriptors /\ [AcceptorNext]_acceptorVars => OwnDescriptors'
<1> SUFFICES ASSUME OwnDescriptors, [AcceptorNext]_acceptorVars PROVE OwnDescriptors' OBVIOUS
<1> USE AcceptorAssumption
<1>t. AcceptorTypeOK BY DEF OwnDescriptors
<1>1. CASE Start
  BY <1>1 DEF Start, OwnDescriptors, AcceptorTypeOK, SpareUse, AcceptorPCs, Fds, Closed
<1>2. CASE ListenReadable
  BY <1>2, Zenon DEF ListenReadable, OwnDescriptors, AcceptorTypeOK, SpareUse, AcceptorPCs, Fds, Closed
<1>3. CASE NewConnection
  <2>1. AcceptorTypeOK'
    BY <1>t, <1>3, SMTT(60), Z3T(60) DEF NewConnection, NextLoop, AfterNext, AcceptorTypeOK,
       AcceptorPCs, Uses, Loops, kBaseLoop
  <2>2. PICK f \in Fds : Lowest(f) /\ fds' = [fds EXCEPT ![f] = "conn"]
    BY <1>3, Zenon DEF NewConnection
  <2>3. SpareUse = "idle" /\ SpareUse' = "idle" BY <1>3, Zenon DEF NewConnection, SpareUse
  <2>4. f # idleFd_ BY <2>2, <2>3, FreeIsNotSpare, ZenonT(60), ZenonT(90) DEF Lowest
  <2> QED BY <1>t, <1>3, <2>1, <2>2, <2>3, <2>4, ZenonT(60), ZenonT(90) DEF NewConnection,
             OwnDescriptors, AcceptorTypeOK, Fds, Closed
<1>4. CASE AcceptFails
  BY <1>4, ZenonT(60), ZenonT(90) DEF AcceptFails, OwnDescriptors, AcceptorTypeOK, SpareUse,
     AcceptorPCs, Fds, Closed
<1>5. CASE CloseIdle
  BY <1>5, ZenonT(60), ZenonT(90) DEF CloseIdle, OwnDescriptors, AcceptorTypeOK, SpareUse,
     AcceptorPCs, Uses, Fds, Closed
<1>6. CASE AcceptIdle
  <2>1. SpareUse = "none" /\ SpareUse' = "accepted" BY <1>6, ZenonT(60),
                                                       ZenonT(90) DEF AcceptIdle, SpareUse
  <2>2. \A f \in Fds : fds[f] \notin {"idle", "accepted"} BY <2>1, ZenonT(60),
                                                             ZenonT(90) DEF OwnDescriptors
  <2>3. CASE idleFd_' = Closed /\ UNCHANGED <<fds, backlog>>
    <3>1. AcceptorTypeOK' BY <1>t, <1>6, <2>3, ZenonT(60), ZenonT(90) DEF AcceptIdle,
                             AcceptorTypeOK, AcceptorPCs
    <3> QED BY <1>6, <2>2, <2>3, <3>1, SMTT(60), Z3T(60) DEF AcceptIdle, OwnDescriptors, Fds, Closed
  <2>4. CASE /\ \E f \in Fds : idleFd_' = f /\ fds' = [fds EXCEPT ![f] = "accepted"]
             /\ backlog > 0 /\ backlog' = backlog - 1
    <3>1. PICK f \in Fds : idleFd_' = f /\ fds' = [fds EXCEPT ![f] = "accepted"] BY <2>4, ZenonT(60), ZenonT(90)
    <3>2. AcceptorTypeOK' BY <1>t, <1>6, <2>4, <3>1, SMTT(60), Z3T(60) DEF AcceptIdle,
                             AcceptorTypeOK, AcceptorPCs, Uses
    <3> QED BY <1>t, <1>6, <2>1, <2>2, <3>1, <3>2, ZenonT(60), ZenonT(90) DEF AcceptIdle,
               OwnDescriptors, AcceptorTypeOK
  <2> QED BY <1>6, <2>3, <2>4, ZenonT(60), ZenonT(90) DEF AcceptIdle
<1>7. CASE CloseAccepted
  BY <1>7, ZenonT(60), ZenonT(90) DEF CloseAccepted, OwnDescriptors, AcceptorTypeOK, SpareUse,
     AcceptorPCs, Uses, Fds, Closed
<1>8. CASE Reopen
  <2>1. SpareUse = "none" /\ SpareUse' = "idle" BY <1>8, Zenon DEF Reopen, SpareUse
  <2>2. \A f \in Fds : fds[f] \notin {"idle", "accepted"} BY <2>1, ZenonT(60),
                                                             ZenonT(90) DEF OwnDescriptors
  <2>3. CASE idleFd_' = Closed /\ UNCHANGED fds
    <3>1. AcceptorTypeOK' BY <1>t, <1>8, <2>3, ZenonT(60), ZenonT(90) DEF Reopen, AcceptorTypeOK,
                             AcceptorPCs
    <3> QED BY <1>8, <2>2, <2>3, <3>1, SMTT(60), Z3T(60) DEF Reopen, OwnDescriptors, Fds, Closed
  <2>4. CASE \E f \in Fds : idleFd_' = f /\ fds' = [fds EXCEPT ![f] = "idle"]
    <3>1. PICK f \in Fds : idleFd_' = f /\ fds' = [fds EXCEPT ![f] = "idle"] BY <2>4, Zenon
    <3>2. AcceptorTypeOK' BY <1>t, <1>8, <3>1, ZenonT(60), ZenonT(90) DEF Reopen, AcceptorTypeOK,
                             AcceptorPCs, Uses
    <3> QED BY <1>t, <1>8, <2>1, <2>2, <3>1, <3>2, ZenonT(60), ZenonT(90) DEF Reopen,
               OwnDescriptors, AcceptorTypeOK
  <2> QED BY <1>8, <2>3, <2>4 DEF Reopen
<1>9. CASE Destruct
  BY <1>9, ZenonT(60), ZenonT(90) DEF Destruct, OwnDescriptors, AcceptorTypeOK, SpareUse,
     AcceptorPCs, Uses, Fds, Closed
<1>10. CASE OpenFile
  <2>1. PICK f \in Fds : Lowest(f) /\ fds' = [fds EXCEPT ![f] = "file"]
    BY <1>10, Zenon DEF OpenFile
  <2>2. SpareUse' = SpareUse BY <1>10, Zenon DEF OpenFile, SpareUse
  <2>3. SpareUse = "none" \/ f # idleFd_ BY <2>1, FreeIsNotSpare, ZenonT(60), ZenonT(90) DEF Lowest
  <2>4. raced' \in BOOLEAN BY <1>10, ZenonT(60), ZenonT(90) DEF OpenFile
  <2> QED BY <1>10, <2>1, <2>2, <2>3, <2>4, ZenonT(60), ZenonT(90) DEF OpenFile, OwnDescriptors,
             AcceptorTypeOK, Uses, Fds, Closed
<1>11. CASE \E f \in Fds : Release(f)
  <2>1. PICK f \in Fds : Release(f) BY <1>11
  <2>2. SpareUse' = SpareUse BY <2>1 DEF Release, SpareUse
  <2>3. SpareUse \in {"none", "idle", "accepted"} BY SMTT(60), Z3T(60) DEF SpareUse
  <2> QED BY <2>1, <2>2, <2>3, ZenonT(60), ZenonT(90) DEF Release, OwnDescriptors, AcceptorTypeOK,
             Uses, Fds, Closed
<1>12. CASE PeerConnects
  BY <1>12, SMTT(60), Z3T(60) DEF PeerConnects, OwnDescriptors, AcceptorTypeOK, SpareUse
<1>13. CASE PeerGivesUp
  BY <1>13, SMTT(60), Z3T(60) DEF PeerGivesUp, OwnDescriptors, AcceptorTypeOK, SpareUse
<1>14. CASE UNCHANGED acceptorVars
  BY <1>14, ZenonT(60), ZenonT(90) DEF acceptorVars, OwnDescriptors, AcceptorTypeOK, SpareUse
<1> QED
  BY <1>1, <1>2, <1>3, <1>4, <1>5, <1>6, <1>7, <1>8, <1>9, <1>10, <1>11, <1>12, <1>13, <1>14,
     SMTT(60), Z3T(60)
  DEF AcceptorNext, BaseLoop, AcceptorHandleRead, Others

\* At first the spare descriptor is the one the constructor has opened.
LEMMA OwnInit == AcceptorInit => OwnDescriptors
<1> SUFFICES ASSUME AcceptorInit PROVE OwnDescriptors OBVIOUS
<1> USE AcceptorAssumption
<1>1. raced \in BOOLEAN /\ stolen \in BOOLEAN /\ ~stolen BY ZenonT(60), ZenonT(90) DEF AcceptorInit
<1>2. AcceptorTypeOK BY <1>1 DEF AcceptorInit, AcceptorTypeOK, AcceptorPCs, Uses, Fds, Closed
<1>3. SpareUse = "idle" BY DEF AcceptorInit, SpareUse
<1> QED BY <1>1, <1>2, <1>3, SMTT(60), Z3T(60) DEF AcceptorInit, OwnDescriptors, Fds, Closed

\* For every number of descriptors, handleRead and ~Acceptor close only descriptors
\* of the Acceptor's own and lose track of none.
THEOREM AcceptorOwnsDescriptors == AcceptorSpec => []OwnDescriptors
BY OwnInit, OwnStep, PTL DEF AcceptorSpec

-----------------------------------------------------------------------------
\* While no other thread has got in between, the spare descriptor is there, or its
\* place in the table is.
SpareReady ==
    ~raced =>
        /\ acceptPc \in {"created", "poll", "handleRead", "closeIdle"} => idleFd_ # Closed
        /\ acceptPc \in {"acceptIdle", "reopen"} => ~Full
        /\ acceptPc = "closeAccepted" => (idleFd_ # Closed \/ ~Full)

\* Steps of others that release descriptors leave room; those that take one, in the
\* window in which handleRead has none, are the race.
LEMMA SpareStep == OwnDescriptors /\ SpareReady /\ [AcceptorNext]_acceptorVars => SpareReady'
<1> SUFFICES ASSUME OwnDescriptors, SpareReady, [AcceptorNext]_acceptorVars, ~raced' PROVE SpareReady'
  BY DEF SpareReady
<1>t. AcceptorTypeOK BY Zenon DEF OwnDescriptors
<1>1. CASE Start \/ ListenReadable \/ AcceptFails
  BY <1>1, ZenonT(60), ZenonT(90) DEF Start, ListenReadable, AcceptFails, SpareReady
<1>3. CASE NewConnection
  BY <1>3, ZenonT(60), ZenonT(90) DEF NewConnection, SpareReady
<1>5. CASE CloseIdle
  <2>1. idleFd_ \in Fds BY <1>t, <1>5, ZenonT(60), ZenonT(90) DEF CloseIdle, SpareReady,
                           AcceptorTypeOK
  <2>2. fds'[idleFd_] = "free" BY <1>5, <2>1, ZenonT(60), ZenonT(90) DEF CloseIdle
  <2> QED BY <1>5, <2>1, <2>2, ZenonT(60), ZenonT(90) DEF CloseIdle, SpareReady, Full
<1>6. CASE AcceptIdle
  BY <1>6, <1>t, SMTT(60), Z3T(60) DEF AcceptIdle, SpareReady, Full, Fds, Closed
<1>7. CASE CloseAccepted
  <2>1. acceptPc = "closeAccepted" /\ acceptPc' = "reopen" /\ ~raced BY <1>7, Zenon DEF CloseAccepted
  <2>2. CASE idleFd_ # Closed
    <3>1. idleFd_ \in Fds /\ fds'[idleFd_] = "free" BY <1>t, <1>7, <2>2, ZenonT(60),
                                                       ZenonT(90) DEF CloseAccepted, AcceptorTypeOK
    <3> QED BY <2>1, <3>1, ZenonT(60), ZenonT(90) DEF SpareReady, Full
  <2>3. CASE ~Full
    <3>1. PICK f \in Fds : fds[f] = "free" BY <2>3, ZenonT(60), ZenonT(90) DEF Full
    <3>2. fds'[f] = "free" BY <1>7, <3>1, ZenonT(60), ZenonT(90) DEF CloseAccepted
    <3> QED BY <2>1, <3>1, <3>2, ZenonT(60), ZenonT(90) DEF SpareReady, Full
  <2> QED BY <2>1, <2>2, <2>3, ZenonT(60), ZenonT(90) DEF SpareReady
<1>8. CASE Reopen
  BY <1>8, <1>t, SMTT(60), Z3T(60) DEF Reopen, SpareReady, Fds, Closed
<1>9. CASE Destruct
  BY <1>9 DEF Destruct, SpareReady
<1>10. CASE OpenFile
  BY <1>10, ZenonT(60), ZenonT(90) DEF OpenFile, SpareReady
<1>11. CASE \E f \in Fds : Release(f)
  <2>1. PICK f \in Fds : Release(f) BY <1>11, ZenonT(60), ZenonT(90)
  <2>2. ~Full' BY <1>t, <2>1, ZenonT(60), ZenonT(90) DEF Release, Full, AcceptorTypeOK
  <2> QED BY <2>1, <2>2, ZenonT(60), ZenonT(90) DEF Release, SpareReady
<1>12. CASE PeerConnects \/ PeerGivesUp
  BY <1>12, ZenonT(60), ZenonT(90) DEF PeerConnects, PeerGivesUp, SpareReady, Full
<1>14. CASE UNCHANGED acceptorVars
  BY <1>14 DEF acceptorVars, SpareReady, Full
<1> QED
  BY <1>1, <1>3, <1>5, <1>6, <1>7, <1>8, <1>9, <1>10, <1>11, <1>12, <1>14, ZenonT(60), ZenonT(90)
  DEF AcceptorNext, BaseLoop, AcceptorHandleRead, Others

\* As long as no other thread has taken a descriptor in the window in which
\* handleRead had given its own up, every call that finds the table full has a spare
\* descriptor to turn the peer away with: what NobodyWaits rests on.
THEOREM SpareDescriptorReady == AcceptorSpec => []SpareReady
<1>1. AcceptorInit => SpareReady BY DEF AcceptorInit, SpareReady, Closed
<1> QED BY <1>1, SpareStep, AcceptorOwnsDescriptors, PTL DEF AcceptorSpec

-----------------------------------------------------------------------------
\* The loops before next_ are one connection ahead of the others.
RoundRobin ==
    /\ next_ \in Nat /\ (next_ < NumLoops \/ next_ = 0)
    /\ assigned \in [Loops -> Nat]
    /\ NumLoops > 0 => assigned[kBaseLoop] = 0
    /\ \E n \in Nat : \A l \in 0..(NumLoops - 1) :
            assigned[l] = IF l < next_ THEN n + 1 ELSE n

\* newConnection moves next_ past the loop it has chosen.
LEMMA RoundRobinStep == RoundRobin /\ [AcceptorNext]_acceptorVars => RoundRobin'
<1> SUFFICES ASSUME RoundRobin, [AcceptorNext]_acceptorVars PROVE RoundRobin' OBVIOUS
<1> USE AcceptorAssumption
<1>1. CASE NewConnection
  <2>1. CASE NumLoops = 0
    BY <1>1, <2>1, SMTT(60), Z3T(60) DEF NewConnection, NextLoop, AfterNext, RoundRobin, Loops,
       kBaseLoop
  <2>2. CASE NumLoops > 0
    <3>1. PICK n \in Nat : \A l \in 0..(NumLoops - 1) :
                assigned[l] = IF l < next_ THEN n + 1 ELSE n
      BY Zenon DEF RoundRobin
    <3>2. /\ assigned' = [assigned EXCEPT ![next_] = @ + 1]
          /\ next_' = IF next_ + 1 >= NumLoops THEN 0 ELSE next_ + 1
          /\ next_ \in 0..(NumLoops - 1) /\ next_ \in Loops
          /\ assigned \in [Loops -> Nat] /\ assigned[kBaseLoop] = 0
          /\ kBaseLoop \in Loops /\ next_ # kBaseLoop
      <4>1. NextLoop = next_ /\ AfterNext = IF next_ + 1 >= NumLoops THEN 0 ELSE next_ + 1
        BY <2>2, SMTT(60), Z3T(60) DEF NextLoop, AfterNext
      <4>2. next_ \in 0..(NumLoops - 1) BY <2>2, SMTT(60), Z3T(60) DEF RoundRobin
      <4>3. next_ \in Loops /\ kBaseLoop \in Loops /\ next_ # kBaseLoop
        BY <4>2, SMTT(60), Z3T(60) DEF Loops, kBaseLoop
      <4> QED BY <1>1, <2>2, <4>1, <4>2, <4>3, ZenonT(60), ZenonT(90) DEF NewConnection, RoundRobin
    <3>3. /\ next_' \in Nat /\ (next_' < NumLoops \/ next_' = 0)
          /\ assigned' \in [Loops -> Nat] /\ assigned'[kBaseLoop] = 0
      BY <3>2, SMTT(60), Z3T(60)
    <3>4. \A l \in 0..(NumLoops - 1) : assigned'[l] = IF l <= next_ THEN n + 1 ELSE n
      <4> TAKE l \in 0..(NumLoops - 1)
      <4>1. l \in Loops BY Zenon DEF Loops
      <4>2. assigned'[l] = IF l = next_ THEN assigned[l] + 1 ELSE assigned[l] BY <3>2, <4>1,
                                                                                 ZenonT(60),
                                                                                 ZenonT(90)
      <4>3. assigned[l] = IF l < next_ THEN n + 1 ELSE n BY <3>1, ZenonT(60), ZenonT(90)
      <4> QED BY <3>2, <4>2, <4>3, SMTT(60), Z3T(60)
    <3>5. \E m \in Nat : \A l \in 0..(NumLoops - 1) :
                assigned'[l] = IF l < next_' THEN m + 1 ELSE m
      <4>1. CASE next_ + 1 >= NumLoops
        <5>1. \A l \in 0..(NumLoops - 1) : assigned'[l] = IF l < next_' THEN (n + 1) + 1 ELSE n + 1
          BY <3>2, <3>4, <4>1, SMTT(60), Z3T(60)
        <5> QED BY <5>1, SMTT(60), Z3T(60)
      <4>2. CASE ~(next_ + 1 >= NumLoops)
        <5>1. \A l \in 0..(NumLoops - 1) : assigned'[l] = IF l < next_' THEN n + 1 ELSE n
          BY <3>2, <3>4, <4>2, SMTT(60), Z3T(60)
        <5> QED BY <5>1, ZenonT(60), ZenonT(90)
      <4> QED BY <4>1, <4>2, ZenonT(60), ZenonT(90)
    <3> QED BY <3>3, <3>5, ZenonT(60), ZenonT(90) DEF RoundRobin
  <2> QED BY <2>1, <2>2, SMTT(60), Z3T(60)
<1>2. CASE UNCHANGED <<next_, assigned>>
  BY <1>2 DEF RoundRobin
<1> QED
  BY <1>1, <1>2, ZenonT(60), ZenonT(90) DEF AcceptorNext, BaseLoop, AcceptorHandleRead, Others,
     Start, ListenReadable, AcceptFails, CloseIdle,
     AcceptIdle, CloseAccepted, Reopen, Destruct, OpenFile, Release, PeerConnects, PeerGivesUp,
     acceptorVars

\* For every number of IO loops, getNextLoop spreads the connections evenly: no loop
\* is ever given two more than another, and the base loop none unless it is alone.
THEOREM LoopsAreBalanced == AcceptorSpec => []Balanced
<1> USE AcceptorAssumption
<1>1. AcceptorInit => RoundRobin
  <2> SUFFICES ASSUME AcceptorInit PROVE RoundRobin BY SMTT(60), Z3T(60)
  <2>1. \A l \in 0..(NumLoops - 1) : assigned[l] = IF l < next_ THEN 0 + 1 ELSE 0
    BY SMTT(60), Z3T(60) DEF AcceptorInit, Loops
  <2> QED BY <2>1, ZenonT(60), ZenonT(90) DEF AcceptorInit, RoundRobin, Loops, kBaseLoop
<1>2. RoundRobin => Balanced
  <2> SUFFICES ASSUME RoundRobin PROVE Balanced OBVIOUS
  <2>1. PICK n \in Nat : \A l \in 0..(NumLoops - 1) :
              assigned[l] = IF l < next_ THEN n + 1 ELSE n
    BY ZenonT(60), ZenonT(90) DEF RoundRobin
  <2>2. \A l \in 0..(NumLoops - 1) : assigned[l] \in {n, n + 1} BY <2>1
  <2> QED BY <2>2, SMTT(60), Z3T(60) DEF RoundRobin, Balanced
<1> QED BY <1>1, <1>2, RoundRobinStep, PTL DEF AcceptorSpec

=============================================================================
