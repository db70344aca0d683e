------------------------------- MODULE Buffer -------------------------------
(***************************************************************************)
(* netLayer/Buffer.h and Buffer.cpp: a vector of bytes with a reader index *)
(* and a writer index.  A buffer is a record; every method is an operator  *)
(* from the buffer before to the buffer after.  The indices count from 0   *)
(* as in the code, so that the readable bytes are mem[r + 1] to mem[w].    *)
(***************************************************************************)
EXTENDS Integers, Sequences

CONSTANTS kCheapPrepend, kInitialSize,
          ExtraBuf      \* sizeof extrabuf

ASSUME BufferAssumption ==
    kCheapPrepend \in Nat /\ kInitialSize \in Nat /\ ExtraBuf \in Nat

Byte == Nat

\* resize() and the constructor fill with zeros.
Zeros(n) == [i \in 1..n |-> 0]

NewBuffer == [mem |-> Zeros(kCheapPrepend + kInitialSize), r |-> kCheapPrepend, w |-> kCheapPrepend]

ReadableBytes(b) == b.w - b.r
WritableBytes(b) == Len(b.mem) - b.w
PrependableBytes(b) == b.r
Content(b) == SubSeq(b.mem, b.r + 1, b.w)

RetrieveAll(b) == [b EXCEPT !.r = kCheapPrepend, !.w = kCheapPrepend]

\* Requires len <= ReadableBytes(b).
Retrieve(b, len) ==
    IF len < ReadableBytes(b) THEN [b EXCEPT !.r = @ + len] ELSE RetrieveAll(b)

\* Grows the vector, or moves what is readable to the front.
MakeSpace(b, len) ==
    IF WritableBytes(b) + PrependableBytes(b) < len + kCheapPrepend
    THEN [b EXCEPT !.mem = @ \o Zeros(b.w + len - Len(@))]
    ELSE [b EXCEPT !.mem = [i \in 1..Len(@) |->
                                IF i \in (kCheapPrepend + 1)..(kCheapPrepend + ReadableBytes(b))
                                THEN @[i - kCheapPrepend + b.r] ELSE @[i]],
                   !.r = kCheapPrepend,
                   !.w = kCheapPrepend + ReadableBytes(b)]

EnsureWritableBytes(b, len) == IF WritableBytes(b) < len THEN MakeSpace(b, len) ELSE b

\* std::copy to beginWrite() and hasWritten; requires room for the data.
Put(b, data) ==
    [b EXCEPT !.mem = [i \in 1..Len(@) |-> IF i \in (b.w + 1)..(b.w + Len(data))
                                           THEN data[i - b.w] ELSE @[i]],
              !.w = @ + Len(data)]

AppendBytes(b, data) == Put(EnsureWritableBytes(b, Len(data)), data)

\* Requires len <= ReadableBytes(b).
Unwrite(b, len) == [b EXCEPT !.w = @ - len]

\* Requires Len(data) <= PrependableBytes(b).
Prepend(b, data) ==
    [b EXCEPT !.mem = [i \in 1..Len(@) |-> IF i \in (b.r - Len(data) + 1)..b.r
                                           THEN data[i - b.r + Len(data)] ELSE @[i]],
              !.r = @ - Len(data)]

\* A new buffer with the same content.
Shrink(b, reserve) ==
    AppendBytes(EnsureWritableBytes(NewBuffer, ReadableBytes(b) + reserve), Content(b))

\* readFd: readv gives data to the writable part first and the rest to extrabuf,
\* which is then appended.
ReadFd(b, data) ==
    LET writable == WritableBytes(b) IN
    IF Len(data) <= writable THEN Put(b, data)
    ELSE AppendBytes(Put(b, SubSeq(data, 1, writable)), SubSeq(data, writable + 1, Len(data)))

\* What readv may return, for so many bytes in the socket.
Readable(b, available) ==
    {n \in 1..available : n <= WritableBytes(b) + (IF WritableBytes(b) < ExtraBuf THEN ExtraBuf ELSE 0)}

-----------------------------------------------------------------------------
\* Integers in network order: hostToNetwork and networkToHost.  \div rounds down and % is
\* never negative, so that a negative number gets the bytes of its two's complement.

Network8(x) == << x % 256 >>
Network16(x) == << (x \div 256) % 256, x % 256 >>
Network32(x) == Network16(x \div 65536) \o Network16(x)

\* The numbers from -w / 2 to w / 2 - 1.
Signed(u, w) == IF 2 * u >= w THEN u - w ELSE u
Unsigned16(hi, lo) == 256 * hi + lo
Host8(s) == Signed(s[1], 256)
Host16(s) == Signed(Unsigned16(s[1], s[2]), 65536)
Host32(s) == Signed(65536 * Unsigned16(s[1], s[2]) + Unsigned16(s[3], s[4]), 65536 * 65536)

AppendInt8(b, x) == AppendBytes(b, Network8(x))
AppendInt16(b, x) == AppendBytes(b, Network16(x))
AppendInt32(b, x) == AppendBytes(b, Network32(x))

PrependInt8(b, x) == Prepend(b, Network8(x))
PrependInt16(b, x) == Prepend(b, Network16(x))
PrependInt32(b, x) == Prepend(b, Network32(x))

\* These require so many readable bytes.
PeekInt8(b) == Host8(Content(b))
PeekInt16(b) == Host16(Content(b))
PeekInt32(b) == Host32(Content(b))

\* readInt: the number, and the buffer after retrieveInt.
ReadInt8(b) == [x |-> PeekInt8(b), buf |-> Retrieve(b, 1)]
ReadInt16(b) == [x |-> PeekInt16(b), buf |-> Retrieve(b, 2)]
ReadInt32(b) == [x |-> PeekInt32(b), buf |-> Retrieve(b, 4)]

-----------------------------------------------------------------------------
\* The picture at the head of Buffer.h: the indices are in order and in range.
IsBuffer(b) ==
    /\ b \in [mem : Seq(Byte), r : Nat, w : Nat]
    /\ b.r <= b.w /\ b.w <= Len(b.mem)
    /\ kCheapPrepend <= Len(b.mem)
=============================================================================
