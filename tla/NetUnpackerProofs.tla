--------------------------- MODULE NetUnpackerProofs ---------------------------
(***************************************************************************)
(* The safety properties of NetUnpacker, proved for any MTU, any radix,    *)
(* any payloads within the counters' ranges, any mixture of them in one    *)
(* unpacker and any number of failed allocations.  First, what they need   *)
(* of NetPacker: a header is read as it was written.                       *)
(*                                                                         *)
(* The inductive invariant IInv relates the sizes the unpacker adopted to  *)
(* some payload that was packed, its counter to the set of indices, and    *)
(* the buffer's bytes to the payloads they came from.                      *)
(***************************************************************************)
EXTENDS NetUnpacker, NaturalFacts, FiniteSetTheorems, SequenceTheorems, TLAPS

--------------------------------------------------------------------------------
\* Integers on the wire.

\* Two digits of base h determine each other and their number.
LEMMA TwoDigits ==
  ASSUME NEW h \in Nat \ {0}, NEW a \in Nat, NEW b \in 0 .. h - 1
  PROVE  /\ (a * h + b) % h = b
         /\ (a * h + b) \div h = a
         /\ a \in 0 .. h - 1 => a * h + b \in 0 .. h * h - 1
<1>. DEFINE v == a * h + b
            q == v \div h
            r == v % h
<1>1. v \in Nat /\ a * h \in Nat
  BY SMT
<1>2. q \in Nat /\ r \in 0 .. h - 1 /\ v = q * h + r
  BY <1>1, SMT
<1>3. q = a
  <2>1. ASSUME q >= a + 1 PROVE FALSE
    <3>1. (a + 1) * h <= q * h
      BY <1>2, <2>1, ProductMonotone
    <3>. QED
      BY <1>1, <1>2, <3>1, SMT
  <2>2. ASSUME a >= q + 1 PROVE FALSE
    <3>1. (q + 1) * h <= a * h
      BY <1>2, <2>2, ProductMonotone
    <3>. QED
      BY <1>1, <1>2, <3>1, SMT
  <2>. QED
    BY <1>2, <2>1, <2>2, SMT
<1>4. a \in 0 .. h - 1 => v \in 0 .. h * h - 1
  <2>1. SUFFICES ASSUME a \in 0 .. h - 1 PROVE v \in 0 .. h * h - 1
    OBVIOUS
  <2>2. (a + 1) * h <= h * h
    BY <2>1, ProductMonotone
  <2>. QED
    BY <1>1, <2>2, SMT
<1>. QED
  BY <1>1, <1>2, <1>3, <1>4, SMT

LEMMA Split ==
  ASSUME NEW h \in Nat \ {0}, NEW v \in 0 .. h * h - 1
  PROVE  /\ v % h \in 0 .. h - 1
         /\ v \div h \in 0 .. h - 1
         /\ v = (v \div h) * h + (v % h)
<1>. DEFINE q == v \div h
<1>1. q \in Nat /\ v % h \in 0 .. h - 1 /\ v = q * h + (v % h)
  BY SMT
<1>2. ASSUME q >= h PROVE FALSE
  <2>1. h * h <= q * h
    BY <1>1, <1>2, ProductMonotone
  <2>. QED
    BY <1>1, <2>1, SMT
<1>3. q \in 0 .. h - 1
  <2>. HIDE DEF q
  <2>. QED
    BY <1>1, <1>2, SMT
<1>. QED
  BY <1>1, <1>3

LEMMA U16Type == U16 \in Nat \ {0} /\ Radix \in Nat \ {0}
<1>1. Radix \in Nat /\ Radix >= 1
  BY RadixAssumption
<1>2. 1 * Radix <= Radix * Radix
  BY <1>1, ProductMonotone
<1>. QED
  BY <1>1, <1>2, SMT DEF U16

LEMMA SquareType ==
  ASSUME NEW h \in Nat \ {0}
  PROVE  h * h \in Nat \ {0}
<1>1. 1 * h <= h * h
  BY ProductMonotone
<1>. QED
  BY <1>1, SMT

LEMMA U32Type == U32 \in Nat \ {0}
BY U16Type, SquareType DEF U32

LEMMA U64Type == U64 \in Nat \ {0}
BY U32Type, SquareType DEF U64

LEMMA Swap16Inverse ==
  ASSUME NEW v \in 0 .. U16 - 1
  PROVE  Swap16(v) \in 0 .. U16 - 1 /\ Swap16(Swap16(v)) = v
<1>. DEFINE a == v % Radix
            b == v \div Radix
<1>1. a \in 0 .. Radix - 1 /\ b \in 0 .. Radix - 1 /\ v = b * Radix + a
  BY U16Type, Split DEF U16
<1>2. Swap16(v) = a * Radix + b
  BY DEF Swap16
<1>. HIDE DEF a, b
<1>3. /\ (a * Radix + b) % Radix = b
      /\ (a * Radix + b) \div Radix = a
      /\ a * Radix + b \in 0 .. U16 - 1
  BY <1>1, U16Type, TwoDigits DEF U16
<1>. QED
  BY <1>1, <1>2, <1>3 DEF Swap16

LEMMA Swap32Inverse ==
  ASSUME NEW v \in 0 .. U32 - 1
  PROVE  Swap32(v) \in 0 .. U32 - 1 /\ Swap32(Swap32(v)) = v
<1>. DEFINE a == v % U16
            b == v \div U16
<1>1. a \in 0 .. U16 - 1 /\ b \in 0 .. U16 - 1 /\ v = b * U16 + a
  BY U16Type, Split DEF U32
<1>2. Swap32(v) = Swap16(a) * U16 + Swap16(b)
  BY DEF Swap32
<1>. HIDE DEF a, b
<1>3. /\ Swap16(a) \in 0 .. U16 - 1 /\ Swap16(Swap16(a)) = a
      /\ Swap16(b) \in 0 .. U16 - 1 /\ Swap16(Swap16(b)) = b
  BY <1>1, Swap16Inverse
<1>. DEFINE x == Swap16(a)
            y == Swap16(b)
<1>4. /\ (x * U16 + y) % U16 = y
      /\ (x * U16 + y) \div U16 = x
      /\ x * U16 + y \in 0 .. U32 - 1
  <2>1. x \in 0 .. U16 - 1 /\ y \in 0 .. U16 - 1
    BY <1>3
  <2>. HIDE DEF x, y
  <2>. QED
    BY <2>1, U16Type, TwoDigits DEF U32
<1>. QED
  BY <1>1, <1>2, <1>3, <1>4 DEF Swap32

LEMMA Swap64Inverse ==
  ASSUME NEW v \in 0 .. U64 - 1
  PROVE  Swap64(v) \in 0 .. U64 - 1 /\ Swap64(Swap64(v)) = v
<1>. DEFINE a == v % U32
            b == v \div U32
<1>1. a \in 0 .. U32 - 1 /\ b \in 0 .. U32 - 1 /\ v = b * U32 + a
  BY U32Type, Split DEF U64
<1>2. Swap64(v) = Swap32(a) * U32 + Swap32(b)
  BY DEF Swap64
<1>. HIDE DEF a, b
<1>3. /\ Swap32(a) \in 0 .. U32 - 1 /\ Swap32(Swap32(a)) = a
      /\ Swap32(b) \in 0 .. U32 - 1 /\ Swap32(Swap32(b)) = b
  BY <1>1, Swap32Inverse
<1>. DEFINE x == Swap32(a)
            y == Swap32(b)
<1>4. /\ (x * U32 + y) % U32 = y
      /\ (x * U32 + y) \div U32 = x
      /\ x * U32 + y \in 0 .. U64 - 1
  <2>1. x \in 0 .. U32 - 1 /\ y \in 0 .. U32 - 1
    BY <1>3
  <2>. HIDE DEF x, y
  <2>. QED
    BY <2>1, U32Type, TwoDigits DEF U64
<1>. QED
  BY <1>1, <1>2, <1>3, <1>4 DEF Swap64

\* What a packer writes into the 32-bit fields of a header is what an unpacker on a
\* host of the same byte order reads there.
THEOREM RoundTrip32 ==
  ASSUME NEW o \in Orders, NEW v \in 0 .. U32 - 1
  PROVE  from_network32(o, Image32(o, Image32(o, to_network32(o, v)))) = v
BY Swap32Inverse DEF Image32, to_network32, from_network32

\* The same for totalPayloadSize.
THEOREM RoundTrip64 ==
  ASSUME NEW o \in Orders, NEW v \in 0 .. U64 - 1
  PROVE  from_network64(o, Image64(o, Image64(o, to_network64(o, v)))) = v
BY Swap64Inverse DEF Image64, to_network64, from_network64

\* And for sof, which is not converted at all.
LEMMA RoundTrip16 ==
  ASSUME NEW o \in Orders, NEW v \in 0 .. U16 - 1
  PROVE  Image16(o, Image16(o, v)) = v
BY Swap16Inverse DEF Image16

--------------------------------------------------------------------------------
\* Fragments.


LEMMA MaxPayloadType ==
  /\ MaxPayloadSize \in Nat \ {0}
  /\ MaxPayloadSize < U32
BY NetPackerAssumption DEF MaxPayloadSize, HeaderSize

LEMMA SmallRemainder ==
  ASSUME NEW h \in Nat \ {0}, NEW v \in 0 .. h - 1
  PROVE  v % h = v
<1>1. (0 * h + v) % h = v
  BY TwoDigits
<1>2. 0 * h + v = v
  BY SMT
<1>. QED
  BY <1>1, <1>2

\* A payload of n bytes has fragments, and they can be counted.
Countable(n) == n \in Nat \ {0} /\ n <= MaxPayloadSize * (U32 - 1)

LEMMA CountBounds ==
  ASSUME NEW n, Countable(n)
  PROVE  /\ PackageCount(n) \in 1 .. U32 - 1
         /\ n <= PackageCount(n) * MaxPayloadSize
         /\ (PackageCount(n) - 1) * MaxPayloadSize < n
<1>. DEFINE P == MaxPayloadSize
            q == (n + P - 1) \div P
            r == (n + P - 1) % P
<1>1. P \in Nat \ {0} /\ U32 \in Nat \ {0} /\ n \in Nat \ {0} /\ n <= P * (U32 - 1)
  BY MaxPayloadType, U32Type DEF Countable
<1>. HIDE DEF P
<1>2. q \in Nat /\ r \in 0 .. P - 1 /\ n + P - 1 = q * P + r
  BY <1>1, SMT
<1>. HIDE DEF q, r
<1>3. q >= 1
  <2>1. ASSUME q = 0 PROVE FALSE
    BY <1>1, <1>2, <2>1, SMT
  <2>. QED
    BY <1>2, <2>1, SMT
<1>4. q * P \in Nat /\ (q - 1) * P = q * P - P
  BY <1>1, <1>2, SMT
<1>5. n <= q * P /\ (q - 1) * P < n
  BY <1>1, <1>2, <1>4, SMT
<1>6. q <= U32 - 1
  <2>1. SUFFICES ASSUME q - 1 >= U32 - 1 PROVE FALSE
    BY <1>1, <1>2, SMT
  <2>2. (U32 - 1) * P <= (q - 1) * P
    BY <1>1, <1>2, <1>3, <2>1, ProductMonotone
  <2>3. (U32 - 1) * P = P * (U32 - 1)
    BY <1>1, SMT
  <2>. QED
    BY <1>1, <1>2, <1>4, <1>5, <2>2, <2>3, SMT
<1>7. q % U32 = q
  BY <1>1, <1>2, <1>6, SmallRemainder
<1>8. PackageCount(n) = q
  BY <1>7 DEF PackageCount, P, q
<1>. QED
  BY <1>1, <1>2, <1>3, <1>5, <1>6, <1>8 DEF P

\* Fragment i is not empty, fits a packet and lies inside the payload; all are full
\* but the last, which ends the payload.
LEMMA FragmentBounds ==
  ASSUME NEW n, Countable(n), NEW i \in 0 .. PackageCount(n) - 1
  PROVE  /\ i * MaxPayloadSize \in Nat
         /\ FragmentSize(n, i) \in 1 .. MaxPayloadSize
         /\ i * MaxPayloadSize + FragmentSize(n, i) <= n
         /\ i < PackageCount(n) - 1 => FragmentSize(n, i) = MaxPayloadSize
         /\ i = PackageCount(n) - 1 => i * MaxPayloadSize + FragmentSize(n, i) = n
<1>. DEFINE P == MaxPayloadSize
            c == PackageCount(n)
<1>1. P \in Nat \ {0} /\ n \in Nat \ {0}
  BY MaxPayloadType DEF Countable
<1>2. c \in Nat \ {0} /\ n <= c * P /\ (c - 1) * P < n
  BY CountBounds, U32Type
<1>. HIDE DEF P, c
<1>3. i \in Nat /\ i <= c - 1
  BY <1>2 DEF c
<1>4. i * P <= (c - 1) * P /\ i * P \in Nat /\ (i + 1) * P = i * P + P
  BY <1>1, <1>2, <1>3, ProductMonotone
<1>5. i < c - 1 => i * P + P <= (c - 1) * P
  BY <1>1, <1>2, <1>3, <1>4, ProductMonotone
<1>6. i = c - 1 => i * P + P = c * P
  BY <1>1, <1>2, <1>4
<1>7. (c - 1) * P \in Nat /\ c * P \in Nat
  BY <1>1, <1>2, SMT
<1>8. FragmentSize(n, i) = IF n - i * P > P THEN P ELSE n - i * P
  BY DEF FragmentSize, P
<1>. QED
  BY <1>1, <1>2, <1>3, <1>4, <1>5, <1>6, <1>7, <1>8 DEF P, c

\* Two fragments of any payloads with different indices have no byte in common.
LEMMA SlotsApart ==
  ASSUME NEW i \in Nat, NEW k \in Nat, i < k
  PROVE  /\ i * MaxPayloadSize \in Nat
         /\ k * MaxPayloadSize \in Nat
         /\ i * MaxPayloadSize + MaxPayloadSize <= k * MaxPayloadSize
<1>1. MaxPayloadSize \in Nat
  BY MaxPayloadType
<1>2. (i + 1) * MaxPayloadSize <= k * MaxPayloadSize
  BY <1>1, ProductMonotone
<1>. QED
  BY <1>1, <1>2, SMT

\* Every byte of a payload is in a fragment of it.
LEMMA Covered ==
  ASSUME NEW n, Countable(n), NEW b \in 1 .. n
  PROVE  \E i \in 0 .. PackageCount(n) - 1 : \E d \in 1 .. FragmentSize(n, i) :
           b = i * MaxPayloadSize + d
<1>. DEFINE P == MaxPayloadSize
            c == PackageCount(n)
            i == (b - 1) \div P
            d == ((b - 1) % P) + 1
<1>1. P \in Nat \ {0} /\ n \in Nat \ {0} /\ b - 1 \in Nat
  BY MaxPayloadType DEF Countable
<1>2. c \in Nat \ {0} /\ n <= c * P
  BY CountBounds, U32Type
<1>. HIDE DEF P, c
<1>3. i \in Nat /\ d \in 1 .. P /\ b = i * P + d
  BY <1>1, SMT
<1>. HIDE DEF i, d
<1>4. i < c
  <2>1. SUFFICES ASSUME c <= i PROVE FALSE
    BY <1>2, <1>3, SMT
  <2>2. c * P <= i * P
    BY <1>1, <1>2, <1>3, <2>1, ProductMonotone
  <2>. QED
    BY <1>1, <1>2, <1>3, <2>2, SMT
<1>5. i \in 0 .. c - 1
  BY <1>2, <1>3, <1>4
<1>6. FragmentSize(n, i) = IF n - i * P > P THEN P ELSE n - i * P
  BY DEF FragmentSize, P
<1>7. i * P \in Nat
  BY <1>1, <1>3, SMT
<1>8. d \in 1 .. FragmentSize(n, i)
  BY <1>1, <1>3, <1>6, <1>7
<1>. QED
  BY <1>3, <1>5, <1>8 DEF P, c

--------------------------------------------------------------------------------

\* What the theorems assume: hosts of one byte order, a transport that does not cut
\* a packet inside its fragment, and payloads whose size and number of fragments
\* the receiver's integers can hold.
Deployment ==
  /\ SenderOrder = ReceiverOrder
  /\ CutSizes \subseteq 0 .. HeaderSize - 1
  /\ \A m \in Payloads : Len(m) < SizeMod /\ Len(m) <= MaxPayloadSize * (U32 - 1)

--------------------------------------------------------------------------------
(***************************************************************************)
(* What arrives of a packet.                                               *)
(***************************************************************************)

Header(m, i) ==
  [ sof                |-> SOF,
    totalPayloadSize   |-> Len(m),
    totalPackageNum    |-> PackageCount(Len(m)),
    currentPackageNum  |-> i,
    currentPayloadSize |-> FragmentSize(Len(m), i) ]

LEMMA SizeModType == SizeMod \in Nat \ {0} /\ SizeMod <= U64
<1>1. 1 * U32 <= U32 * U32
  BY U32Type, ProductMonotone
<1>2. U32 <= U64
  BY <1>1, U32Type DEF U64
<1>. QED
  BY <1>2, U32Type, U64Type, NetUnpackerAssumption

LEMMA PayloadType ==
  ASSUME Deployment, NEW m \in Payloads, Len(m) > 0
  PROVE  /\ m \in Seq(Byte)
         /\ Countable(Len(m))
         /\ Len(m) \in 1 .. SizeMod - 1
<1>1. m \in Seq(Byte)
  BY NetUnpackerAssumption
<1>2. Len(m) \in Nat
  BY <1>1, LenProperties
<1>. QED
  BY <1>1, <1>2, SizeModType DEF Deployment, Countable

LEMMA HeaderRead ==
  ASSUME Deployment, NEW m \in Payloads, Len(m) > 0,
         NEW i \in 0 .. PackageCount(Len(m)) - 1
  PROVE  deserialize(Packet(m, i)) = Header(m, i)
<1>. DEFINE n == Len(m)
            c == PackageCount(n)
            f == FragmentSize(n, i)
<1>1. Countable(n) /\ n \in 1 .. SizeMod - 1
  BY PayloadType
<1>2. c \in 1 .. U32 - 1 /\ f \in 1 .. MaxPayloadSize
  BY <1>1, CountBounds, FragmentBounds
<1>3. /\ i \in 0 .. U32 - 1 /\ c \in 0 .. U32 - 1 /\ f \in 0 .. U32 - 1
      /\ n \in 0 .. U64 - 1 /\ SOF \in 0 .. U16 - 1
  BY <1>1, <1>2, MaxPayloadType, U32Type, U64Type, SizeModType, NetPackerAssumption
<1>4. SenderOrder = ReceiverOrder /\ SenderOrder \in Orders
  BY NetPackerAssumption DEF Deployment
<1>5. n % SizeMod = n
  BY <1>1, SizeModType, SmallRemainder
<1>. HIDE DEF n, c, f
<1>6. Packet(m, i) =
        [ sof                |-> Image16(SenderOrder, SOF),
          totalPayloadSize   |-> Image64(SenderOrder, to_network64(SenderOrder, n)),
          totalPackageNum    |-> Image32(SenderOrder, to_network32(SenderOrder, c)),
          currentPackageNum  |-> Image32(SenderOrder, to_network32(SenderOrder, i)),
          currentPayloadSize |-> Image32(SenderOrder, to_network32(SenderOrder, f)),
          data               |-> Fragment(m, i),
          size               |-> HeaderSize + f ]
  BY DEF Packet, n, c, f
<1>. DEFINE p == Packet(m, i)
            o == ReceiverOrder
<1>7. Image16(o, p.sof) = SOF
  BY <1>3, <1>4, <1>6, RoundTrip16
<1>8. from_network64(o, Image64(o, p.totalPayloadSize)) = n
  BY <1>3, <1>4, <1>6, RoundTrip64
<1>9. /\ from_network32(o, Image32(o, p.totalPackageNum)) = c
      /\ from_network32(o, Image32(o, p.currentPackageNum)) = i
      /\ from_network32(o, Image32(o, p.currentPayloadSize)) = f
  BY <1>3, <1>4, <1>6, RoundTrip32
<1>. HIDE DEF p
<1>10. deserialize(p) = [ sof                |-> SOF,
                          totalPayloadSize   |-> n,
                          totalPackageNum    |-> c,
                          currentPackageNum  |-> i,
                          currentPayloadSize |-> f ]
  BY <1>5, <1>7, <1>8, <1>9 DEF deserialize, o
<1>. QED
  BY <1>10 DEF Header, n, c, f, p

\* A packet arrives cut inside its header and is refused unread, or it arrives whole
\* and its header is read as it was meant.
LEMMA Received ==
  ASSUME Deployment, NEW m \in Payloads, Len(m) > 0, NEW i \in DOMAIN Pack(m),
         Receive(m, i)
  PROVE  /\ i \in 0 .. PackageCount(Len(m)) - 1
         /\ UNCHANGED sent
         /\ InvalidSize \/ Accept(Header(m, i), Fragment(m, i))
<1>1. i \in 0 .. PackageCount(Len(m)) - 1 /\ Pack(m)[i] = Packet(m, i)
  BY DEF Pack
<1>2. PICK p \in Arrivals(Packet(m, i)) : addPacket(p)
  BY <1>1 DEF Receive
<1>3. Countable(Len(m))
  BY PayloadType
<1>4. FragmentSize(Len(m), i) \in 1 .. MaxPayloadSize
  BY <1>1, <1>3, FragmentBounds
<1>5. HeaderSize \in Nat
  BY DEF HeaderSize
<1>6. CASE p = Packet(m, i)
  <2>1. p.size = HeaderSize + FragmentSize(Len(m), i) /\ p.data = Fragment(m, i)
    BY <1>6 DEF Packet
  <2>2. HasHeader(p)
    BY <1>4, <1>5, <2>1, MaxPayloadType DEF HasHeader
  <2>3. deserialize(p) = Header(m, i) /\ Header(m, i).sof = SOF
    BY <1>1, <1>6, HeaderRead DEF Header
  <2>. QED
    BY <1>1, <1>2, <2>1, <2>2, <2>3 DEF addPacket, Receive
<1>7. CASE \E n \in CutSizes : p = Cut(Packet(m, i), n)
  <2>1. PICK n \in CutSizes : p = Cut(Packet(m, i), n)
    BY <1>7
  <2>2. p.size = n
    BY <2>1 DEF Cut, Packet
  <2>3. ~HasHeader(p)
    BY <1>5, <2>1, <2>2 DEF HasHeader, Deployment
  <2>. QED
    BY <1>1, <1>2, <2>3 DEF addPacket, Receive
<1>. QED
  BY <1>2, <1>6, <1>7 DEF Arrivals

--------------------------------------------------------------------------------
(***************************************************************************)
(* The inductive invariant.                                                *)
(***************************************************************************)

NoneEmpty == \A m \in sent : Len(m) > 0

\* The sizes are those of a payload that was packed, or nothing is adopted yet.
Adopted ==
  IF totalSize = 0
  THEN totalPackages = 0 /\ receivedCount = 0 /\ receivedIndices = {} /\ buffer = <<>>
  ELSE \E m \in sent : totalSize = Len(m) /\ totalPackages = PackageCount(Len(m))

\* The buffer has the adopted size, or the resize failed and left it empty.
Resized(b, n) == Len(b) = n \/ (b = <<>> /\ receivedIndices = {} /\ oom > 0)

BufferSized == Resized(buffer, totalSize)

Counted ==
  /\ receivedIndices \subseteq 0 .. totalPackages - 1
  /\ receivedCount = Cardinality(receivedIndices)

\* FragmentsIntact, byte by byte, for a buffer b.
Holds(b, k, m) ==
  /\ k \in 0 .. PackageCount(Len(m)) - 1
  /\ k * MaxPayloadSize + FragmentSize(Len(m), k) <= Len(b)
  /\ \A d \in 1 .. FragmentSize(Len(m), k) :
       b[k * MaxPayloadSize + d] = m[k * MaxPayloadSize + d]

Intact == \A k \in receivedIndices : \E m \in sent : Holds(buffer, k, m)

IInv ==
  /\ TypeOK /\ NoneEmpty /\ Adopted /\ BufferSized /\ Counted /\ Intact
  /\ NothingRefused /\ WildCopyOnlyAfterFailedResize

LEMMA InitIInv == Init => IInv
<1>1. SUFFICES ASSUME Init PROVE IInv
  OBVIOUS
<1>2. /\ 0 \in 0 .. SizeMod - 1 /\ 0 \in 0 .. U32 - 1 /\ 0 \in 0 .. MaxOOM
  BY SizeModType, U32Type, NetUnpackerAssumption
<1>3. <<>> \in Seq(Byte) /\ Len(<<>>) = 0
  BY EmptySeq
<1>4. TypeOK
  BY <1>1, <1>2, <1>3 DEF Init, TypeOK, Results
<1>5. Counted
  BY <1>1, FS_EmptySet DEF Init, Counted
<1>. QED
  BY <1>1, <1>3, <1>4, <1>5
     DEF IInv, Init, NoneEmpty, Adopted, BufferSized, Resized, Intact, NothingRefused,
         WildCopyOnlyAfterFailedResize

--------------------------------------------------------------------------------
(***************************************************************************)
(* A packet of payload m arrives whole.                                    *)
(***************************************************************************)

\* m is on the way and i one of its fragments.
OnTheWay(m, i) == m \in sent /\ i \in 0 .. PackageCount(Len(m)) - 1

LEMMA SentType ==
  ASSUME Deployment, IInv, NEW m \in sent
  PROVE  /\ m \in Payloads /\ m \in Seq(Byte)
         /\ Countable(Len(m)) /\ Len(m) \in 1 .. SizeMod - 1
         /\ PackageCount(Len(m)) \in 1 .. U32 - 1
<1>1. m \in Payloads /\ Len(m) > 0
  BY DEF IInv, TypeOK, NoneEmpty
<1>. QED
  BY <1>1, PayloadType, CountBounds

LEMMA ResizeType ==
  ASSUME NEW n \in Nat
  PROVE  resize(<<>>, n) \in Seq(Byte) /\ Len(resize(<<>>, n)) = n
<1>1. 0 \in Byte
  BY RadixAssumption DEF Byte
<1>2. resize(<<>>, n) = [k \in 1 .. n |-> 0]
  BY DEF resize
<1>. QED
  BY <1>1, <1>2

\* Adopting touches only what was never used, and leaves sizes of a packed payload.
LEMMA AfterAdopting ==
  ASSUME Deployment, IInv, NEW m, NEW i, OnTheWay(m, i)
  PROVE  LET h == Header(m, i)
         IN  /\ \E n \in sent : SizeFrom(h) = Len(n) /\ PackagesFrom(h) = PackageCount(Len(n))
             /\ SizeFrom(h) \in 1 .. SizeMod - 1 /\ PackagesFrom(h) \in 1 .. U32 - 1
             /\ IndicesFrom(h) = receivedIndices /\ CountFrom(h) = receivedCount
             /\ BufferFrom(h) \in Seq(Byte) /\ Resized(BufferFrom(h), SizeFrom(h))
             /\ receivedIndices # {} => BufferFrom(h) = buffer /\ totalSize # 0
             /\ Adopts => Len(BufferFrom(h)) = SizeFrom(h)
             /\ ~Adopts => BufferFrom(h) = buffer /\ SizeFrom(h) = totalSize
<1>. DEFINE h == Header(m, i)
<1>1. /\ h.totalPayloadSize = Len(m) /\ h.totalPackageNum = PackageCount(Len(m))
  BY DEF Header
<1>2. m \in sent /\ Len(m) \in 1 .. SizeMod - 1 /\ PackageCount(Len(m)) \in 1 .. U32 - 1
  BY SentType DEF OnTheWay
<1>. HIDE DEF h
<1>3. CASE totalSize = 0
  <2>1. /\ receivedCount = 0 /\ receivedIndices = {} /\ buffer = <<>>
    BY <1>3 DEF IInv, Adopted
  <2>2. BufferFrom(h) = resize(<<>>, Len(m))
    BY <1>1, <1>3, <2>1 DEF BufferFrom, Adopts
  <2>3. BufferFrom(h) \in Seq(Byte) /\ Len(BufferFrom(h)) = Len(m)
    BY <1>2, <2>2, ResizeType
  <2>. QED
    BY <1>1, <1>2, <1>3, <2>1, <2>3
       DEF h, Adopts, SizeFrom, PackagesFrom, IndicesFrom, CountFrom, Resized
<1>4. CASE totalSize # 0
  <2>1. PICK n \in sent : totalSize = Len(n) /\ totalPackages = PackageCount(Len(n))
    BY <1>4 DEF IInv, Adopted
  <2>2. Len(n) \in 1 .. SizeMod - 1 /\ PackageCount(Len(n)) \in 1 .. U32 - 1
    BY SentType
  <2>3. buffer \in Seq(Byte) /\ Resized(buffer, totalSize)
    BY DEF IInv, TypeOK, BufferSized
  <2>. QED
    BY <1>4, <2>1, <2>2, <2>3
       DEF h, Adopts, SizeFrom, PackagesFrom, IndicesFrom, CountFrom, BufferFrom
<1>. QED
  BY <1>3, <1>4

\* Where fragment i belongs, and when addPacket finds it in range.
LEMMA Placed ==
  ASSUME Deployment, IInv, NEW m, NEW i, OnTheWay(m, i)
  PROVE  LET h == Header(m, i)
             f == FragmentSize(Len(m), i)
         IN  /\ h.currentPackageNum = i /\ h.currentPayloadSize = f
             /\ i \in Nat /\ f \in 1 .. MaxPayloadSize /\ i * MaxPayloadSize \in Nat
             /\ Offset(h) = i * MaxPayloadSize
             /\ i * MaxPayloadSize + f <= Len(m)
             /\ InRange(h) <=> i * MaxPayloadSize + f <= SizeFrom(h)
<1>. DEFINE h == Header(m, i)
            f == FragmentSize(Len(m), i)
            off == i * MaxPayloadSize
<1>1. h.currentPackageNum = i /\ h.currentPayloadSize = f
  BY DEF Header
<1>2. i \in 0 .. PackageCount(Len(m)) - 1 /\ Countable(Len(m)) /\ Len(m) \in 1 .. SizeMod - 1
      /\ PackageCount(Len(m)) \in 1 .. U32 - 1
  BY SentType DEF OnTheWay
<1>3. off \in Nat /\ f \in 1 .. MaxPayloadSize /\ off + f <= Len(m)
  BY <1>2, FragmentBounds
<1>4. i \in Nat /\ MaxPayloadSize \in Nat /\ SizeMod \in Nat \ {0} /\ U32 \in Nat
  BY <1>2, MaxPayloadType, SizeModType, U32Type
<1>. HIDE DEF f, off, h
<1>5. off \in 0 .. SizeMod - 1 /\ off + f \in 0 .. SizeMod - 1
  BY <1>2, <1>3, <1>4
<1>6. off % SizeMod = off /\ (off + f) % SizeMod = off + f
  BY <1>4, <1>5, SmallRemainder
<1>7. Offset(h) = off
  BY <1>1, <1>6 DEF Offset, off
<1>8. InRange(h) <=> off + f <= SizeFrom(h)
  BY <1>1, <1>6, <1>7 DEF InRange
<1>. QED
  BY <1>1, <1>3, <1>4, <1>7, <1>8 DEF h, f, off

\* A call that adopts sizes and stores nothing.
LEMMA AdoptKeeps ==
  ASSUME Deployment, IInv, NEW m, NEW i, OnTheWay(m, i), Adopt(Header(m, i)),
         UNCHANGED sent, oom' \in oom .. MaxOOM,
         result' \in Results \ {"crash"}, NothingRefused'
  PROVE  IInv'
<1>. DEFINE h == Header(m, i)
<1>1. /\ \E n \in sent : totalSize' = Len(n) /\ totalPackages' = PackageCount(Len(n))
      /\ totalSize' \in 1 .. SizeMod - 1 /\ totalPackages' \in 1 .. U32 - 1
      /\ receivedIndices' = receivedIndices /\ receivedCount' = receivedCount
      /\ buffer' \in Seq(Byte) /\ Resized(buffer', totalSize')
      /\ receivedIndices # {} => buffer' = buffer /\ totalSize # 0
      /\ totalSize # 0 => totalPackages' = totalPackages
  BY AfterAdopting DEF Adopt, AdoptSizes, Adopts, PackagesFrom
<1>2. oom \in Nat /\ MaxOOM \in Nat /\ SizeMod \in Nat /\ U32 \in Nat
  BY NetUnpackerAssumption, SizeModType, U32Type DEF IInv, TypeOK
<1>3. TypeOK'
  BY <1>1, <1>2 DEF IInv, TypeOK
<1>4. NoneEmpty' /\ Adopted'
  BY <1>1 DEF IInv, NoneEmpty, Adopted
<1>5. BufferSized'
  BY <1>1, <1>2 DEF BufferSized, Resized
<1>6. Counted'
  <2>1. CASE receivedIndices = {}
    BY <1>1, <2>1 DEF IInv, Counted
  <2>2. CASE receivedIndices # {}
    BY <1>1, <2>2 DEF IInv, Counted
  <2>. QED
    BY <2>1, <2>2
<1>7. Intact'
  BY <1>1 DEF IInv, Intact
<1>8. WildCopyOnlyAfterFailedResize'
  BY DEF WildCopyOnlyAfterFailedResize
<1>. QED
  BY <1>3, <1>4, <1>5, <1>6, <1>7, <1>8 DEF IInv

LEMMA OutOfRangeKeeps ==
  ASSUME Deployment, IInv, NEW m, NEW i, OnTheWay(m, i), UNCHANGED sent,
         OutOfRange(Header(m, i))
  PROVE  IInv'
<1>. DEFINE h == Header(m, i)
<1>1. ~ \A a, b \in sent : a = b
  <2>1. SUFFICES ASSUME \A a, b \in sent : a = b PROVE FALSE
    OBVIOUS
  <2>2. PICK n \in sent : SizeFrom(h) = Len(n)
    BY AfterAdopting
  <2>3. n = m
    BY <2>1, <2>2 DEF OnTheWay
  <2>. QED
    BY <2>2, <2>3, Placed DEF OutOfRange
<1>2. NothingRefused'
  BY <1>1 DEF NothingRefused
<1>3. oom' \in oom .. MaxOOM
  <2>1. oom' = oom
    BY DEF OutOfRange
  <2>2. oom \in 0 .. MaxOOM
    BY DEF IInv, TypeOK
  <2>. QED
    BY <2>1, <2>2, NetUnpackerAssumption
<1>. QED
  BY <1>2, <1>3, AdoptKeeps DEF OutOfRange, Results

LEMMA InsertFailsKeeps ==
  ASSUME Deployment, IInv, NEW m, NEW i, OnTheWay(m, i), UNCHANGED sent,
         InsertFails(Header(m, i))
  PROVE  IInv'
<1>1. NothingRefused'
  BY DEF NothingRefused, InsertFails
<1>2. oom' \in oom .. MaxOOM
  BY NetUnpackerAssumption DEF InsertFails, IInv, TypeOK
<1>. QED
  BY <1>1, <1>2, AdoptKeeps DEF InsertFails, Results

LEMMA DuplicateKeeps ==
  ASSUME Deployment, IInv, NEW m, NEW i, OnTheWay(m, i), UNCHANGED sent,
         Duplicate(Header(m, i))
  PROVE  IInv'
<1>1. NothingRefused'
  BY DEF NothingRefused, Duplicate
<1>2. oom' \in oom .. MaxOOM
  BY NetUnpackerAssumption DEF Duplicate, IInv, TypeOK
<1>. QED
  BY <1>1, <1>2, AdoptKeeps DEF Duplicate, Results

LEMMA ResizeFailsKeeps ==
  ASSUME Deployment, IInv, NEW m, NEW i, OnTheWay(m, i), UNCHANGED sent,
         ResizeFails(Header(m, i))
  PROVE  IInv'
<1>1. /\ receivedCount = 0 /\ receivedIndices = {} /\ buffer = <<>>
  BY DEF IInv, Adopted, ResizeFails, Adopts
<1>2. /\ \E n \in sent : totalSize' = Len(n) /\ totalPackages' = PackageCount(Len(n))
      /\ totalSize' \in 1 .. SizeMod - 1 /\ totalPackages' \in 1 .. U32 - 1
  BY AfterAdopting DEF ResizeFails, AdoptSizes
<1>3. oom' \in 1 .. MaxOOM
  BY NetUnpackerAssumption DEF ResizeFails, IInv, TypeOK
<1>4. TypeOK'
  <2>1. totalSize' \in 0 .. SizeMod - 1 /\ totalPackages' \in 0 .. U32 - 1 /\ oom' \in 0 .. MaxOOM
    BY <1>2, <1>3, SizeModType, U32Type, NetUnpackerAssumption
  <2>2. /\ UNCHANGED <<buffer, receivedIndices, receivedCount, sent>>
        /\ result' \in Results
    BY DEF ResizeFails, Results
  <2>. QED
    BY <2>1, <2>2 DEF IInv, TypeOK
<1>5. NoneEmpty' /\ Adopted'
  BY <1>2 DEF IInv, NoneEmpty, Adopted
<1>6. BufferSized' /\ Counted' /\ Intact'
  BY <1>1, <1>3 DEF ResizeFails, BufferSized, Resized, Counted, Intact, IInv
<1>7. NothingRefused' /\ WildCopyOnlyAfterFailedResize'
  BY DEF ResizeFails, NothingRefused, WildCopyOnlyAfterFailedResize
<1>. QED
  BY <1>4, <1>5, <1>6, <1>7 DEF IInv

LEMMA MembersKept ==
  ASSUME IInv, UNCHANGED <<members, oom>>, sent' \in SUBSET Payloads, sent \subseteq sent',
         NoneEmpty', result' \in Results, NothingRefused', WildCopyOnlyAfterFailedResize'
  PROVE  IInv'
<1>1. TypeOK'
  BY DEF IInv, TypeOK, members
<1>2. Adopted'
  BY DEF IInv, Adopted, members
<1>3. BufferSized' /\ Counted'
  BY DEF IInv, BufferSized, Resized, Counted, members
<1>4. Intact'
  BY DEF IInv, Intact, members
<1>. QED
  BY <1>1, <1>2, <1>3, <1>4 DEF IInv

LEMMA InvalidSizeKeeps ==
  ASSUME IInv, UNCHANGED sent, InvalidSize
  PROVE  IInv'
<1>1. NothingRefused' /\ WildCopyOnlyAfterFailedResize' /\ NoneEmpty'
  BY DEF InvalidSize, NothingRefused, WildCopyOnlyAfterFailedResize, IInv, NoneEmpty
<1>. QED
  BY <1>1, MembersKept DEF InvalidSize, Results, IInv, TypeOK

\* The only way out of the buffer is a buffer that was never sized.
LEMMA WildCopyKeeps ==
  ASSUME Deployment, IInv, NEW m, NEW i, OnTheWay(m, i), UNCHANGED sent,
         WildCopy(Header(m, i))
  PROVE  IInv'
<1>. DEFINE h == Header(m, i)
            f == FragmentSize(Len(m), i)
            off == i * MaxPayloadSize
<1>1. /\ off \in Nat /\ f \in Nat /\ off + f <= SizeFrom(h)
      /\ off + f > Len(BufferFrom(h))
  <2>1. BufferFrom(h) \in Seq(Byte)
    BY AfterAdopting
  <2>2. Len(BufferFrom(h)) \in Nat /\ MaxPayloadSize \in Nat
    BY <2>1, LenProperties, MaxPayloadType
  <2>. QED
    BY <2>2, Placed DEF WildCopy, Fits
<1>. HIDE DEF off, f, h
<1>2. Resized(BufferFrom(h), SizeFrom(h)) /\ BufferFrom(h) \in Seq(Byte)
      /\ SizeFrom(h) \in Nat
      /\ (Adopts => Len(BufferFrom(h)) = SizeFrom(h))
      /\ (~Adopts => BufferFrom(h) = buffer /\ SizeFrom(h) = totalSize)
  BY AfterAdopting, SizeModType DEF h
<1>3. Len(BufferFrom(h)) \in Nat
  BY <1>2, LenProperties
<1>4. Len(BufferFrom(h)) < SizeFrom(h)
  BY <1>1, <1>2, <1>3
<1>5. ~Adopts /\ oom > 0 /\ Len(buffer) < totalSize
  BY <1>2, <1>3, <1>4 DEF Resized
<1>6. /\ NothingRefused' /\ WildCopyOnlyAfterFailedResize' /\ NoneEmpty'
  BY <1>5 DEF WildCopy, NothingRefused, WildCopyOnlyAfterFailedResize, IInv, NoneEmpty, members
<1>. QED
  BY <1>6, MembersKept DEF WildCopy, Results, IInv, TypeOK

LEMMA FragmentBytes ==
  ASSUME Deployment, IInv, NEW m, NEW i, OnTheWay(m, i)
  PROVE  LET f == FragmentSize(Len(m), i)
         IN  /\ Fragment(m, i) \in Seq(Byte) /\ Len(Fragment(m, i)) = f
             /\ \A d \in 1 .. f : Fragment(m, i)[d] = m[i * MaxPayloadSize + d]
                                 /\ m[i * MaxPayloadSize + d] \in Byte
<1>. DEFINE f == FragmentSize(Len(m), i)
            off == i * MaxPayloadSize
<1>1. /\ off \in Nat /\ f \in 1 .. MaxPayloadSize /\ off + f <= Len(m)
      /\ m \in Seq(Byte) /\ Len(m) \in Nat /\ MaxPayloadSize \in Nat
  BY Placed, SentType, SizeModType, MaxPayloadType DEF OnTheWay
<1>2. Fragment(m, i) = SubSeq(m, off + 1, off + f)
  BY DEF Fragment
<1>. HIDE DEF f, off
<1>3. \A b \in off + 1 .. off + f : m[b] \in Byte
  BY <1>1, ElementOfSeq
<1>4. /\ SubSeq(m, off + 1, off + f) \in Seq(Byte)
      /\ Len(SubSeq(m, off + 1, off + f)) = f
      /\ \A d \in 1 .. f : SubSeq(m, off + 1, off + f)[d] = m[off + d]
  <2>1. off + 1 \in Int /\ off + f \in Int
    BY <1>1
  <2>2. /\ SubSeq(m, off + 1, off + f) \in Seq(Byte)
        /\ Len(SubSeq(m, off + 1, off + f)) =
             IF off + 1 <= off + f THEN (off + f) - (off + 1) + 1 ELSE 0
        /\ \A d \in 1 .. (off + f) - (off + 1) + 1 :
             SubSeq(m, off + 1, off + f)[d] = m[(off + 1) + d - 1]
    BY <1>3, <2>1, SubSeqProperties
  <2>3. (off + f) - (off + 1) + 1 = f /\ off + 1 <= off + f
    BY <1>1
  <2>4. \A d \in 1 .. f : (off + 1) + d - 1 = off + d
    BY <1>1
  <2>. QED
    BY <2>2, <2>3, <2>4
<1>5. \A d \in 1 .. f : m[off + d] \in Byte
  BY <1>1, <1>3
<1>. QED
  BY <1>2, <1>4, <1>5 DEF f, off

\* What a stored fragment changes: its own bytes, which become the payload's.
LEMMA Stored ==
  ASSUME Deployment, IInv, NEW m, NEW i, OnTheWay(m, i),
         StoreFragment(Header(m, i), Fragment(m, i))
  PROVE  LET B   == BufferFrom(Header(m, i))
             f   == FragmentSize(Len(m), i)
             off == i * MaxPayloadSize
         IN  /\ buffer' \in Seq(Byte) /\ Len(buffer') = Len(B) /\ Len(B) \in Nat
             /\ \A b \in 1 .. Len(B) :
                  buffer'[b] = IF b \in off + 1 .. off + f THEN m[b] ELSE B[b]
             /\ off + f <= Len(B) /\ Len(B) = SizeFrom(Header(m, i))
             /\ i \notin receivedIndices /\ receivedIndices' = receivedIndices \cup {i}
<1>. DEFINE h == Header(m, i)
            B == BufferFrom(h)
            f == FragmentSize(Len(m), i)
            off == i * MaxPayloadSize
            data == Fragment(m, i)
<1>1. /\ h.currentPackageNum = i /\ h.currentPayloadSize = f /\ Offset(h) = off
      /\ off \in Nat /\ f \in Nat /\ f >= 1
  BY Placed, MaxPayloadType
<1>2. B \in Seq(Byte) /\ Resized(B, SizeFrom(h)) /\ IndicesFrom(h) = receivedIndices
  BY AfterAdopting
<1>3. Len(B) \in Nat /\ B \in [1 .. Len(B) -> Byte]
  BY <1>2, LenProperties
<1>4. i \notin receivedIndices /\ receivedIndices' = receivedIndices \cup {i}
  BY <1>1, <1>2 DEF StoreFragment, IsNew
<1>5. off + f <= Len(B)
  BY <1>1 DEF StoreFragment, Fits
<1>6. Len(B) = SizeFrom(h)
  <2>1. B # <<>>
    BY <1>1, <1>3, <1>5, EmptySeq
  <2>. QED
    BY <1>2, <2>1 DEF Resized
<1>7. Len(data) = f /\ \A d \in 1 .. f : data[d] = m[off + d] /\ m[off + d] \in Byte
  BY FragmentBytes
<1>8. PICK bytes \in Copied(h, data) : buffer' = Copy(h, bytes)
  BY DEF StoreFragment
<1>. HIDE DEF h, B, f, off, data
<1>9. PICK stray \in [Len(data) + 1 .. f -> Byte] :
        bytes = [k \in 1 .. f |-> IF k <= Len(data) THEN data[k] ELSE stray[k]]
  BY <1>1, <1>8 DEF Copied
<1>10. \A d \in 1 .. f : bytes[d] = m[off + d]
  BY <1>1, <1>7, <1>9
<1>11. buffer' = [k \in 1 .. Len(B) |-> IF k \in off + 1 .. off + f THEN bytes[k - off] ELSE B[k]]
  BY <1>1, <1>8 DEF Copy, B
<1>12. \A b \in off + 1 .. off + f : bytes[b - off] = m[b] /\ m[b] \in Byte
  <2>1. SUFFICES ASSUME NEW b \in off + 1 .. off + f
                 PROVE  bytes[b - off] = m[b] /\ m[b] \in Byte
    OBVIOUS
  <2>2. b - off \in 1 .. f /\ off + (b - off) = b
    BY <1>1
  <2>. QED
    BY <1>7, <1>10, <2>2
<1>13. \A b \in 1 .. Len(B) :
         /\ buffer'[b] = IF b \in off + 1 .. off + f THEN m[b] ELSE B[b]
         /\ buffer'[b] \in Byte
  BY <1>3, <1>11, <1>12
<1>14. buffer' \in Seq(Byte) /\ Len(buffer') = Len(B)
  BY <1>3, <1>11, <1>13
<1>. QED
  BY <1>3, <1>4, <1>5, <1>6, <1>13, <1>14 DEF h, B, f, off

LEMMA StoreFragmentKeeps ==
  ASSUME Deployment, IInv, NEW m, NEW i, OnTheWay(m, i), UNCHANGED sent,
         StoreFragment(Header(m, i), Fragment(m, i))
  PROVE  IInv'
<1>. DEFINE h == Header(m, i)
            B == BufferFrom(h)
            f == FragmentSize(Len(m), i)
            off == i * MaxPayloadSize
            T == PackagesFrom(h)
            R == receivedIndices
<1>1. /\ off \in Nat /\ f \in Nat /\ f >= 1 /\ i \in Nat /\ off + f <= SizeFrom(h)
  BY Placed, MaxPayloadType DEF StoreFragment
<1>2. /\ \E n \in sent : SizeFrom(h) = Len(n) /\ T = PackageCount(Len(n))
      /\ SizeFrom(h) \in 1 .. SizeMod - 1 /\ T \in 1 .. U32 - 1
      /\ CountFrom(h) = receivedCount
      /\ R # {} => B = buffer /\ totalSize # 0
  BY AfterAdopting
<1>3. /\ totalSize' = SizeFrom(h) /\ totalPackages' = T
      /\ receivedCount' = (CountFrom(h) + 1) % U32
      /\ result' = "ok" /\ UNCHANGED oom
  BY DEF StoreFragment, AdoptSizes
<1>4. /\ buffer' \in Seq(Byte) /\ Len(buffer') = Len(B) /\ Len(B) \in Nat
      /\ \A b \in 1 .. Len(B) :
           buffer'[b] = IF b \in off + 1 .. off + f THEN m[b] ELSE B[b]
      /\ off + f <= Len(B) /\ Len(B) = SizeFrom(h)
      /\ i \notin R /\ R' = R \cup {i}
  BY Stored
<1>5. R # {} => totalPackages = T
  BY <1>2 DEF PackagesFrom, Adopts
<1>. HIDE DEF h, B, f, T
<1>6. i < T
  <2>1. PICK n \in sent : SizeFrom(h) = Len(n) /\ T = PackageCount(Len(n))
    BY <1>2
  <2>2. Len(n) <= T * MaxPayloadSize
    BY <2>1, SentType, CountBounds
  <2>3. SUFFICES ASSUME T <= i PROVE FALSE
    BY <1>1, <1>2, U32Type
  <2>4. T * MaxPayloadSize <= off
    BY <1>1, <1>2, <2>3, U32Type, MaxPayloadType, ProductMonotone
  <2>5. T * MaxPayloadSize \in Nat /\ Len(n) \in Nat
    BY <1>2, <2>1, U32Type, MaxPayloadType, SizeModType
  <2>. QED
    BY <1>1, <2>1, <2>2, <2>4, <2>5
<1>. HIDE DEF off
<1>7. R' \subseteq 0 .. T - 1
  <2>1. R \subseteq 0 .. T - 1
    BY <1>5 DEF IInv, Counted
  <2>2. i \in 0 .. T - 1
    BY <1>1, <1>2, <1>6, U32Type
  <2>. QED
    BY <1>4, <2>1, <2>2
<1>8. receivedCount' = Cardinality(R') /\ receivedCount' \in 0 .. U32 - 1
  <2>1. T \in Nat /\ T <= U32 - 1 /\ U32 \in Nat \ {0} /\ 0 \in Int /\ T - 1 \in Int
    BY <1>2, U32Type
  <2>2. IsFiniteSet(0 .. T - 1) /\ Cardinality(0 .. T - 1) = T
    BY <2>1, FS_Interval
  <2>3. IsFiniteSet(R') /\ Cardinality(R') <= T
    BY <1>7, <2>2, FS_Subset
  <2>4. IsFiniteSet(R)
    BY <1>4, <2>3, FS_Subset
  <2>5. Cardinality(R') = Cardinality(R) + 1 /\ Cardinality(R) \in Nat
    BY <1>4, <2>4, FS_AddElement, FS_CardinalityType
  <2>6. CountFrom(h) = Cardinality(R)
    BY <1>2 DEF IInv, Counted
  <2>7. CountFrom(h) + 1 \in 0 .. U32 - 1
    BY <2>1, <2>3, <2>5, <2>6
  <2>. QED
    BY <1>3, <2>1, <2>5, <2>6, <2>7, SmallRemainder
<1>9. TypeOK'
  <2>1. totalSize' \in 0 .. SizeMod - 1 /\ totalPackages' \in 0 .. U32 - 1
    BY <1>2, <1>3, SizeModType, U32Type
  <2>2. R' \subseteq 0 .. U32 - 1
    BY <1>2, <1>7, U32Type
  <2>3. result' \in Results /\ UNCHANGED <<oom, sent>>
    BY <1>3 DEF Results
  <2>. QED
    BY <1>4, <1>8, <2>1, <2>2, <2>3 DEF IInv, TypeOK
<1>10. NoneEmpty' /\ Adopted'
  BY <1>2, <1>3 DEF IInv, NoneEmpty, Adopted
<1>11. BufferSized' /\ Counted'
  BY <1>3, <1>4, <1>7, <1>8 DEF BufferSized, Resized, Counted
<1>12. Holds(buffer', i, m)
  <2>1. \A d \in 1 .. f : buffer'[off + d] = m[off + d]
    BY <1>1, <1>4
  <2>. QED
    BY <1>4, <2>1 DEF Holds, OnTheWay, f, off
<1>13. ASSUME NEW k \in R PROVE \E n \in sent : Holds(buffer', k, n)
  <2>1. PICK n \in sent : Holds(B, k, n)
    BY <1>2, <1>13 DEF IInv, Intact
  <2>. DEFINE g == FragmentSize(Len(n), k)
              koff == k * MaxPayloadSize
  <2>2. k \in 0 .. PackageCount(Len(n)) - 1
    BY <2>1 DEF Holds
  <2>3. k \in Nat /\ koff \in Nat /\ g \in 1 .. MaxPayloadSize
    BY <2>2, SentType, FragmentBounds
  <2>4. koff + g <= Len(B) /\ \A d \in 1 .. g : B[koff + d] = n[koff + d]
    BY <2>1 DEF Holds
  <2>5. f <= MaxPayloadSize /\ MaxPayloadSize \in Nat
    BY Placed, MaxPayloadType DEF f
  <2>6. off + MaxPayloadSize <= koff \/ koff + MaxPayloadSize <= off
    <3>1. k < i \/ i < k
      BY <1>1, <1>4, <1>13, <2>3
    <3>. QED
      BY <1>1, <2>3, <3>1, SlotsApart DEF off
  <2>. HIDE DEF g, koff
  <2>7. ASSUME NEW d \in 1 .. g PROVE buffer'[koff + d] = n[koff + d]
    <3>1. koff + d \in 1 .. Len(B) /\ koff + d \notin off + 1 .. off + f
      BY <1>1, <1>4, <2>3, <2>4, <2>5, <2>6
    <3>. QED
      BY <1>4, <2>4, <3>1
  <2>. QED
    BY <1>4, <2>2, <2>4, <2>7 DEF Holds, g, koff
<1>14. Intact'
  BY <1>4, <1>12, <1>13 DEF Intact, OnTheWay
<1>15. NothingRefused' /\ WildCopyOnlyAfterFailedResize'
  BY <1>3 DEF NothingRefused, WildCopyOnlyAfterFailedResize
<1>. QED
  BY <1>9, <1>10, <1>11, <1>14, <1>15 DEF IInv

LEMMA AcceptKeeps ==
  ASSUME Deployment, IInv, NEW m, NEW i, OnTheWay(m, i), UNCHANGED sent,
         Accept(Header(m, i), Fragment(m, i))
  PROVE  IInv'
BY ResizeFailsKeeps, OutOfRangeKeeps, InsertFailsKeeps, DuplicateKeeps,
   StoreFragmentKeeps, WildCopyKeeps DEF Accept

LEMMA PackKeeps ==
  ASSUME Deployment, IInv, NEW m \in Payloads, PackMessage(m) \/ PackEmpty(m)
  PROVE  IInv'
<1>1. /\ UNCHANGED <<members, oom>> /\ sent \subseteq sent'
      /\ result' \in {"ok", "payload size error"}
  BY DEF PackMessage, PackEmpty
<1>2. sent' \in SUBSET Payloads /\ NoneEmpty'
  BY DEF PackMessage, PackEmpty, IInv, TypeOK, NoneEmpty
<1>3. NothingRefused' /\ WildCopyOnlyAfterFailedResize' /\ result' \in Results
  BY <1>1 DEF NothingRefused, WildCopyOnlyAfterFailedResize, Results
<1>. QED
  BY <1>1, <1>2, <1>3, MembersKept

\* A packet is received, and what that means under IInv.
LEMMA ReceiveSplit ==
  ASSUME Deployment, IInv, NEW m \in sent, NEW i \in DOMAIN Pack(m), Receive(m, i)
  PROVE  /\ OnTheWay(m, i) /\ UNCHANGED sent
         /\ InvalidSize \/ Accept(Header(m, i), Fragment(m, i))
<1>1. m \in Payloads /\ Len(m) > 0
  BY DEF IInv, TypeOK, NoneEmpty
<1>. QED
  BY <1>1, Received DEF OnTheWay

LEMMA NextKeeps ==
  ASSUME Deployment
  PROVE  IInv /\ [Next]_vars => IInv'
<1>1. SUFFICES ASSUME IInv, [Next]_vars PROVE IInv'
  OBVIOUS
<1>2. CASE UNCHANGED vars
  <2>1. UNCHANGED <<members, oom, sent, result>>
    BY <1>2 DEF vars, members
  <2>2. NoneEmpty' /\ NothingRefused' /\ WildCopyOnlyAfterFailedResize'
    BY <1>1, <2>1 DEF IInv, NoneEmpty, NothingRefused, WildCopyOnlyAfterFailedResize, members
  <2>. QED
    BY <1>1, <2>1, <2>2, MembersKept DEF IInv, TypeOK
<1>3. CASE \E m \in Payloads : PackMessage(m) \/ PackEmpty(m)
  BY <1>1, <1>3, PackKeeps
<1>4. CASE \E m \in sent : \E i \in DOMAIN Pack(m) : Receive(m, i)
  <2>1. PICK m \in sent : \E i \in DOMAIN Pack(m) : Receive(m, i)
    BY <1>4
  <2>2. PICK i \in DOMAIN Pack(m) : Receive(m, i)
    BY <2>1
  <2>3. /\ OnTheWay(m, i) /\ UNCHANGED sent
        /\ InvalidSize \/ Accept(Header(m, i), Fragment(m, i))
    BY <1>1, <2>2, ReceiveSplit
  <2>. QED
    BY <1>1, <2>3, InvalidSizeKeeps, AcceptKeeps
<1>. QED
  BY <1>1, <1>2, <1>3, <1>4 DEF Next

LEMMA Inductive ==
  ASSUME Deployment
  PROVE  Spec => []IInv
BY InitIInv, NextKeeps, PTL DEF Spec

--------------------------------------------------------------------------------
(***************************************************************************)
(* What every state satisfies.                                             *)
(***************************************************************************)

\* The members of an unpacker keep the ranges of their C++ types.
THEOREM TypeCorrect ==
  ASSUME Deployment
  PROVE  Spec => []TypeOK
BY Inductive, PTL DEF IInv

\* No packet that pack() produced is refused while one payload is on the way.
THEOREM PacketsAccepted ==
  ASSUME Deployment
  PROVE  Spec => []NothingRefused
BY Inductive, PTL DEF IInv

\* addPacket() copies past its buffer only if an earlier call's resize threw.
THEOREM CopyStaysInside ==
  ASSUME Deployment
  PROVE  Spec => []WildCopyOnlyAfterFailedResize
BY Inductive, PTL DEF IInv

LEMMA MissingByCount ==
  ASSUME Deployment, IInv
  PROVE  isComplete <=> receivedIndices = 0 .. totalPackages - 1
<1>1. totalPackages \in Nat /\ U32 \in Nat
  BY U32Type DEF IInv, TypeOK
<1>2. IsFiniteSet(0 .. totalPackages - 1) /\ Cardinality(0 .. totalPackages - 1) = totalPackages
  BY <1>1, FS_Interval
<1>3. receivedIndices \subseteq 0 .. totalPackages - 1
      /\ receivedCount = Cardinality(receivedIndices)
  BY DEF IInv, Counted
<1>4. Cardinality(receivedIndices) = totalPackages => receivedIndices = 0 .. totalPackages - 1
  BY <1>2, <1>3, FS_Subset
<1>. QED
  BY <1>2, <1>3, <1>4 DEF isComplete

LEMMA IInvNothingMissing ==
  ASSUME Deployment, IInv
  PROVE  CompleteMeansNothingMissing
<1>1. receivedIndices \subseteq 0 .. totalPackages - 1
  BY DEF IInv, Counted
<1>2. getMissingIndices = {} <=> receivedIndices = 0 .. totalPackages - 1
  BY <1>1 DEF getMissingIndices
<1>. QED
  BY <1>2, MissingByCount DEF CompleteMeansNothingMissing

\* The counters that isComplete() compares agree with the set that
\* getMissingIndices() searches, whatever is mixed, lost, repeated or thrown.
THEOREM CountersAgree ==
  ASSUME Deployment
  PROVE  Spec => []CompleteMeansNothingMissing
<1>1. IInv => CompleteMeansNothingMissing
  BY IInvNothingMissing
<1>. QED
  BY <1>1, Inductive, PTL

LEMMA IInvFragmentsIntact ==
  ASSUME Deployment, IInv
  PROVE  FragmentsIntact
<1>1. SUFFICES ASSUME NEW k \in receivedIndices, NEW m \in sent, Holds(buffer, k, m)
      PROVE  /\ k \in DOMAIN Pack(m)
             /\ SubSeq(buffer, k * MaxPayloadSize + 1,
                       k * MaxPayloadSize + FragmentSize(Len(m), k)) = Fragment(m, k)
  BY DEF IInv, Intact, FragmentsIntact, getReceivedIndices
<1>. DEFINE f == FragmentSize(Len(m), k)
            off == k * MaxPayloadSize
            s == SubSeq(buffer, off + 1, off + f)
<1>2. k \in 0 .. PackageCount(Len(m)) - 1
  BY <1>1 DEF Holds
<1>3. /\ off \in Nat /\ f \in 1 .. MaxPayloadSize /\ MaxPayloadSize \in Nat
  BY <1>2, SentType, FragmentBounds, MaxPayloadType
<1>4. off + f <= Len(buffer) /\ \A d \in 1 .. f : buffer[off + d] = m[off + d]
  BY <1>1 DEF Holds
<1>5. OnTheWay(m, k)
  BY <1>2 DEF OnTheWay
<1>6. /\ Fragment(m, k) \in Seq(Byte) /\ Len(Fragment(m, k)) = f
      /\ \A d \in 1 .. f : Fragment(m, k)[d] = m[off + d]
  BY <1>5, FragmentBytes
<1>7. buffer \in Seq(Byte) /\ Len(buffer) \in Nat
  BY LenProperties DEF IInv, TypeOK
<1>. HIDE DEF f, off
<1>8. /\ s \in Seq(Byte) /\ Len(s) = f
      /\ \A d \in 1 .. f : s[d] = buffer[off + d]
  <2>1. \A b \in off + 1 .. off + f : buffer[b] \in Byte
    BY <1>3, <1>4, <1>7, ElementOfSeq
  <2>2. off + 1 \in Int /\ off + f \in Int
    BY <1>3
  <2>3. /\ s \in Seq(Byte)
        /\ Len(s) = IF off + 1 <= off + f THEN (off + f) - (off + 1) + 1 ELSE 0
        /\ \A d \in 1 .. (off + f) - (off + 1) + 1 : s[d] = buffer[(off + 1) + d - 1]
    BY <2>1, <2>2, SubSeqProperties
  <2>4. (off + f) - (off + 1) + 1 = f /\ off + 1 <= off + f
    BY <1>3
  <2>5. \A d \in 1 .. f : (off + 1) + d - 1 = off + d
    BY <1>3
  <2>. QED
    BY <2>3, <2>4, <2>5
<1>. HIDE DEF s
<1>9. s = Fragment(m, k)
  BY <1>4, <1>6, <1>8, SeqEqual
<1>. QED
  BY <1>2, <1>9 DEF Pack, s, off, f

\* Every index on record stands for a fragment of a packed payload whose bytes are
\* at their place.
THEOREM RecordedFragmentsIntact ==
  ASSUME Deployment
  PROVE  Spec => []FragmentsIntact
<1>1. IInv => FragmentsIntact
  BY IInvFragmentsIntact
<1>. QED
  BY <1>1, Inductive, PTL

LEMMA IInvCompleteIsOriginal ==
  ASSUME Deployment, IInv
  PROVE  CompleteIsOriginal
<1>1. SUFFICES ASSUME NEW m \in sent, sent = {m}, totalSize # 0, isComplete
               PROVE  buffer = m
  BY DEF CompleteIsOriginal, getPayload
<1>2. totalSize = Len(m) /\ totalPackages = PackageCount(Len(m))
  BY <1>1 DEF IInv, Adopted
<1>3. /\ m \in Seq(Byte) /\ Countable(Len(m)) /\ PackageCount(Len(m)) \in 1 .. U32 - 1
      /\ U32 \in Nat
  BY SentType, U32Type
<1>4. receivedIndices = 0 .. PackageCount(Len(m)) - 1
  BY <1>1, <1>2, MissingByCount
<1>5. Len(buffer) = Len(m)
  <2>1. 0 \in receivedIndices
    BY <1>3, <1>4
  <2>. QED
    BY <1>2, <2>1 DEF IInv, BufferSized, Resized
<1>6. ASSUME NEW b \in 1 .. Len(m) PROVE buffer[b] = m[b]
  <2>1. PICK i \in 0 .. PackageCount(Len(m)) - 1 :
          \E d \in 1 .. FragmentSize(Len(m), i) : b = i * MaxPayloadSize + d
    BY <1>3, Covered
  <2>2. PICK d \in 1 .. FragmentSize(Len(m), i) : b = i * MaxPayloadSize + d
    BY <2>1
  <2>3. Holds(buffer, i, m)
    BY <1>1, <1>4 DEF IInv, Intact
  <2>. QED
    BY <2>2, <2>3 DEF Holds
<1>7. buffer \in Seq(Byte)
  BY DEF IInv, TypeOK
<1>. QED
  BY <1>3, <1>5, <1>6, <1>7, SeqEqual

\* In whatever order the packets of a payload arrive and however often, once
\* something arrived and isComplete() holds, getPayload() is the payload.
THEOREM CompletePayloadIsOriginal ==
  ASSUME Deployment
  PROVE  Spec => []CompleteIsOriginal
<1>1. IInv => CompleteIsOriginal
  BY IInvCompleteIsOriginal
<1>. QED
  BY <1>1, Inductive, PTL

--------------------------------------------------------------------------------
(***************************************************************************)
(* What no step does.                                                      *)
(***************************************************************************)

\* A step leaves a used unpacker alone, or stores a fragment it does not have yet.
LEMMA StepOfUsed ==
  ASSUME Deployment, IInv, [Next]_vars, totalSize # 0
  PROVE  \/ UNCHANGED members
         \/ \E m \in sent : \E i \in 0 .. PackageCount(Len(m)) - 1 :
              /\ StoreFragment(Header(m, i), Fragment(m, i))
              /\ UNCHANGED <<totalSize, totalPackages>>
<1>1. CASE UNCHANGED vars
  BY <1>1 DEF vars, members
<1>2. CASE \E m \in Payloads : PackMessage(m) \/ PackEmpty(m)
  BY <1>2 DEF PackMessage, PackEmpty
<1>3. CASE \E m \in sent : \E i \in DOMAIN Pack(m) : Receive(m, i)
  <2>1. PICK m \in sent : \E i \in DOMAIN Pack(m) : Receive(m, i)
    BY <1>3
  <2>2. PICK i \in DOMAIN Pack(m) : Receive(m, i)
    BY <2>1
  <2>. DEFINE h == Header(m, i)
  <2>3. OnTheWay(m, i) /\ (InvalidSize \/ Accept(h, Fragment(m, i)))
    BY <2>2, ReceiveSplit
  <2>. HIDE DEF h
  <2>4. ~Adopts
    BY DEF Adopts
  <2>5. CASE InvalidSize \/ WildCopy(h) \/ ResizeFails(h)
    BY <2>4, <2>5 DEF InvalidSize, WildCopy, ResizeFails
  <2>6. CASE OutOfRange(h) \/ InsertFails(h) \/ Duplicate(h)
    <3>1. Adopt(h)
      BY <2>6 DEF OutOfRange, InsertFails, Duplicate
    <3>. QED
      BY <2>4, <3>1 DEF Adopt, AdoptSizes, SizeFrom, PackagesFrom, BufferFrom, IndicesFrom,
                        CountFrom, members
  <2>7. CASE StoreFragment(h, Fragment(m, i))
    <3>1. UNCHANGED <<totalSize, totalPackages>>
      BY <2>4, <2>7 DEF StoreFragment, AdoptSizes, SizeFrom, PackagesFrom
    <3>. QED
      BY <2>3, <2>7, <3>1 DEF OnTheWay, h
  <2>. QED
    BY <2>3, <2>5, <2>6, <2>7 DEF Accept
<1>. QED
  BY <1>1, <1>2, <1>3 DEF Next

LEMMA StepStays ==
  ASSUME Deployment, IInv, [Next]_vars, NEW k \in receivedIndices
  PROVE  /\ k \in receivedIndices'
         /\ \A b \in Slot(k) \cap DOMAIN buffer : buffer'[b] = buffer[b]
<1>1. totalSize # 0
  BY DEF IInv, Adopted
<1>2. CASE UNCHANGED members
  BY <1>2 DEF members
<1>3. ASSUME NEW m \in sent, NEW i \in 0 .. PackageCount(Len(m)) - 1,
             StoreFragment(Header(m, i), Fragment(m, i))
      PROVE  /\ k \in receivedIndices'
             /\ \A b \in Slot(k) \cap DOMAIN buffer : buffer'[b] = buffer[b]
  <2>1. OnTheWay(m, i)
    BY DEF OnTheWay
  <2>. DEFINE f == FragmentSize(Len(m), i)
              off == i * MaxPayloadSize
              koff == k * MaxPayloadSize
  <2>2. BufferFrom(Header(m, i)) = buffer
    BY <2>1, AfterAdopting
  <2>3. /\ \A b \in 1 .. Len(buffer) :
             buffer'[b] = IF b \in off + 1 .. off + f THEN m[b] ELSE buffer[b]
        /\ i \notin receivedIndices /\ receivedIndices' = receivedIndices \cup {i}
    BY <1>3, <2>1, <2>2, Stored
  <2>4. /\ off \in Nat /\ f \in 1 .. MaxPayloadSize /\ i \in Nat /\ MaxPayloadSize \in Nat
    BY <2>1, Placed, MaxPayloadType
  <2>5. k \in Nat /\ koff \in Nat
    BY <2>4, U32Type DEF IInv, TypeOK
  <2>6. off + MaxPayloadSize <= koff \/ koff + MaxPayloadSize <= off
    <3>1. k < i \/ i < k
      BY <2>3, <2>4, <2>5
    <3>. QED
      BY <2>4, <2>5, <3>1, SlotsApart
  <2>7. DOMAIN buffer = 1 .. Len(buffer)
    BY LenProperties DEF IInv, TypeOK
  <2>8. Slot(k) = koff + 1 .. koff + MaxPayloadSize
    <3>1. (k + 1) * MaxPayloadSize = koff + MaxPayloadSize
      BY <2>4, <2>5, SMT
    <3>. QED
      BY <3>1 DEF Slot
  <2>. HIDE DEF f, off, koff
  <2>9. \A b \in Slot(k) : b \notin off + 1 .. off + f
    BY <2>4, <2>5, <2>6, <2>8
  <2>. QED
    BY <2>3, <2>7, <2>9
<1>. QED
  BY <1>1, <1>2, <1>3, StepOfUsed

\* No step takes back a recorded fragment or changes its bytes.
THEOREM FragmentsStay ==
  ASSUME Deployment
  PROVE  Spec => StoredFragmentsStay
<1>1. IInv /\ [Next]_vars =>
        [\A k \in receivedIndices :
           /\ k \in receivedIndices'
           /\ \A b \in Slot(k) \cap DOMAIN buffer : buffer'[b] = buffer[b]]_vars
  BY StepStays
<1>. QED
  BY <1>1, Inductive, PTL DEF Spec, StoredFragmentsStay

LEMMA StepIsFinal ==
  ASSUME Deployment, IInv, [Next]_vars, totalSize # 0, isComplete
  PROVE  isComplete' /\ getPayload' = getPayload
<1>1. CASE UNCHANGED members
  BY <1>1 DEF members, isComplete, getPayload
<1>2. ASSUME NEW m \in sent, NEW i \in 0 .. PackageCount(Len(m)) - 1,
             StoreFragment(Header(m, i), Fragment(m, i)),
             UNCHANGED <<totalSize, totalPackages>>
      PROVE  FALSE
  <2>1. OnTheWay(m, i)
    BY DEF OnTheWay
  <2>2. i \notin receivedIndices /\ receivedIndices' = receivedIndices \cup {i}
    BY <1>2, <2>1, Stored
  <2>3. IInv'
    BY NextKeeps
  <2>4. i \in 0 .. totalPackages - 1
    BY <1>2, <2>2, <2>3 DEF IInv, Counted
  <2>. QED
    BY <2>2, <2>4, MissingByCount
<1>. QED
  BY <1>1, <1>2, StepOfUsed

\* A complete unpacker stays complete and keeps its payload, whatever arrives late.
THEOREM CompleteStays ==
  ASSUME Deployment
  PROVE  Spec => CompleteIsFinal
<1>1. IInv /\ [Next]_vars =>
        [totalSize # 0 /\ isComplete => isComplete' /\ getPayload' = getPayload]_vars
  BY StepIsFinal
<1>. QED
  BY <1>1, Inductive, PTL DEF Spec, CompleteIsFinal
================================================================================
