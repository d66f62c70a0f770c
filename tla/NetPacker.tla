------------------------------- MODULE NetPacker -------------------------------
(***************************************************************************)
(* NetPacker::pack (network/NetPacker.h): a payload is cut into fragments  *)
(* of MaxPayloadSize bytes, the last one shorter, and each fragment leaves *)
(* in a packet whose header names the payload's size, the number of        *)
(* fragments, the index of this one and its size.                          *)
(***************************************************************************)
EXTENDS ByteOrder, Sequences

CONSTANTS MTU,          \* bytes of a full packet (1500)
          SOF,          \* the header marker (0xCE9A)
          SenderOrder   \* byte order of the host that packs

\* sizeof(NetPackageHeader), packed: sof, totalPayloadSize, totalPackageNum,
\* currentPackageNum, currentPayloadSize.
HeaderSize == 2 + 8 + 4 + 4 + 4

MaxPayloadSize == MTU - HeaderSize

\* The marker's two bytes differ, as those of 0xCE9A do.
ASSUME NetPackerAssumption ==
  /\ MTU \in Nat /\ MTU > HeaderSize /\ MaxPayloadSize < U32
  /\ SOF \in 0 .. U16 - 1 /\ Swap16(SOF) # SOF
  /\ SenderOrder \in Orders

\* Mutant: the division is not rounded up.
RoundedDown(n) == IF n < MaxPayloadSize THEN 1 ELSE n \div MaxPayloadSize

\* Mutant: the count is kept in a uint16_t.
NarrowCount(n) == ((n + MaxPayloadSize - 1) \div MaxPayloadSize) % U16

\* Number of packets of a payload of n bytes, as the uint32_t pack computes:
\* the cast drops what does not fit.  n + MaxPayloadSize - 1 itself cannot wrap,
\* since the size of a vector of bytes is below half of size_t's range.
PackageCount(n) == ((n + MaxPayloadSize - 1) \div MaxPayloadSize) % U32

\* Bytes of fragment i of a payload of n bytes.
FragmentSize(n, i) ==
  LET remaining == n - i * MaxPayloadSize
  IN  IF remaining > MaxPayloadSize THEN MaxPayloadSize ELSE remaining

Fragment(m, i) ==
  SubSeq(m, i * MaxPayloadSize + 1, i * MaxPayloadSize + FragmentSize(Len(m), i))

\* The packet of fragment i: every integer but sof is converted to network
\* order, then the header is copied byte by byte.  size is packet.size().
Packet(m, i) ==
  [ sof                |-> Image16(SenderOrder, SOF),
    totalPayloadSize   |-> Image64(SenderOrder, to_network64(SenderOrder, Len(m))),
    totalPackageNum    |-> Image32(SenderOrder, to_network32(SenderOrder, PackageCount(Len(m)))),
    currentPackageNum  |-> Image32(SenderOrder, to_network32(SenderOrder, i)),
    currentPayloadSize |-> Image32(SenderOrder, to_network32(SenderOrder, FragmentSize(Len(m), i))),
    data               |-> Fragment(m, i),
    size               |-> HeaderSize + FragmentSize(Len(m), i) ]

\* The packets of a payload, numbered from 0; pack refuses an empty payload.
Pack(m) == [i \in 0 .. PackageCount(Len(m)) - 1 |-> Packet(m, i)]
================================================================================
