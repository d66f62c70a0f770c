------------------------------ MODULE NetUnpacker ------------------------------
(***************************************************************************)
(* One NetUnpacker object (network/NetPacker.h) and the packets that may   *)
(* reach it.                                                               *)
(*                                                                         *)
(* The environment packs payloads (PackMessage) and hands any packet of a  *)
(* packed payload to addPacket, in any order and any number of times: a    *)
(* packet that is never handed over is lost, one handed over twice was     *)
(* duplicated.  The transport may also cut a packet short.                 *)
(*                                                                         *)
(* addPacket is one call but not one outcome: it changes members, then     *)
(* checks, then changes more, and can throw in between.  Every outcome is  *)
(* an action of its own.                                                   *)
(***************************************************************************)
EXTENDS NetPacker, FiniteSets

CONSTANTS ReceiverOrder,  \* byte order of the receiving host
          SizeMod,        \* one more than its largest size_t
          Payloads,       \* the payloads the environment may give to pack
          Streams,        \* the sets of payloads that may meet in one unpacker
          CutSizes,       \* the lengths to which the transport may cut a packet
          MaxOOM          \* bound on the number of failed allocations

ASSUME NetUnpackerAssumption ==
  /\ ReceiverOrder \in Orders
  /\ SizeMod \in {U32, U64}
  /\ Payloads \subseteq Seq(Byte)
  /\ Streams \subseteq SUBSET Payloads
  /\ CutSizes \subseteq Nat
  /\ MaxOOM \in Nat

VARIABLES
  totalSize, totalPackages, receivedCount, buffer, receivedIndices, \* members
  sent,     \* the payloads packed so far
  result,   \* how the last call ended: "ok", or the exception, or "crash"
  oom       \* allocations that failed so far

members == <<totalSize, totalPackages, receivedCount, buffer, receivedIndices>>
vars == <<totalSize, totalPackages, receivedCount, buffer, receivedIndices,
          sent, result, oom>>

Results == { "ok", "payload size error", "invalid packet size",
             "invalid packet header", "payload out of range", "bad_alloc", "crash" }

TypeOK ==
  /\ totalSize \in 0 .. SizeMod - 1
  /\ totalPackages \in 0 .. U32 - 1
  /\ receivedCount \in 0 .. U32 - 1
  /\ buffer \in Seq(Byte)
  /\ receivedIndices \subseteq 0 .. U32 - 1
  /\ sent \subseteq Payloads
  /\ result \in Results
  /\ oom \in 0 .. MaxOOM

--------------------------------------------------------------------------------
(***************************************************************************)
(* Reading a packet.                                                       *)
(***************************************************************************)

\* The header's fields as integers of the receiving host.  totalPayloadSize is
\* a uint64_t stored into a size_t.
deserialize(p) ==
  [ sof                |-> Image16(ReceiverOrder, p.sof),
    totalPayloadSize   |-> from_network64(ReceiverOrder, Image64(ReceiverOrder, p.totalPayloadSize)) % SizeMod,
    totalPackageNum    |-> from_network32(ReceiverOrder, Image32(ReceiverOrder, p.totalPackageNum)),
    currentPackageNum  |-> from_network32(ReceiverOrder, Image32(ReceiverOrder, p.currentPackageNum)),
    currentPayloadSize |-> from_network32(ReceiverOrder, Image32(ReceiverOrder, p.currentPayloadSize)) ]

HasHeader(p) == p.size >= HeaderSize

\* Mutant: a complete unpacker starts on the next payload by itself.
AdoptsWhenComplete == totalSize = 0 \/ receivedCount = totalPackages

\* The members as the first packet, and only it, (re)initialises them.
Adopts == totalSize = 0

SizeFrom(h)     == IF Adopts THEN h.totalPayloadSize ELSE totalSize
PackagesFrom(h) == IF Adopts THEN h.totalPackageNum ELSE totalPackages
CountFrom(h)    == IF Adopts THEN 0 ELSE receivedCount
IndicesFrom(h)  == IF Adopts THEN {} ELSE receivedIndices

\* std::vector::resize: keeps what is there, fills with zeros.
resize(b, n) == [k \in 1 .. n |-> IF k <= Len(b) THEN b[k] ELSE 0]

\* Mutant: the buffer is cleared for every packet.
ClearedBuffer(h) == resize(<<>>, SizeFrom(h))

BufferFrom(h) == IF Adopts THEN resize(buffer, h.totalPayloadSize) ELSE buffer

\* Mutant: the fragment's own size is taken for that of the others.
OffsetBySize(h) == (h.currentPackageNum * h.currentPayloadSize) % SizeMod

\* size_t arithmetic.
Offset(h) == (h.currentPackageNum * MaxPayloadSize) % SizeMod

\* Mutants: < for <=, and the fragment's size left out.
InRangeStrictly(h) == (Offset(h) + h.currentPayloadSize) % SizeMod < SizeFrom(h)
OffsetInRange(h) == Offset(h) <= SizeFrom(h)

InRange(h) == (Offset(h) + h.currentPayloadSize) % SizeMod <= SizeFrom(h)

\* Mutant: the fragment is copied before the check for duplicates.
AlwaysNew(h) == TRUE

\* receivedIndices.insert(currentIndex).second
IsNew(h) == h.currentPackageNum \notin IndicesFrom(h)

\* Whether the memcpy of a fragment stays inside the buffer.
Fits(h) == Offset(h) + h.currentPayloadSize <= Len(BufferFrom(h))

\* buffer with the fragment's bytes copied to their place.
Copy(h, bytes) ==
  [k \in 1 .. Len(BufferFrom(h)) |->
     IF k \in Offset(h) + 1 .. Offset(h) + h.currentPayloadSize
     THEN bytes[k - Offset(h)]
     ELSE BufferFrom(h)[k]]

--------------------------------------------------------------------------------
(***************************************************************************)
(* addPacket.                                                              *)
(***************************************************************************)

AdoptSizes(h) == totalSize' = SizeFrom(h) /\ totalPackages' = PackagesFrom(h)

Adopt(h) ==
  /\ AdoptSizes(h)
  /\ buffer' = BufferFrom(h)
  /\ receivedIndices' = IndicesFrom(h)
  /\ receivedCount' = CountFrom(h)

\* A packet shorter than a header: nothing is read of it.
InvalidSize ==
  /\ result' = "invalid packet size"
  /\ UNCHANGED <<members, oom>>

InvalidHeader ==
  /\ result' = "invalid packet header"
  /\ UNCHANGED <<members, oom>>

\* buffer.resize throws bad_alloc: both sizes are set already, the rest is not.
ResizeFails(h) ==
  /\ Adopts
  /\ oom < MaxOOM /\ oom' = oom + 1
  /\ AdoptSizes(h)
  /\ result' = "bad_alloc"
  /\ UNCHANGED <<buffer, receivedIndices, receivedCount>>

\* The range check comes after the first packet's sizes were adopted.
OutOfRange(h) ==
  /\ ~InRange(h)
  /\ Adopt(h)
  /\ result' = "payload out of range"
  /\ UNCHANGED oom

\* Mutant: the handler takes back a count that was not made yet.
InsertFailsAndUncounts(h) ==
  /\ InRange(h) /\ IsNew(h)
  /\ oom < MaxOOM /\ oom' = oom + 1
  /\ AdoptSizes(h) /\ buffer' = BufferFrom(h) /\ receivedIndices' = IndicesFrom(h)
  /\ receivedCount' = CountFrom(h) - 1
  /\ result' = "bad_alloc"

\* receivedIndices.insert throws bad_alloc: nothing is inserted.
InsertFails(h) ==
  /\ InRange(h) /\ IsNew(h)
  /\ oom < MaxOOM /\ oom' = oom + 1
  /\ Adopt(h)
  /\ result' = "bad_alloc"

\* Mutant: a duplicate is counted.
CountedDuplicate(h) ==
  /\ InRange(h) /\ ~IsNew(h)
  /\ AdoptSizes(h) /\ buffer' = BufferFrom(h) /\ receivedIndices' = IndicesFrom(h)
  /\ receivedCount' = (CountFrom(h) + 1) % U32
  /\ result' = "ok"
  /\ UNCHANGED oom

Duplicate(h) ==
  /\ InRange(h) /\ ~IsNew(h)
  /\ Adopt(h)
  /\ result' = "ok"
  /\ UNCHANGED oom

\* What memcpy finds behind the header: the packet's length is not compared with
\* currentPayloadSize, so the bytes past its end are whatever memory holds.
Copied(h, data) ==
  { [k \in 1 .. h.currentPayloadSize |-> IF k <= Len(data) THEN data[k] ELSE stray[k]] :
      stray \in [Len(data) + 1 .. h.currentPayloadSize -> Byte] }

StoreFragment(h, data) ==
  /\ InRange(h) /\ IsNew(h) /\ Fits(h)
  /\ AdoptSizes(h)
  /\ \E bytes \in Copied(h, data) : buffer' = Copy(h, bytes)
  /\ receivedIndices' = IndicesFrom(h) \cup {h.currentPackageNum}
  /\ receivedCount' = (CountFrom(h) + 1) % U32
  /\ result' = "ok"
  /\ UNCHANGED oom

\* The memcpy leaves the buffer: the program's behaviour is undefined from here.
WildCopy(h) ==
  /\ InRange(h) /\ IsNew(h) /\ ~Fits(h)
  /\ result' = "crash"
  /\ UNCHANGED <<members, oom>>

Accept(h, data) ==
  \/ ResizeFails(h) \/ OutOfRange(h) \/ InsertFails(h)
  \/ Duplicate(h) \/ StoreFragment(h, data) \/ WildCopy(h)

addPacket(p) ==
  \/ ~HasHeader(p) /\ InvalidSize
  \/ /\ HasHeader(p)
     /\ \E h \in {deserialize(p)} :
          \/ h.sof # SOF /\ InvalidHeader
          \/ h.sof = SOF /\ Accept(h, p.data)

--------------------------------------------------------------------------------
(***************************************************************************)
(* The other operations.                                                   *)
(***************************************************************************)

isComplete == receivedCount = totalPackages

\* getPayload returns the buffer, and throws unless isComplete.
getPayload == buffer

getReceivedIndices == receivedIndices

\* Mutant: the search starts at 1.
MissingFromOne == {i \in 1 .. totalPackages - 1 : i \notin receivedIndices}

\* The vector getMissingIndices returns, as a set (it is in ascending order).
getMissingIndices == {i \in 0 .. totalPackages - 1 : i \notin receivedIndices}

--------------------------------------------------------------------------------
(***************************************************************************)
(* The environment.                                                        *)
(***************************************************************************)

PackMessage(m) ==
  /\ Len(m) > 0
  /\ m \notin sent /\ sent \cup {m} \in Streams
  /\ sent' = sent \cup {m}
  /\ result' = "ok"
  /\ UNCHANGED <<members, oom>>

\* pack throws on an empty payload.
PackEmpty(m) ==
  /\ Len(m) = 0
  /\ result' = "payload size error"
  /\ UNCHANGED <<members, sent, oom>>

Cut(p, n) == [p EXCEPT !.size = n, !.data = SubSeq(p.data, 1, n - HeaderSize)]

\* What may arrive of packet p.
Arrivals(p) == {p} \cup {Cut(p, n) : n \in {c \in CutSizes : c < p.size}}

Init ==
  /\ totalSize = 0 /\ totalPackages = 0 /\ receivedCount = 0
  /\ buffer = <<>> /\ receivedIndices = {}
  /\ sent = {} /\ result = "ok" /\ oom = 0

Receive(m, i) ==
  /\ \E p \in Arrivals(Pack(m)[i]) : addPacket(p)
  /\ UNCHANGED sent

Next ==
  /\ result # "crash"
  /\ \/ \E m \in Payloads : PackMessage(m) \/ PackEmpty(m)
     \/ \E m \in sent : \E i \in DOMAIN Pack(m) : Receive(m, i)

Spec == Init /\ [][Next]_vars

--------------------------------------------------------------------------------
(***************************************************************************)
(* What a correct unpacker guarantees.                                     *)
(***************************************************************************)

\* The bytes of the buffer that belong to fragment k.
Slot(k) == k * MaxPayloadSize + 1 .. (k + 1) * MaxPayloadSize

\* When the packets of one payload only reached the unpacker, in any order and
\* however often, and isComplete() says so after the first of them, getPayload()
\* is that payload byte for byte.
CompleteIsOriginal ==
  \A m \in sent :
    (sent = {m} /\ totalSize # 0 /\ isComplete) => getPayload = m

\* isComplete(), which compares two counters, and getMissingIndices(), which looks
\* at the set of indices, never disagree, whatever payloads' packets were mixed.
CompleteMeansNothingMissing == isComplete <=> getMissingIndices = {}

\* Every index addPacket recorded stands for a fragment some pack() call produced,
\* whose bytes are in the buffer at its place: no packet of another fragment or of
\* another payload ever writes over it.
FragmentsIntact ==
  \A k \in getReceivedIndices : \E m \in sent :
    /\ k \in DOMAIN Pack(m)
    /\ SubSeq(buffer, k * MaxPayloadSize + 1,
              k * MaxPayloadSize + FragmentSize(Len(m), k)) = Fragment(m, k)

\* As long as one payload only is on the way, addPacket() never throws over the
\* content of a packet that pack() produced and that arrives whole.
NothingRefused ==
  (\A m, n \in sent : m = n) =>
     result \notin {"invalid packet header", "payload out of range"}

\* addPacket()'s memcpy leaves the buffer only after the resize of the first packet
\* threw and left totalSize set with no buffer behind it.
WildCopyOnlyAfterFailedResize ==
  result = "crash" => oom > 0 /\ Len(buffer) < totalSize

\* No call takes back a fragment or touches the bytes of a stored one, also a call
\* that throws half-way.
StoredFragmentsStay ==
  [][\A k \in receivedIndices :
       /\ k \in receivedIndices'
       /\ \A b \in Slot(k) \cap DOMAIN buffer : buffer'[b] = buffer[b]]_vars

\* Once complete, an unpacker is final: late duplicates and packets of other
\* payloads leave what getPayload() returns alone.
CompleteIsFinal ==
  [][totalSize # 0 /\ isComplete =>
       isComplete' /\ getPayload' = getPayload]_vars
================================================================================
