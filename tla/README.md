# CC_Tools in TLA+

CC_Tools is a small C++17 utility library. Its own code is `src/main/src/include/cc_tools`
and `src/main/src/src`; `3rd` directories hold vendored libraries. This directory models the
parts that keep state or carry an algorithm, model-checks them with TLC on small instances
and proves their safety properties with TLAPS for every value of the constants.

## Inventory

| Component | State | Operations | Interacts with | What is hard | What makes it correct |
|---|---|---|---|---|---|
| `network/NetPacker.h`: `NetPacker` | none | `pack` | its packets are read by `NetUnpacker` on another host | widths of the counters, byte order of two hosts | the packets of a payload cover it, and the header is read as it was meant |
| `network/NetPacker.h`: `NetUnpacker` | `totalSize`, `totalPackages`, `receivedCount`, `buffer`, `receivedIndices` | `addPacket`, `isComplete`, `getPayload`, `getReceivedIndices`, `getMissingIndices` | packets in any order from a transport; a caller that repeats what is missing | loss, duplication, reordering, packets of two payloads, exceptions between two assignments | a complete unpacker holds the payload; counters and index set agree; a stored fragment stays |
| `utils/IdAllocator` | `nextId_`, `freeIds_`, `allocated_`, `mutex_` | `allocate`, `release` | shared by threads; owned by `NetworkBase` | interleaving, exceptions under the lock, exhaustion of `int` | no id has two owners, none is forgotten, the mutex is given back |
| `network/NetworkBase` | `name_`, `id_`, `idAllocator_` | constructor (`launch` and `shutdown` are declared but defined nowhere) | calls `IdAllocator::allocate` | order of construction of the members | `id_` is an id nobody else gets |
| `utils/MathUtils` | none | `reduceMaxValues`, `strechlim`, `deg2rad`, `rad2deg` | – | rounding of `float` at boundaries, division by zero | as many values are cut off as the percentile says; the limits are the quantiles of the data and lie inside them |
| `utils/StringUtils` | none | `trim`, `split`, `upperCase`, `startsWith`, `endsWith`, `equal`, `contain`, `isNumber`, `u8ToLocal` | – | termination, empty arguments | joining what `split` returns gives the input; each call returns |
| `utils/TimeUtils` | the C library's static `tm` | `currentDatetimeStr`, `isBefore` | threads | a buffer shared behind the interface; a fixed buffer of 64 bytes | the text is the time the caller asked at |
| `utils/PathUtils` | the file system's | path queries | vendored `filesystem.hpp` | forwarding | – |
| `utils/LogUtils` | the logger it creates: a file a day, the next rotation, a mutex | `createLogger`, then `log` by any threads | vendored spdlog | midnight between two reads of the clock, entries that wait over midnight, a file that cannot be opened or written | an entry is in one file, of its day; a loss is reported; a call returns |

The whole behaviour of the library in use is: a sender calls `NetPacker::pack` and hands the
packets to some transport; a receiver feeds what arrives to one `NetUnpacker`, asks
`isComplete` and `getMissingIndices`, and takes `getPayload`. Transport and retransmission are
not part of the library.

## Modules

| Module | Models | Extends |
|---|---|---|
| `ByteOrder` | integers in memory and on the wire: `htonl`, `htobe64`, their inverses, and `memcpy` of a packed header | |
| `NetPacker` | `NetPacker::pack` and the header | `ByteOrder` |
| `NetUnpacker` | one `NetUnpacker` and the packets that may reach it | `NetPacker` |
| `MCNetUnpacker` | payloads, streams and cuts for TLC | `NetUnpacker` |
| `MessageDelivery` | abstract: a submitted message is delivered, once, unchanged | |
| `NetTransfer` | sender, lossy transport, unpacker and a caller that asks for missing fragments; implements `MessageDelivery` | `NetUnpacker` |
| `MCNetTransfer` | payloads for TLC | `NetTransfer` |
| `UniqueIds` | abstract: ids that belong to one caller at a time | |
| `IdAllocator` | `IdAllocator` and threads that call it; implements `UniqueIds` | |
| `MCIdAllocator` | the stray ids for TLC | `IdAllocator` |
| `NetworkBase` | the constructor of `NetworkBase`, then the use of its `idAllocator_` | `IdAllocator` |
| `MCNetworkBase` | careless callers for TLC | `NetworkBase` |
| `TimeUtils` | `currentDatetimeStr` called by threads | |
| `MCTimeUtils` | a clock around midnight for TLC | `TimeUtils` |
| `StringUtils` | the loop of `split`; `contain`, `startsWith`, `endsWith`, `trim`, `isNumber` | |
| `MCStringUtils` | strings, delimiters and texts for TLC | `StringUtils` |
| `SmallFloat` | floating-point arithmetic with a mantissa of a few bits | |
| `MathUtils` | a call of `reduceMaxValues` or of `strechlim` | `SmallFloat` |
| `MCMathUtils` | arrays, percentiles and tolerances for TLC | `MathUtils` |
| `LogUtils` | `createLogger`, and threads that log with what it returns | |
| `MCLogUtils` | the module of the run | `LogUtils` |
| `NaturalFacts` | lemmas that several of the next modules need: products, least and greatest elements, induction, recursive functions | |
| `NetUnpackerProofs`, `NetTransferProofs`, `IdAllocatorProofs`, `TimeUtilsProofs`, `StringUtilsProofs`, `MathUtilsProofs`, `LogUtilsProofs` | theorems and their proofs; `NetUnpackerProofs` has those about the header of `NetPacker`, `IdAllocatorProofs` those about `NetworkBase` | the module they are about |

An operator introduced by a comment `Mutant:` is a plausible mistake in the definition that
follows it. It is used by nothing in the models; putting it in that definition's place
must make TLC find a property violated, which shows that the property is about that code.

### NetUnpacker

The variables `totalSize`, `totalPackages`, `receivedCount`, `buffer` and `receivedIndices`
are the members of the class. `sent` is the set of payloads that were packed, `result` how
the last call ended and `oom` how many allocations failed so far.

`addPacket` is one action of `Next` with one disjunct per outcome, because the code changes
members before it is done checking:

| Code (`NetPacker.h`) | Disjunct |
|---|---|
| 125–127 throws "invalid packet size" | `InvalidSize` |
| 132–134 throws "invalid packet header" | `InvalidHeader` |
| 139 `resize` throws after the sizes were set | `ResizeFails` |
| 148–150 throws "payload out of range", after 136–142 adopted the sizes | `OutOfRange` |
| 153 `insert` throws | `InsertFails` |
| 153 the index is known | `Duplicate` |
| 153–158 the index is new | `StoreFragment` |
| 154 `memcpy` past the end of `buffer` | `WildCopy`, after which nothing is specified |

`Adopts` is line 136; `SizeFrom`, `PackagesFrom`, `CountFrom`, `IndicesFrom` and `BufferFrom`
are the members after lines 136–142. A packet is a record of its header fields, each as the
integer its bytes spell most significant byte first, its fragment and its size. `deserialize`
applies the `memcpy` and the conversions of the receiving host. Any packet of any payload in
`sent` may be received at any time, so loss, duplication and reordering need no action of
their own. `Streams` says which payloads may meet in one unpacker, and `CutSizes` to
what length a transport may cut a packet. `memcpy` of a packet cut inside its fragment reads
past it: the missing bytes are arbitrary (`Copied`).

Integers have the widths of the code with `Radix` values to a byte: `U32` and `U64` are one
more than the largest `uint32_t` and `uint64_t`, and `SizeMod` is `U32` or `U64`, after the
receiver's `size_t`.

### NetTransfer

`network` is a set of packets: what is in it arrives in any order, `Deliver` may leave the
packet in it (duplication) and `Lose` drops one. `Repeat` and `StartOver` are the least a
program around the library must do: repeat what `getMissingIndices` names, and
start over while nothing was received at all, because an unpacker that saw no packet does
not know what is missing. They are modelled from the interface and are not in the repository.

### IdAllocator

Every statement that touches a member is a step of its thread (`pc`, and the local `id`), and
`Lock`/`Unlock` model the `lock_guard`; so the mutex, and not the model, makes calls atomic.
`freeIds` counts the entries of each id in the heap. `Insert` and `Push` allocate memory and
have a twin that throws (`InsertThrows`, `PushThrows`): the id is then in neither
container, the ghost variable `lost` keeps it, and the guard unlocks. `held` is the ghost
variable of who owns which id. `PickOverflow` is `nextId_++` on `INT_MAX`, which is undefined;
nothing happens after it. Callers release what they own, and any id of `Strays` whether
they own it or not. They are `Careful` when no stray id is one that may be handed out;
careless ones may release an id twice, and if it was handed out again in between it
gets two owners, which no allocator could prevent whose `release` is not told who calls.

### NetworkBase

`stage` is how far the constructor has come. `id_` is declared before `idAllocator_`
(`NetworkBase.h:30-31`), so `InitId` calls `allocate` on storage that is no object yet: its
outcome is a crash, or anything in `id_` and in the storage (`BaseInit` lets
that hold anything before, too). `InitAllocator` is the constructor of `IdAllocator`, which
then writes every member, and `Use` is every step of `IdAllocator`, by the threads of the program.

### TimeUtils

`shared` is the `struct tm` behind `std::localtime`. A call reads the clock (`Now`), writes
the fields of `shared` one by one in any order (`LocaltimeField`), copies them one by one (`CopyField`)
and formats its copy (`Strftime`). Nothing in the code orders the threads, so every
interleaving is possible. `Strftime` leaves the buffer unspecified when the text does not fit. The
ghost variable `others` holds the times read by the calls that overlap a thread's own.

### StringUtils

A string is a sequence of characters. `split` is one step per turn of its loop: `CutPart` (lines
57–60), `LastPart` and, when memory is full, `PushThrows`. The functions without a
loop of their own are operators on the string: `trim` is the two `erase` of lines 48–49 with
`npos + 1` wrapping to 0, and `isNumber` the two reads of the stream, for which `Takes`,
`Converts` and `SkipBlanks` describe what `operator>>` accepts, with `e` or `E` in front of an exponent. These
last two functions were compiled and compared with the operators on the 37449 texts of the run: they agree on
every one. `npos` is the largest
`size_t`, longer than any string. Numbers beyond the range of `double`, for which the read fails, are left out.

### MathUtils

`SmallFloat` rounds as IEEE 754 does, to the nearest number and to the even one of two, but
with `Precision` bits of mantissa and no exponent limits. Numbers are integers in units of `2^-Point`. The
behaviour that depends on the mantissa's length happens at `2^Precision` then, in place of `2^24`.
`reduceMaxValues` clips element by element (`Clip`), since the array is the caller's;
`Sorted(b, n)` is the element of rank `n`, which is all the code takes from its sorted copy. `Cap` reads any value when
the index is behind the end. `strechlim` changes nothing outside itself and is one
step, `FindLimits`, composed of the operators for its four loops. The sums of the cumulated histogram are rounded in
the code's order. Negative data, infinities and NaN are not modelled.

### LogUtils

`createLogger` makes a console sink and a spdlog `daily_file_sink`; how the logger behaves is
spdlog's code, and the lines that were modelled are mapped. The clock ticks at any moment; midnight is
each multiple of `DayLength`.

| Code | Actions |
|---|---|
| `daily_file_sink` constructor (90–93) | `CreateFile`, `FirstRotation` |
| `logger::log_`: the entry with its time | `Log` |
| `sink_it_`: first the console, then the file | `Console`, `Lock` |
| `daily_file_sink::sink_it_` (107–113): no rotation | `KeepFile` |
| rotation: close, open, next rotation time | `Close`, `Rotate`, `NextRotation` |
| the open throws, the guard unlocks, `logger::sink_it_` catches and reports | `RotateThrows` |
| `file_helper::write`, with a file or without | `Write` |
| a short `fwrite`: it throws (105–107), the guard unlocks, `logger::sink_it_` catches and reports | `WriteThrows` |

Each read of the clock is a step of its own, as is the wait for the sink's mutex. The ghost
variable `opened` keeps, for each file, the day that the clock showed when, with this file open, the next rotation
was computed. That is a day after the file's if midnight passed while the file was being opened, and also if it had
passed before: a file is named after the entry that makes the sink rotate (line 110), and that entry may have
waited for the mutex over midnight. `reported` keeps the entries whose open or write failed. What a failed write leaves
of an entry in the file, and what stdio has buffered and loses later, is left out. Levels, flushing, formatting, the limit on the number of files, a clock set back
and the change to summer time are left out.

## Runs

| Run | Instance | Shows |
|---|---|---|
| `unpacker_mixed` | `NetUnpackerMixed.cfg` | all properties of `NetUnpacker` for one or two payloads of up to three fragments in one unpacker, packets cut inside the header, up to two failed allocations |
| `unpacker_limits` | `NetUnpackerLimits.cfg` | two big-endian hosts and a 32-bit `size_t`; a payload of 15 fragments of a byte, the most a `uint32_t` and a `size_t` of four one-bit bytes can count, received in all orders |
| `transfer` | `NetTransfer.cfg` | `NetTransfer` implements `MessageDelivery`, liveness included |
| `cut_packet` | `CutPacket.cfg` | violation, finding 1 below |
| `mixed_byte_order` | `MixedByteOrder.cfg` | violation, finding 2 |
| `allocator` | `IdAllocator.cfg` | three threads, four ids, one lost id, one stray id: all properties of `IdAllocator`, the refinement of `UniqueIds` and the release of the mutex |
| `network_base` | `NetworkBase.cfg` | the allocator of a constructed `NetworkBase` is sound, with two threads that release any id |
| `time_text` | `TimeUtils.cfg` | two threads, a `struct tm` of two fields, three times around midnight: nothing of a finished call gets into a text |
| `strings` | `StringUtils.cfg` | `split` of each of the 255 strings of two characters up to length 7 by each of the 15 delimiters up to length 3; `trim` and `isNumber` of the 37449 texts up to length 5 over `1 - . e E f`, blank and tab |
| `trim_ends` | `TrimEnds.cfg` | violation, finding 3: `trim` of the same texts |
| `math` | `MathUtils.cfg` | a float of four bits: `reduceMaxValues` of all arrays of up to five of three values, rising ones of up to 20, and such with elements that are no floats, as doubles may be; `strechlim` with four bins of one to four values, of seven, of large ones and of such whose width or limits are rounded |
| `log` | `LogUtils.cfg` | two threads with two entries each, two midnights, two opens or writes that fail |

Bounds. `Radix = 2` and `MTU = 24` give fragments of two bytes of one bit: small, but with a
first, a middle and a short or full last fragment, bytes that differ, and a 32-bit counter
that ends at 15. `SOF = 2` is, like `0xCE9A`, a marker whose two bytes differ. Two payloads
are enough for a mixture, since every property relates one stored fragment to one other.
`MaxOOM = 2` lets `resize` fail and then `insert`. Three threads cover every race of two on the
allocator and a third that waits; `MaxInt = 3` lets allocation run into the end. `MaxLost` bounds the
ghost set only. Two threads are enough to mix a `struct tm`, since a field is some one
thread's. Strings of length 7 hold a delimiter of length 3 that overlaps itself twice, and
eight parts are one more than any of them has characters; in `strings` only the empty delimiter runs into this bound.
With `Precision = 4` numbers from 17 on are rounded, so that arrays of 18 and 20 values are long,
sevenths have no exact share and 16 is the first number that absorbs the one unit that stands for `1e-6f`. In `log`, five
ticks of a clock with two to a day pass two midnights: the day of a file, the next and the one
that a late rotation skips; two failures let the open fail that follows a failed one, or a write and an open.

Deadlock is checked wherever the system cannot stop. It is switched off in `unpacker_mixed`
(after `WildCopy` nothing is specified), in `allocator` and `network_base` (after `PickOverflow`, or a
crash of the constructor), in `strings` and `math` (a call that has returned or thrown is over), and in
`log` (the clock and the calls of each thread end with their bounds).

Fairness. `NetTransfer` assumes strong fairness of `DeliverIndex(i)`: a transport may lose a
packet any number of times, but not every copy of a fragment that is sent for ever; without
that no protocol delivers. It assumes weak fairness of `Repeat` and `StartOver`, which are the
callers' timers. It assumes nothing of loss or duplication. `IdAllocator`
assumes only that a thread that can take a step takes one (weak fairness of `Step`). Nothing
is assumed of who gets a `std::mutex`, so a thread may starve and no property
says that it does not; `MutexReleased` says that whoever has the mutex gives it back.
`StringUtils` assumes that the thread in `split` keeps running. `LogUtils` assumes weak fairness of
each thread's `Step`, and nothing of the clock or of who logs. `CallsReturn` follows although
a mutex may starve a thread, because each thread makes at most `MaxCalls` calls; what it shows is that no
path through the sinks keeps the mutex, not even one on which an open or a write throws.

## Findings

1. `addPacket` compares the packet's length with the header's only (`NetPacker.h:125`), not
   with `currentPayloadSize`. A packet cut inside its fragment is stored with bytes from
   beyond its end and the payload reported complete.
2. Every header field but `sof` is converted to network order (`NetPacker.h:83-86`). Between
   hosts of different byte order every packet is refused.
3. `trim` removes blanks at the start of a string as well (`StringUtils.cpp:48`); its comment
   (`StringUtils.h:20`, "去除行尾含看不见的空格") has it remove those at the end of a line. `TrimsEndOnly` is the
   comment, which `trim_ends` refutes; `TrimTakesBlanks` is the code.

Further facts that the models show, with the conditions under which the properties hold. Those marked
with * were confirmed by compiling the code and running it.

- `isComplete()` of an unpacker that received nothing is true (0 = 0), and `getPayload()`
  returns an empty vector instead of throwing; the comment at `NetPacker.h:162` says that it
  checks whether all fragments have been received ("检查是否已接收完所有分片"). It is so in every initial state.
  `CompleteIsOriginal` and `CompleteIsFinal` therefore speak of unpackers that adopted a size, and `StartOver`
  exists because of this.
- If `buffer.resize` throws in the first `addPacket` (`NetPacker.h:139`), `totalSize` is set already.
  The caller that catches `bad_alloc` and goes on reaches a `memcpy` to a buffer that was never
  sized, which the check of line 148 does not prevent (`WildCopy`).
  `WildCopyOnlyAfterFailedResize` says that this is the only way there.
- `NetworkBase`'s constructor calls `allocate` on an `IdAllocator` that is not constructed
  (`NetworkBase.cpp:9`). On zeroed memory this divides by a bucket count of 0, on memory of
  other content locking fails with `std::system_error`*. Where it comes through, the allocator starts anew afterwards
  (`AllocatorSound`) and hands out the number in `id_` again. `launch` and `shutdown` are declared and
  defined nowhere, so that a program that uses the class does not link*.
- Two overlapping calls of `currentDatetimeStr` may return each other's time, or a text made
  of fields of both (`TimeUtils.cpp:13`). `NoStaleField` says how far this goes. A format whose text has 64
  characters or more gives a string of unspecified content (line 15).
- `split` by an empty delimiter pushes empty parts until memory is full (`StringUtils.cpp:57`); `SplitReturns`
  excludes it.
- The comment of `reduceMaxValues` says that it removes the largest `highPercentile` percent of the array
  (`MathUtils.h:36`, "去除数组中的百分之highPercentile的最大值"). The code does the opposite: it keeps that share and cuts the
  values above it down, the largest `1 - highPercentile` of them, as its own example says (`MathUtils.h:61`: 0.99
  gives the index `floor((length-1)*0.99)` of the sorted values). With 0.99 the header promises to take 99 of 100 values
  away and the code changes one. `ClippedAtPercentile` is about what the code does.
- `reduceMaxValues` of 16777220 values with `highPercentile` 1 reads `buf[length]`, because
  `length - 1` becomes a float (`MathUtils.h:62`)*. Of doubles that are no floats it may change any
  to the float next to it, also with `highPercentile` 1: 0.7 becomes 0.69999998807907104*. `FewClipped` does not count
  these, and says that no others are changed than the percentile allows. While the last index is a float, the
  product with the percentile may not be: of a rising array of 25 values a float of four bits cuts off one
  value too many with 7/8. Hence `ExactLength` and `ExactIndices`: of
  longer arrays nothing is shown.
- `strechlim` of constant data of 32 or more divides 0 by 0, since `1e-6f` is absorbed (line 105), and
  crashes*. `NoDivisionByZero` says which data are safe. The rounded shares may add up to less than `tol_high`; the upper limit
  is then above the data: 11.0431 for the twelve values 0..11 and `tol_high` 1*. Hence `ExactShares`. It may
  also be above the data because `dataMax - dataMin` is rounded up (line 148): 0.473945618 for the two values
  0.169830427 and 0.473945588 and `tol_high` 1*. Hence `LimitsInRange` asks for a width that is not. Where
  there are fewer floats than bins between two values, a limit is the float next to a quantile and not
  one; `LimitsAreQuantiles` says so. The function is a template, but does not compile for `double`*.
- spdlog's daily sink names a file after the entry that makes it rotate, and then reads the clock again for the
  next rotation (`daily_file_sink.h:110-112`). If the clock shows a later day by then, because that entry waited over
  midnight or because midnight fell into the open, all of that day goes to the earlier day's file, and the day gets no file
  of its own. `NoLaterThanOpened` says that this is the only way into an earlier file.
- An entry is lost when its file cannot be opened or when it is not written whole, and the logger's error handler
  is called then. After an open that failed there is no file: entries of earlier days that were waiting are dropped by
  `write` without an error of their own (`file_helper-inl.h:101`), until an entry from after the time of the next rotation makes the sink try again.
  `LoggedOnce` says that no other entry is lost without a report.

## Proofs

| Theorem | Property | |
|---|---|---|
| `NetUnpackerProofs!TypeCorrect` | `TypeOK` | |
| `PacketsAccepted` | `NothingRefused` | |
| `CopyStaysInside` | `WildCopyOnlyAfterFailedResize` | |
| `CountersAgree` | `CompleteMeansNothingMissing` | |
| `RecordedFragmentsIntact` | `FragmentsIntact` | |
| `CompletePayloadIsOriginal` | `CompleteIsOriginal` | |
| `FragmentsStay` | `StoredFragmentsStay` | action property |
| `CompleteStays` | `CompleteIsFinal` | action property |
| `RoundTrip32`, `RoundTrip64` | | conversion and copy are inverse |
| `NetTransferProofs!TransferDelivers` | `Delivery` | refinement |
| `IdAllocatorProofs!TypeCorrect` | `TypeOK` | any callers |
| `NothingLeaks` | `Accounting` | any callers |
| `OverflowNeedsExhaustion` | `OverflowOnlyWhenExhausted` | any callers |
| `LowestFirst` | `LowestIdFirst` | action property, any callers |
| `Uniqueness` | `Unique` | careful callers |
| `AllocatedMatchesCallers` | `AllocatedIsOwned` | careful callers |
| `ImplementsUniqueIds` | `HandsOutUniqueIds` | refinement, careful callers |
| `AllocatorSurvives` | `AllocatorSound` | `NetworkBase`, any callers |
| `CallersSurvive` | | `NetworkBase`: `Unique` and `AllocatedIsOwned` once constructed, careful callers |
| `TimeUtilsProofs!NothingStale` | `NoStaleField` | |
| `StringUtilsProofs!CutsLeftmost` | `LeftmostCuts` | |
| `RoomIsEnough` | `RoomSuffices` | |
| `PartsMakeTheString` | `NothingLost` | |
| `SplitAgrees` | `AgreesWithQueries` | |
| `TrimIsRight` | `TrimTakesBlanks` | |
| `NumbersAreTold` | `NumbersAreWhole` | |
| `MathUtilsProofs!NothingBehindTheEnd` | `IndexInRange` | |
| `PercentileIsCut` | `ClippedAtPercentile` | |
| `ZeroWidthIsLarge` | `NoDivisionByZero` | |
| `EveryValueIsCounted` | `BinsInRange` | |
| `LimitsInOrder` | `LimitsInRange` | |
| `LimitsFollowTolerances` | `LimitsAreQuantiles` | bits enough for the bins: `FineFloats` |
| `LogUtilsProofs!TypeCorrect` | `TypeOK` | with the mutual exclusion of the file sink |
| `EachLoggedOnce` | `LoggedOnce` | |
| `NothingBeyondTheOpening` | `NoLaterThanOpened` | |
| `OldFilesStayAsTheyAre` | `OldFilesStay` | action property |

**NetUnpacker.** The theorems assume the constants' assumptions (`RadixAssumption`,
`NetPackerAssumption`, `NetUnpackerAssumption`) and `Deployment`: hosts of one byte
order, packets cut inside the header or not at all, and payloads whose size fits the
receiver's `size_t` and whose fragments fit a `uint32_t`. The runs whose properties hold
satisfy it; findings 1 and 2 show what happens without its first two conjuncts. The
argument: reversing bytes is its own inverse (`Swap16Inverse`, by two-digit arithmetic in base
`Radix`, then `Swap32` and `Swap64` by halves), so a header is read as it was written
(`HeaderRead`). The fragments of a payload are inside it, disjoint and cover it
(`FragmentBounds`, `SlotsApart`, `Covered`). None of the properties is inductive: `FragmentsIntact`
needs to know that an index in range is below `totalPackages` and that the buffer has the
adopted size; the counter is correct only if it never wraps, which needs the indices to be
bounded. `IInv` adds that the sizes are those of some packed payload (`Adopted`), that the buffer
has that size unless `resize` failed (`BufferSized`), that the counter is the number of
indices (`Counted`), and the bytes of each recorded fragment (`Intact`). One lemma per
outcome of `addPacket` shows that `IInv` is kept.

**NetTransfer.** `TransferDelivers` also assumes `OneAtATime`: each stream is one payload, for
`MessageDelivery` knows one message. The invariant is `IInv` of the unpacker, together with the fact that
whatever is in the network is a packet of the submitted payload. A step of the transport or of
the callers leaves the unpacker alone and stutters in `MessageDelivery`; a delivery either
stutters or completes the payload, which is the submitted one by `CompletePayloadIsOriginal`'s invariant, and a
complete payload never changes again.

**IdAllocator.** All theorems assume `IdAllocatorAssumption`, three of them and `CallersSurvive` also
`Careful`. The invariant has two parts. `CInv` is about the containers and holds for any callers: the
thread between `Lock` and `Unlock` is the one `mutex` names, each issued id is in one container
or in the hands of that thread, and `pop` removes the id that `top` returned. `OInv` is about the owners and
needs `Careful`: what callers own is in `allocated_`, and an id on its way to or from a caller is nobody
else's. One lemma per action and part shows that it is kept. The refinement of
`UniqueIds` follows, since only `CallRelease` and `Return` change `held`. `NetworkBase` reuses both parts: its
invariant is that nobody uses the allocator before its constructor ran, which makes a state that satisfies `Init`.

**TimeUtils.** `NoStaleField` is about a copy made field by field of a struct that others
overwrite. The invariant says that a field of `shared` that a call in `copy` relies on is from a
call that is not over or overlapped it, that the same holds of the fields it has copied, and that `others` has
the time of every other call in progress.

**StringUtils.** `LeftmostCuts` and `RoomSuffices` follow from an invariant about each turn of the loop: each
part has used up at least one character of the string (`EachPartTakesOne`), and a part just cut, with
the delimiter put behind it, has the delimiter nowhere earlier (`LeftmostCut`), which is not obvious for
delimiters that overlap themselves and is proved character by character (`OccursByChar`). `NothingLost` is about the
recursive function that glues the parts; that gluing one part more puts it and the delimiter at the end is
proved by induction over the parts (`GluedParts`). `AgreesWithQueries` also needs that what is left is the end of the string
(`RestOfString`). `trim` and `isNumber` do not depend on the state: that `trim` finds the first and the last
character that is no blank is a matter of least and greatest positions, and `NumbersAreWhole` shows that the
longest text `operator>>` takes, if it is all there is but blanks, is a sign, a mantissa and an
exponent, and the other way round. The theorems assume `StringUtilsAssumption`: strings shorter than `npos`.

**MathUtils.** Everything rests on what `Rounded` does. `RoundedIs` says what its last bit is worth, from `BitsIs`:
`Bits[n]` is the number of bits of n, by induction. A float is a mantissa of `Precision` bits
times a power of two (`IsFloat`); `Rounded` returns one (`RoundedIsFloat`), leaves floats as
they are (`RoundedOfFloat`) and keeps order (`RoundedMonotone`), also where the two numbers have last bits of different
worth. So a float that bounds an exact result bounds the rounded one (`BoundedByFloat`), which is all that
`IndexInRange`, `BinsInRange` and `LimitsInRange` need: the bounds are the last index, half a bin more than the last bin, `dataMin` and
`dataMax`, and all of them are floats. `NoDivisionByZero` needs the other direction: what is lost in a sum is at most
half of its last bit (`LostInSum`). For `LimitsInRange` the cumulated shares are shown, by induction over the bins,
to be the shares of the cumulated counts (`SharesAddUp`), so that the last is 1. `ClippedAtPercentile`
counts the floats below and above the element of rank n (`SortedIs`); since
that is a float, a value is on its side of it, or becomes it, when the float next to the value is. The inductive invariant says which values have been
clipped (`ClippedSoFar`), that `cap` is the element of the index' rank (`CapIsPercentile`) and that `result` was computed from the data
as they are (`StretchedFloats`).

`LimitsAreQuantiles` adds up the errors of the seven roundings between a value and its bin, or a bin and its
limit. `RoundingError` bounds one: a fraction 1 / 2^`Precision` of the number, or half a unit where units are too coarse.
`BinError` says how far a bin is from b times the width, `LimitError` how far its limit is, and
`NotBelow` and `NotAbove` that the two together are less than the width of a bin, so that a value more than a bin
from the limit was counted on that side of it. This takes bits for the bins: `FineFloats` asks for 16 times the square
of their number, 2^20, to be at most 2^`Precision`, 2^24 for the `float` of the code. The instance TLC checks has
fewer bits, and the property holds there too. What is counted up to a bin comes from `SharesAddUp`, and that the limit's bin
is the first with enough from `FirstBin`.

The theorems assume `SmallFloatAssumption` and `MathUtilsAssumption`: the data of
`strechlim` are floats, and a mantissa can count twice the bins, as that of `float` can count 512.

**LogUtils.** No property of the logger is inductive but its types. The invariant is about `rotation_tp`
(`RotationOK`): it is a midnight, at most the one after the clock's day, and it is after the day of the open
file and of every file with entries. So an entry that makes the sink rotate is of a later day than all of
them, and the sink does not come back to an older file (`FileIsLast`). `DayOK` adds that, outside a rotation, the next one is
at the end of the day that `opened` has for the open file, so that an entry that does not make the sink rotate is not
later than that day. `LossOK` says that there is no open file only while one is being opened or after an open failed for an
entry that is not before the next rotation, so that what is lost then is of an earlier day, and `ConsoleOK` orders a thread's entries. One lemma per action shows that they are kept. What the
proofs know of days is `NotBeforeMidnight`: a time is not before the midnight of day r just if its own day is
not before r.

TLC checked each property on the instances above before it was proved.

**NaturalFacts.** Induction is stated of sets and recursion of functions, which the provers can instantiate,
where the library's theorems take operators. Both follow from the well-foundedness of finite sets under
inclusion. `Recursion` and `BoundedRecursion` give a function that follows the steps of its definition; with them, `Glued`, `Pow2`,
`Bits` and the cumulated histogram are what their definitions say.

Only model-checked: the liveness properties `EventualDelivery`, `MutexReleased`, `SplitReturns` and
`CallsReturn`, for the prover has no rules for fairness.

## Not modelled

- `NetPacker::pack` of 2^32 fragments or more (over 6 TB), where the cast of line 72 drops
  the high bits, and payloads of 4 GiB or more received with a 32-bit `size_t`, where
  line 137 drops them. `PackageCount` and `deserialize` have the truncation, but no run has such a payload.
- `bad_alloc` thrown by `pack`, by the queries that return copies, and by a
  packet's own vector: nothing is changed by them.
- The MSVC variant of `PACKED_STRUCT`, which may change the size of the header.
- Ending: destructors, and moving or copying an unpacker.
- `PathUtils`: each function is a call of the filesystem library. `getFileName` tests that the file
  exists and then computes the name from the text alone, so nothing depends on the test's result
  staying true.
- `StringUtils::upperCase`, `equal` and `u8ToLocal`, `MathUtils::deg2rad` and `rad2deg`,
  `TimeUtils::currentTimePoint` and `isBefore`: one expression or one call of a library each.
- Third-party code, except the lines of spdlog that `LogUtils` needs. The vendored asio, spdlog,
  filesystem and googletest are over 99% of the C++ lines under `src/`; asio is included by
  `NetworkBase.h` and nothing of it is used, and the library's own code has about a thousand lines. The share of all lines that
  the modules stand for is therefore small, while of the library's own functions with a state or an algorithm
  each one is modelled.
- Build files, tests, formatting and wording of exceptions.

## Plan

Done: the network core, the allocator and `NetworkBase`, `TimeUtils`, `StringUtils`, `MathUtils` and
`LogUtils`, with the proofs listed above.

What is left: `LogUtils` with a clock that is set back.
