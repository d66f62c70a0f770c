------------------------------- MODULE ByteOrder -------------------------------
(***************************************************************************)
(* Integers in memory and on the wire.                                     *)
(*                                                                         *)
(* NetPacker.h copies a packed header to and from a byte buffer with       *)
(* memcpy, and converts most of its fields with htonl / htobe64 and their  *)
(* inverses.  What a receiver reads depends on the byte order of both      *)
(* hosts.  A run of bytes is represented here by the integer one gets by   *)
(* reading it most significant byte first (its image), so that copying a   *)
(* host integer to bytes is a byte swap on a little-endian host and        *)
(* nothing on a big-endian one.                                            *)
(*                                                                         *)
(* Radix is the number of values of a byte: 256 in the code, smaller in    *)
(* the model-checked instances so that a uint32_t overflows early.         *)
(***************************************************************************)
EXTENDS Integers

CONSTANT Radix

ASSUME RadixAssumption == Radix \in Nat /\ Radix >= 2

Orders == {"little", "big"}
Byte == 0 .. Radix - 1

\* One more than the largest uint16_t, uint32_t and uint64_t.
U16 == Radix * Radix
U32 == U16 * U16
U64 == U32 * U32

\* Reversing the bytes of an integer of 2, 4 and 8 bytes, by halves.
Swap16(v) == (v % Radix) * Radix + v \div Radix
Swap32(v) == Swap16(v % U16) * U16 + Swap16(v \div U16)
Swap64(v) == Swap32(v % U32) * U32 + Swap32(v \div U32)

\* memcpy of an integer of a host of byte order o into bytes, and back.
Image16(o, v) == IF o = "little" THEN Swap16(v) ELSE v
Image32(o, v) == IF o = "little" THEN Swap32(v) ELSE v
Image64(o, v) == IF o = "little" THEN Swap64(v) ELSE v

\* htonl and htobe64, ntohl and be64toh: a swap on little-endian hosts only.
to_network32(o, v) == IF o = "little" THEN Swap32(v) ELSE v
to_network64(o, v) == IF o = "little" THEN Swap64(v) ELSE v
from_network32(o, v) == IF o = "little" THEN Swap32(v) ELSE v
\* Mutant: the swap is made on every host.
AlwaysSwap64(o, v) == Swap64(v)

from_network64(o, v) == IF o = "little" THEN Swap64(v) ELSE v
================================================================================
