----------------------------- MODULE MCNetUnpacker -----------------------------
(***************************************************************************)
(* Values for model checking NetUnpacker.  Bytes are bits, a packet        *)
(* carries two of them, so that five bytes take three packets; the marker  *)
(* is the two-byte integer 10, which reads 01 in the other byte order.     *)
(***************************************************************************)
EXTENDS NetUnpacker

\* Payloads of zero to three fragments, with a full and a short last fragment.
MCPayloads == { <<>>, <<1>>, <<0, 1>>, <<1, 0, 1>>, <<1, 1, 0, 1>>,
                <<0, 1, 1, 0, 1>>, <<1, 1, 1, 1, 1, 1>> }

\* One byte to a fragment: the largest number of fragments a uint32_t of four bits
\* counts, and the largest payload a size_t of four bits counts.
MCLongPayload == { <<1, 0, 1, 1, 0, 1, 0, 0, 0, 1, 1, 1, 1, 0, 0>> }

\* One payload per unpacker.
MCSingles == {{m} : m \in MCPayloads}

\* Two payloads that meet in one unpacker.
MCPairs == MCSingles \cup {{m, n} : m \in MCPayloads, n \in MCPayloads}

\* The long payload meets no other.
MCLimitPayloads == MCPayloads \cup MCLongPayload
MCLimitStreams == MCPairs \cup {MCLongPayload}

MCNoCuts == {}

\* Cuts inside the header and just before its end.
MCHeaderCuts == {0, HeaderSize - 1}

\* A cut inside the fragment.
MCPayloadCuts == {HeaderSize + 1}
================================================================================
