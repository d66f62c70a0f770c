------------------------------ MODULE NetTransfer ------------------------------
(***************************************************************************)
(* One payload on its way: pack(), a datagram transport, a NetUnpacker and *)
(* the callers around them.                                                *)
(*                                                                         *)
(* The library has no transport and no retransmission; it offers           *)
(* getMissingIndices() to a caller that implements one.  The callers here  *)
(* do the least such a program must do: the receiver asks again for the    *)
(* fragments getMissingIndices() names, and the sender sends everything    *)
(* once more while it has heard nothing.                                   *)
(***************************************************************************)
EXTENDS NetUnpacker

VARIABLE network   \* the packets in flight

transferVars == <<vars, network>>

packets == UNION {{Pack(m)[i] : i \in DOMAIN Pack(m)} : m \in sent}

--------------------------------------------------------------------------------

TransferInit == Init /\ network = {}

\* The sender packs a payload and hands the packets to the transport.
Send(m) ==
  /\ PackMessage(m)
  /\ network' = network \cup {Pack(m)[i] : i \in DOMAIN Pack(m)}

\* A packet arrives, and leaves the transport unless it was duplicated there.
Deliver(p) ==
  /\ p \in network
  /\ addPacket(p) /\ UNCHANGED sent
  /\ network' \in {network, network \ {p}}

Lose(p) ==
  /\ p \in network
  /\ network' = network \ {p}
  /\ UNCHANGED vars

\* The receiver's caller asks for fragment i and the sender repeats it.
Repeat(i) ==
  /\ i \in getMissingIndices
  /\ \E m \in sent : i \in DOMAIN Pack(m) /\ network' = network \cup {Pack(m)[i]}
  /\ network' # network
  /\ UNCHANGED vars

\* The sender times out: nothing was heard from the receiver.
StartOver ==
  /\ sent # {} /\ getReceivedIndices = {}
  /\ network = {}
  /\ network' = packets
  /\ UNCHANGED vars

\* The only place to stop: everything received, nothing in flight.
Finished ==
  /\ sent # {} /\ isComplete /\ getReceivedIndices # {} /\ network = {}
  /\ UNCHANGED transferVars

TransferNext ==
  /\ result # "crash"
  /\ \/ \E m \in Payloads : Send(m)
     \/ \E p \in network : Deliver(p) \/ Lose(p)
     \/ \E i \in getMissingIndices : Repeat(i)
     \/ StartOver
     \/ Finished

TransferSpec == TransferInit /\ [][TransferNext]_transferVars

\* The transport may lose any packet any number of times, but a packet that is
\* sent again and again gets through in the end; the callers do not stop asking.
AllIndices == UNION {DOMAIN Pack(m) : m \in Payloads}

DeliverIndex(i) ==
  \E p \in network : deserialize(p).currentPackageNum = i /\ Deliver(p)

Fairness ==
  /\ \A i \in AllIndices : SF_transferVars(DeliverIndex(i))
  /\ \A i \in AllIndices : WF_transferVars(Repeat(i))
  /\ WF_transferVars(StartOver)

FairTransferSpec == TransferSpec /\ Fairness

--------------------------------------------------------------------------------

submittedPayload == IF sent = {} THEN <<>> ELSE CHOOSE m \in sent : TRUE

Promise == INSTANCE MessageDelivery WITH
  submitted <- submittedPayload,
  delivered <- IF isComplete THEN getPayload ELSE <<>>

\* Seen from outside, packing, losing, duplicating, reordering and unpacking do
\* nothing but deliver the submitted payload, unchanged, in one step, for good.
Delivery == Promise!Spec

\* And a payload that was submitted does get delivered.
EventualDelivery == Promise!FairSpec
================================================================================
