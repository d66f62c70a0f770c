--------------------------- MODULE NetTransferProofs ---------------------------
(***************************************************************************)
(* Whatever the transport loses, repeats or reorders, a transfer does      *)
(* nothing but deliver the submitted payload: NetTransfer implements       *)
(* MessageDelivery.                                                        *)
(*                                                                         *)
(* Every step of a transfer is a step of the unpacker's specification, as  *)
(* only packets of submitted payloads are ever in flight (InFlight); so    *)
(* the invariant of NetUnpackerProofs holds, and with it what a complete   *)
(* unpacker guarantees.                                                    *)
(***************************************************************************)
EXTENDS NetTransfer, NetUnpackerProofs

\* One payload per transfer.
OneAtATime == \A S \in Streams : \A m, n \in S : m = n

InFlight == network \subseteq packets

LEMMA PacketsGrow ==
  ASSUME sent \subseteq sent'
  PROVE  packets \subseteq packets'
BY DEF packets

LEMMA InFlightKept ==
  ASSUME InFlight, [TransferNext]_transferVars
  PROVE  InFlight'
<1>1. CASE UNCHANGED transferVars
  BY <1>1 DEF transferVars, vars, InFlight, packets
<1>2. ASSUME NEW m \in Payloads, Send(m) PROVE InFlight'
  <2>1. m \in sent' /\ sent \subseteq sent'
    BY <1>2 DEF Send, PackMessage
  <2>2. {Pack(m)[i] : i \in DOMAIN Pack(m)} \subseteq packets'
    BY <2>1 DEF packets
  <2>. QED
    BY <1>2, <2>1, <2>2, PacketsGrow DEF Send, InFlight
<1>3. ASSUME NEW p \in network, Deliver(p) \/ Lose(p) PROVE InFlight'
  <2>1. sent' = sent /\ network' \subseteq network
    BY <1>3 DEF Deliver, Lose, vars
  <2>. QED
    BY <2>1, PacketsGrow DEF InFlight
<1>4. ASSUME NEW i \in getMissingIndices, Repeat(i) PROVE InFlight'
  <2>1. sent' = sent
    BY <1>4 DEF Repeat, vars
  <2>2. PICK m \in sent : i \in DOMAIN Pack(m) /\ network' = network \cup {Pack(m)[i]}
    BY <1>4 DEF Repeat
  <2>3. Pack(m)[i] \in packets
    BY <2>2 DEF packets
  <2>. QED
    BY <2>1, <2>2, <2>3, PacketsGrow DEF InFlight
<1>5. CASE StartOver
  <2>1. sent' = sent
    BY <1>5 DEF StartOver, vars
  <2>. QED
    BY <1>5, <2>1, PacketsGrow DEF StartOver, InFlight
<1>6. CASE Finished
  BY <1>6 DEF Finished, transferVars, vars, InFlight, packets
<1>. QED
  BY <1>1, <1>2, <1>3, <1>4, <1>5, <1>6 DEF TransferNext

LEMMA StepOfUnpacker ==
  ASSUME InFlight, [TransferNext]_transferVars
  PROVE  [Next]_vars
<1>1. CASE UNCHANGED transferVars
  BY <1>1 DEF transferVars
<1>2. ASSUME NEW m \in Payloads, Send(m), result # "crash" PROVE Next
  BY <1>2 DEF Send, Next
<1>3. ASSUME NEW p \in network, Deliver(p), result # "crash" PROVE Next
  <2>1. PICK m \in sent : \E i \in DOMAIN Pack(m) : p = Pack(m)[i]
    BY DEF InFlight, packets
  <2>2. PICK i \in DOMAIN Pack(m) : p = Pack(m)[i]
    BY <2>1
  <2>3. addPacket(p) /\ UNCHANGED sent
    BY <1>3 DEF Deliver
  <2>4. p \in Arrivals(Pack(m)[i])
    BY <2>2 DEF Arrivals
  <2>5. Receive(m, i)
    BY <2>3, <2>4 DEF Receive
  <2>. QED
    BY <1>3, <2>5 DEF Next
<1>4. CASE \/ \E p \in network : Lose(p)
           \/ \E i \in getMissingIndices : Repeat(i)
           \/ StartOver \/ Finished
  BY <1>4 DEF Lose, Repeat, StartOver, Finished, transferVars
<1>. QED
  BY <1>1, <1>2, <1>3, <1>4 DEF TransferNext

LEMMA TransferRunsUnpacker == TransferSpec => Spec /\ []InFlight
<1>1. TransferInit => Init /\ InFlight
  BY DEF TransferInit, InFlight
<1>. QED
  BY <1>1, InFlightKept, StepOfUnpacker, PTL DEF TransferSpec, Spec

--------------------------------------------------------------------------------
(***************************************************************************)
(* The refinement.                                                         *)
(***************************************************************************)

Delivered == IF isComplete THEN getPayload ELSE <<>>

\* One payload was packed at most.
Alone == sent # {} => \E m \in Payloads : sent = {m} /\ Len(m) > 0

LEMMA AloneKept ==
  ASSUME OneAtATime, Alone, [Next]_vars
  PROVE  Alone'
<1>1. CASE sent' = sent
  BY <1>1 DEF Alone
<1>2. ASSUME NEW m \in Payloads, PackMessage(m) PROVE Alone'
  <2>1. m \notin sent /\ sent' = sent \cup {m} /\ sent' \in Streams /\ Len(m) > 0
    BY <1>2 DEF PackMessage
  <2>2. sent = {}
    BY <2>1 DEF OneAtATime
  <2>. QED
    BY <2>1, <2>2 DEF Alone
<1>. QED
  BY <1>1, <1>2 DEF Next, PackEmpty, Receive, vars

\* What a receiver has at any time: the payload, or nothing.
PayloadOrNothing ==
  \/ Delivered = <<>>
  \/ totalSize # 0 /\ isComplete /\ sent = {Delivered} /\ Delivered # <<>>

LEMMA DeliveredValue ==
  ASSUME Deployment, IInv, Alone
  PROVE  PayloadOrNothing
<1>. USE DEF PayloadOrNothing
<1>1. CASE totalSize = 0
  BY <1>1 DEF IInv, Adopted, Delivered, getPayload
<1>2. CASE totalSize # 0 /\ isComplete
  <2>1. PICK m \in sent : totalSize = Len(m)
    BY <1>2 DEF IInv, Adopted
  <2>2. sent = {m} /\ Len(m) > 0
    BY <2>1 DEF Alone
  <2>3. getPayload = m
    BY <1>2, <2>2, IInvCompleteIsOriginal DEF CompleteIsOriginal
  <2>4. m # <<>>
    BY <2>2, EmptySeq
  <2>. QED
    BY <1>2, <2>2, <2>3, <2>4 DEF Delivered
<1>. QED
  BY <1>1, <1>2 DEF Delivered

LEMMA StepDelivers ==
  ASSUME Deployment, OneAtATime, IInv, Alone, PayloadOrNothing, PayloadOrNothing',
         [Next]_vars
  PROVE  [Promise!Next]_(Promise!vars)
<1>. DEFINE S == submittedPayload
            D == IF isComplete THEN getPayload ELSE <<>>
<1>1. Alone'
  BY AloneKept
<1>2. D = Delivered /\ D' = Delivered'
  BY DEF Delivered
<1>3. CASE sent' = sent
  <2>1. S' = S
    BY <1>3 DEF submittedPayload
  <2>2. CASE D = <<>> /\ D' # <<>>
    <3>1. sent = {D'}
      BY <1>2, <1>3, <2>2 DEF PayloadOrNothing
    <3>2. S = D'
      BY <3>1 DEF submittedPayload
    <3>. QED
      BY <2>1, <2>2, <3>2 DEF Promise!Next, Promise!Deliver
  <2>3. CASE D # <<>>
    <3>1. isComplete /\ totalSize # 0
      BY <1>2, <2>3 DEF PayloadOrNothing
    <3>2. D' = D
      BY <3>1, StepIsFinal
    <3>. QED
      BY <2>1, <3>2 DEF Promise!vars
  <2>. QED
    BY <2>1, <2>2, <2>3 DEF Promise!vars
<1>4. ASSUME NEW m \in Payloads, PackMessage(m) PROVE Promise!Next
  <2>1. m \notin sent /\ sent' = sent \cup {m} /\ Len(m) > 0 /\ UNCHANGED members
    BY <1>4 DEF PackMessage
  <2>2. sent = {} /\ sent' = {m}
    BY <1>1, <2>1 DEF Alone
  <2>3. S = <<>> /\ S' = m /\ m # <<>>
    BY <2>1, <2>2, EmptySeq DEF submittedPayload
  <2>4. D' = D
    BY <2>1 DEF members, isComplete, getPayload
  <2>. QED
    BY <2>3, <2>4 DEF Promise!Next, Promise!Submit
<1>. QED
  BY <1>3, <1>4 DEF Next, PackEmpty, Receive, vars

\* Over a transport that loses, duplicates and reorders, for any payloads, any
\* packet size and any word size, a transfer of one payload implements its delivery:
\* nothing but that payload ever comes out, whole, and it stays.
THEOREM TransferDelivers ==
  ASSUME Deployment, OneAtATime
  PROVE  TransferSpec => Delivery
<1>1. Init => Alone /\ Promise!Init
  BY DEF Init, Alone, Promise!Init, submittedPayload, isComplete, getPayload
<1>2. Alone /\ [Next]_vars => Alone'
  BY AloneKept
<1>3. IInv /\ Alone => PayloadOrNothing
  BY DeliveredValue
<1>4. IInv /\ Alone /\ PayloadOrNothing /\ PayloadOrNothing' /\ [Next]_vars
        => [Promise!Next]_(Promise!vars)
  BY StepDelivers
<1>5. Spec => Promise!Spec
  BY <1>1, <1>2, <1>3, <1>4, Inductive, PTL DEF Spec, Promise!Spec
<1>. QED
  BY <1>5, TransferRunsUnpacker, PTL DEF Delivery
================================================================================
