---------------------------- MODULE MessageDelivery ----------------------------
(***************************************************************************)
(* What packing, an unreliable transport and unpacking promise together: a *)
(* payload that is submitted is delivered unchanged, once, and stays       *)
(* delivered.  <<>> stands for no payload; pack() accepts no empty one.    *)
(***************************************************************************)
EXTENDS Sequences

CONSTANT Payloads

VARIABLES submitted, delivered

Init == submitted = <<>> /\ delivered = <<>>

Submit(m) ==
  /\ submitted = <<>> /\ m # <<>>
  /\ submitted' = m
  /\ UNCHANGED delivered

Deliver ==
  /\ submitted # <<>> /\ delivered = <<>>
  /\ delivered' = submitted
  /\ UNCHANGED submitted

Next == (\E m \in Payloads : Submit(m)) \/ Deliver

vars == <<submitted, delivered>>

Spec == Init /\ [][Next]_vars

FairSpec == Spec /\ WF_vars(Deliver)
================================================================================
