------------------------------ MODULE NetworkBase ------------------------------
(***************************************************************************)
(* A NetworkBase object (network/NetworkBase.h, NetworkBase.cpp): its      *)
(* constructor, and the threads of a derived class that then use its       *)
(* member idAllocator_.                                                    *)
(*                                                                         *)
(* Members are constructed in the order of their declaration: name_, id_,  *)
(* idAllocator_.  id_ is initialised with idAllocator_.allocate(), a call  *)
(* on storage that is no IdAllocator yet.  That is undefined: it may lock  *)
(* garbage, divide by a bucket count of 0 or return whatever it finds.     *)
(* Then the constructor of idAllocator_ runs over that storage.            *)
(***************************************************************************)
EXTENDS IdAllocator

VARIABLES stage,   \* the member to be constructed next, "constructed" or "crash"
          id_      \* the member

baseVars == <<vars, stage, id_>>

Unused ==
  /\ pc = [t \in Threads |-> "idle"]
  /\ id = [t \in Threads |-> StartId]
  /\ held = [t \in Threads |-> {}]
  /\ lost = {}

\* The storage of idAllocator_ holds whatever the memory held before.
BaseInit ==
  /\ nextId \in Ids /\ freeIds \in [Ids -> 0 .. 1]
  /\ allocated \in SUBSET Ids /\ mutex \in Threads \cup {Nobody}
  /\ Unused
  /\ stage = "id_" /\ id_ \in Ids

\* id_(idAllocator_.allocate()).
InitId ==
  /\ stage = "id_"
  /\ \/ /\ stage' = "idAllocator_"
        /\ id_' \in Ids
        /\ nextId' \in Ids /\ freeIds' \in [Ids -> 0 .. 1]
        /\ allocated' \in SUBSET Ids /\ mutex' \in Threads \cup {Nobody}
     \/ /\ stage' = "crash"
        /\ UNCHANGED <<id_, nextId, freeIds, allocated, mutex>>
  /\ UNCHANGED <<pc, id, held, lost>>

\* Mutant: the constructor trusts what the early call left behind.
AdoptStorage ==
  /\ stage = "idAllocator_" /\ stage' = "constructed"
  /\ nextId' = StartId /\ mutex' = Nobody
  /\ UNCHANGED <<freeIds, allocated, pc, id, held, lost, id_>>

\* IdAllocator::IdAllocator(0).
InitAllocator ==
  /\ stage = "idAllocator_" /\ stage' = "constructed"
  /\ nextId' = StartId /\ freeIds' = [i \in Ids |-> 0]
  /\ allocated' = {} /\ mutex' = Nobody
  /\ UNCHANGED <<pc, id, held, lost, id_>>

Use == stage = "constructed" /\ Next /\ UNCHANGED <<stage, id_>>

BaseNext == InitId \/ InitAllocator \/ Use

BaseSpec == BaseInit /\ [][BaseNext]_baseVars

--------------------------------------------------------------------------------

\* Whatever the early call on idAllocator_ did to it, an object that got through its
\* constructor has an allocator that keeps each id it issued in one place, loses none
\* and does not run out of ids early, even if its callers release what is not theirs.
AllocatorSound == stage = "constructed" => Accounting /\ OverflowOnlyWhenExhausted
================================================================================
