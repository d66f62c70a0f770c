------------------------------- MODULE UniqueIds -------------------------------
(***************************************************************************)
(* What an id allocator promises its callers: an id it hands out is nobody *)
(* else's until it is given back.                                          *)
(***************************************************************************)
CONSTANTS Threads, Ids

VARIABLE held   \* the ids each thread got and has not given back

Init == held = [t \in Threads |-> {}]

Get(t, i) ==
  /\ \A u \in Threads : i \notin held[u]
  /\ held' = [held EXCEPT ![t] = @ \cup {i}]

GiveBack(t, i) ==
  /\ i \in held[t]
  /\ held' = [held EXCEPT ![t] = @ \ {i}]

Next == \E t \in Threads, i \in Ids : Get(t, i) \/ GiveBack(t, i)

Spec == Init /\ [][Next]_held
================================================================================
