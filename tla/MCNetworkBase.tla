----------------------------- MODULE MCNetworkBase -----------------------------
(***************************************************************************)
(* Values for model checking NetworkBase: the program that uses the object *)
(* releases any id, its own or not, once or twice.                         *)
(***************************************************************************)
EXTENDS NetworkBase

MCAllIds == Ids
================================================================================
