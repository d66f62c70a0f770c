----------------------------- MODULE MCIdAllocator -----------------------------
(***************************************************************************)
(* Values for model checking IdAllocator.  Threads are not made symmetric: *)
(* that would not be sound for the liveness property.                      *)
(***************************************************************************)
EXTENDS IdAllocator

\* An id that is never handed out: below the constructor's startId.
MCStrays == {StartId - 1}
================================================================================
