------------------------------- MODULE TimeUtils -------------------------------
(***************************************************************************)
(* TimeUtils::currentDatetimeStr (utils/TimeUtils.cpp) called by threads.  *)
(*                                                                         *)
(* It converts the time with std::localtime, which fills one struct tm     *)
(* shared by all threads and returns a pointer to it, copies that struct   *)
(* and formats the copy into a buffer of 64 bytes.  Nothing orders the     *)
(* threads, so the fields of the struct are written and read one by one.   *)
(*                                                                         *)
(* A time is the function from the fields of a struct tm to their values   *)
(* that localtime makes of it.  system_clock may be set at any moment: a   *)
(* thread may read any time from it.                                       *)
(***************************************************************************)
EXTENDS Naturals

CONSTANTS Threads,
          Fields,    \* of a struct tm
          Values,    \* that they take
          Times,     \* that the clock may show
          Lengths,   \* of the text a caller's format may ask for
          BufSize    \* sizeof(buf), 64

ASSUME TimeUtilsAssumption ==
  /\ Times \subseteq [Fields -> Values]
  /\ Fields # {} /\ Lengths \subseteq Nat /\ BufSize \in Nat

VARIABLES
  shared,          \* localtime's struct tm
  pc, time, tm,    \* per thread: its next step and its locals
  todo,            \* the fields it has still to write or to copy
  others           \* the times read by calls of other threads that overlap its own

vars == <<shared, pc, time, tm, todo, others>>

Steps == {"idle", "localtime", "copy", "strftime", "text", "unspecified"}

TypeOK ==
  /\ shared \in [Fields -> Values]
  /\ pc \in [Threads -> Steps]
  /\ time \in [Threads -> Times]
  /\ tm \in [Threads -> [Fields -> Values]]
  /\ todo \in [Threads -> SUBSET Fields]
  /\ others \in [Threads -> SUBSET Times]

InCall(t) == pc[t] \in {"localtime", "copy", "strftime"}

\* No thread is in a call; the locals are whatever an earlier call left.
Init ==
  /\ shared \in Times
  /\ pc = [t \in Threads |-> "idle"]
  /\ \E now \in Times : time = [t \in Threads |-> now] /\ tm = time
  /\ todo = [t \in Threads |-> {}]
  /\ others = [t \in Threads |-> {}]

--------------------------------------------------------------------------------

\* Mutant: a time read twice in a row is taken to be still in the shared struct.
FirstStepCached(t, now) == IF now = time[t] THEN "copy" ELSE "localtime"

\* localtime is called whatever time the clock showed.
FirstStep(t, now) == "localtime"

\* system_clock::now() and to_time_t.
Now(t) ==
  /\ ~InCall(t)
  /\ todo' = [todo EXCEPT ![t] = Fields]
  /\ \E now \in Times :
       /\ time' = [time EXCEPT ![t] = now]
       /\ pc' = [pc EXCEPT ![t] = FirstStep(t, now)]
       /\ others' = [u \in Threads |->
            IF u = t THEN {time[v] : v \in {w \in Threads \ {t} : InCall(w)}}
            ELSE IF InCall(u) THEN others[u] \cup {now} ELSE others[u]]
  /\ UNCHANGED <<shared, tm>>

\* The thread is through with field f at step from; after the last one comes step to.
Advance(t, f, from, to) ==
  /\ pc[t] = from /\ f \in todo[t]
  /\ IF todo[t] = {f}
     THEN pc' = [pc EXCEPT ![t] = to] /\ todo' = [todo EXCEPT ![t] = Fields]
     ELSE todo' = [todo EXCEPT ![t] = @ \ {f}] /\ pc' = pc

\* localtime fills its struct.
LocaltimeField(t, f) ==
  /\ Advance(t, f, "localtime", "copy")
  /\ shared' = [shared EXCEPT ![f] = time[t][f]]
  /\ UNCHANGED <<time, tm, others>>

\* auto tm = *std::localtime(&time).
CopyField(t, f) ==
  /\ Advance(t, f, "copy", "strftime")
  /\ tm' = [tm EXCEPT ![t][f] = shared[f]]
  /\ UNCHANGED <<shared, time, others>>

\* A text of n characters and its terminator.
Fits(n) == n < BufSize

\* strftime writes the text if it fits; if not it returns 0, which is ignored, and
\* the content of buf, of which a string is made all the same, is unspecified.
Strftime(t) ==
  /\ pc[t] = "strftime"
  /\ \E n \in Lengths :
       pc' = [pc EXCEPT ![t] = IF Fits(n) THEN "text" ELSE "unspecified"]
  /\ UNCHANGED <<shared, time, tm, todo, others>>

Next ==
  \E t \in Threads :
    \/ Now(t)
    \/ \E f \in Fields : LocaltimeField(t, f) \/ CopyField(t, f)
    \/ Strftime(t)

Spec == Init /\ [][Next]_vars

--------------------------------------------------------------------------------

\* Every field of a text is that of a time read by the call or by one that
\* overlapped it: nothing of the calls that had returned before it began is left in
\* the shared struct, and a call that none overlapped returns the time it read.
NoStaleField ==
  \A t \in Threads : pc[t] \in {"text", "unspecified"} =>
    \A f \in Fields : \E x \in {time[t]} \cup others[t] : tm[t][f] = x[f]
================================================================================
