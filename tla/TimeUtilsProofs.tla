---------------------------- MODULE TimeUtilsProofs ----------------------------
(***************************************************************************)
(* The theorem about TimeUtils: a call returns nothing of calls that had   *)
(* returned before it began, for any number of threads, any fields and any *)
(* clock.                                                                  *)
(*                                                                         *)
(* IInv says what the shared struct holds during a call: the fields that   *)
(* localtime has written for a call are the call's own or those of a call  *)
(* that overlaps it, and stay so because only a call that overlaps it can  *)
(* write them again (Overlap).                                             *)
(***************************************************************************)
EXTENDS TimeUtils, TLAPS

\* v is field f of a time that t's call or one that overlaps it has read.
Live(t, f, v) == \E x \in {time[t]} \cup others[t] : v = x[f]

\* Two calls that overlap know each other's time.
Overlap ==
  \A t, u \in Threads : t # u /\ InCall(t) /\ InCall(u) => time[u] \in others[t]

\* The fields that localtime has written for t.
SharedLive ==
  \A t \in Threads : \A f \in Fields :
    pc[t] = "copy" \/ (pc[t] = "localtime" /\ f \notin todo[t]) => Live(t, f, shared[f])

\* The fields that t has copied.
CopyLive ==
  \A t \in Threads : \A f \in Fields :
    pc[t] \in {"strftime", "text", "unspecified"} \/ (pc[t] = "copy" /\ f \notin todo[t])
      => Live(t, f, tm[t][f])

IInv == TypeOK /\ Overlap /\ SharedLive /\ CopyLive

\* Initially no thread is in a call.
LEMMA InitIInv == Init => IInv
<1> SUFFICES ASSUME Init PROVE IInv
    OBVIOUS
<1>1. TypeOK
      BY TimeUtilsAssumption DEF Init, TypeOK, Steps
<1>2. Overlap /\ SharedLive /\ CopyLive
      BY DEF Init, Overlap, SharedLive, CopyLive, InCall
<1>3. QED BY <1>1, <1>2 DEF IInv

\* A new call learns the times of those that are running, and they learn its time.
LEMMA NowStep == ASSUME NEW t \in Threads, IInv, Now(t) PROVE IInv'
<1>1. PICK now \in Times :
        /\ time' = [time EXCEPT ![t] = now]
        /\ pc' = [pc EXCEPT ![t] = FirstStep(t, now)]
        /\ others' = [u \in Threads |->
             IF u = t THEN {time[v] : v \in {w \in Threads \ {t} : InCall(w)}}
             ELSE IF InCall(u) THEN others[u] \cup {now} ELSE others[u]]
      BY DEF Now
<1>2. /\ ~InCall(t) /\ todo' = [todo EXCEPT ![t] = Fields]
      /\ shared' = shared /\ tm' = tm
      BY DEF Now
<1>3. TypeOK'
      BY <1>1, <1>2 DEF IInv, TypeOK, Steps, FirstStep
<1>4. pc'[t] = "localtime" /\ todo'[t] = Fields /\ time'[t] = now
      BY <1>1, <1>2 DEF IInv, TypeOK, FirstStep
<1>5. ASSUME NEW u \in Threads, u # t
      PROVE  /\ pc'[u] = pc[u] /\ time'[u] = time[u] /\ todo'[u] = todo[u]
             /\ others[u] \subseteq others'[u]
      BY <1>1, <1>2, <1>5 DEF IInv, TypeOK
<1>6. Overlap'
  <2> SUFFICES ASSUME NEW u \in Threads, NEW v \in Threads, u # v,
                      InCall(u)', InCall(v)'
               PROVE  time'[v] \in others'[u]
      BY DEF Overlap
  <2>1. CASE u = t
        BY <2>1, <1>1, <1>5 DEF InCall
  <2>2. CASE v = t
        BY <2>2, <1>1, <1>4, <1>5 DEF InCall
  <2>3. CASE u # t /\ v # t
        BY <2>3, <1>5 DEF IInv, Overlap, InCall
  <2>4. QED BY <2>1, <2>2, <2>3
<1>7. SharedLive'
  <2> SUFFICES ASSUME NEW u \in Threads, NEW f \in Fields,
                      (pc[u] = "copy" \/ (pc[u] = "localtime" /\ f \notin todo[u]))'
               PROVE  Live(u, f, shared[f])'
      BY DEF SharedLive
  <2>1. u # t
        BY <1>4
  <2>2. Live(u, f, shared[f])
        BY <2>1, <1>5 DEF IInv, SharedLive
  <2>3. QED BY <2>1, <2>2, <1>2, <1>5 DEF Live
<1>8. CopyLive'
  <2> SUFFICES ASSUME NEW u \in Threads, NEW f \in Fields,
                      (\/ pc[u] \in {"strftime", "text", "unspecified"}
                       \/ pc[u] = "copy" /\ f \notin todo[u])'
               PROVE  Live(u, f, tm[u][f])'
      BY DEF CopyLive
  <2>1. u # t
        BY <1>4
  <2>2. Live(u, f, tm[u][f])
        BY <2>1, <1>5 DEF IInv, CopyLive
  <2>3. QED BY <2>1, <2>2, <1>2, <1>5 DEF Live
<1>9. QED BY <1>3, <1>6, <1>7, <1>8 DEF IInv

\* A field written for one call is live for all that overlap it.
LEMMA LocaltimeStep ==
  ASSUME NEW t \in Threads, NEW f \in Fields, IInv, LocaltimeField(t, f)
  PROVE  IInv'
<1>1. /\ pc[t] = "localtime" /\ f \in todo[t]
      /\ shared' = [shared EXCEPT ![f] = time[t][f]]
      /\ time' = time /\ tm' = tm /\ others' = others
      BY DEF LocaltimeField, Advance
<1>2. \/ /\ todo[t] = {f}
         /\ pc' = [pc EXCEPT ![t] = "copy"] /\ todo' = [todo EXCEPT ![t] = Fields]
      \/ pc' = pc /\ todo' = [todo EXCEPT ![t] = @ \ {f}]
      BY DEF LocaltimeField, Advance
<1>3. time[t][f] \in Values
      BY TimeUtilsAssumption DEF IInv, TypeOK
<1>4. TypeOK'
      BY <1>1, <1>2, <1>3 DEF IInv, TypeOK, Steps
<1>5. \A u \in Threads : InCall(u)' = InCall(u)
      BY <1>1, <1>2 DEF IInv, TypeOK, InCall
<1>6. Overlap'
      BY <1>1, <1>5 DEF IInv, Overlap
<1>7. ASSUME NEW u \in Threads, InCall(u)
      PROVE  Live(u, f, time[t][f])
      BY <1>1, <1>7 DEF IInv, Overlap, InCall, Live
<1>8. SharedLive'
  <2> SUFFICES ASSUME NEW u \in Threads, NEW g \in Fields,
                      (pc[u] = "copy" \/ (pc[u] = "localtime" /\ g \notin todo[u]))'
               PROVE  Live(u, g, shared[g])'
      BY DEF SharedLive
  <2>1. InCall(u)
        BY <1>5 DEF InCall
  <2>2. CASE g = f
        BY <2>1, <2>2, <1>1, <1>7 DEF Live, IInv, TypeOK
  <2>3. CASE g # f
    <3>1. Live(u, g, shared[g])
      <4>1. pc[u] = "copy" \/ (pc[u] = "localtime" /\ g \notin todo[u])
            BY <2>3, <1>1, <1>2 DEF IInv, TypeOK
      <4>2. QED BY <4>1 DEF IInv, SharedLive
    <3>2. QED BY <3>1, <2>3, <1>1 DEF Live, IInv, TypeOK
  <2>4. QED BY <2>2, <2>3
<1>9. CopyLive'
  <2> SUFFICES ASSUME NEW u \in Threads, NEW g \in Fields,
                      (\/ pc[u] \in {"strftime", "text", "unspecified"}
                       \/ pc[u] = "copy" /\ g \notin todo[u])'
               PROVE  Live(u, g, tm[u][g])'
      BY DEF CopyLive
  <2>1. \/ pc[u] \in {"strftime", "text", "unspecified"}
        \/ pc[u] = "copy" /\ g \notin todo[u]
        BY <1>1, <1>2 DEF IInv, TypeOK
  <2>2. QED BY <2>1, <1>1 DEF IInv, CopyLive, Live
<1>10. QED BY <1>4, <1>6, <1>8, <1>9 DEF IInv

\* What is copied is live for the call that copies it.
LEMMA CopyStep ==
  ASSUME NEW t \in Threads, NEW f \in Fields, IInv, CopyField(t, f)
  PROVE  IInv'
<1>1. /\ pc[t] = "copy" /\ f \in todo[t]
      /\ tm' = [tm EXCEPT ![t][f] = shared[f]]
      /\ time' = time /\ shared' = shared /\ others' = others
      BY DEF CopyField, Advance
<1>2. \/ /\ todo[t] = {f}
         /\ pc' = [pc EXCEPT ![t] = "strftime"] /\ todo' = [todo EXCEPT ![t] = Fields]
      \/ pc' = pc /\ todo' = [todo EXCEPT ![t] = @ \ {f}]
      BY DEF CopyField, Advance
<1>3. TypeOK'
      BY <1>1, <1>2 DEF IInv, TypeOK, Steps
<1>4. \A u \in Threads : InCall(u)' = InCall(u)
      BY <1>1, <1>2 DEF IInv, TypeOK, InCall
<1>5. Overlap'
      BY <1>1, <1>4 DEF IInv, Overlap
<1>6. SharedLive'
  <2> SUFFICES ASSUME NEW u \in Threads, NEW g \in Fields,
                      (pc[u] = "copy" \/ (pc[u] = "localtime" /\ g \notin todo[u]))'
               PROVE  Live(u, g, shared[g])'
      BY DEF SharedLive
  <2>1. pc[u] = "copy" \/ (pc[u] = "localtime" /\ g \notin todo[u])
        BY <1>1, <1>2 DEF IInv, TypeOK
  <2>2. QED BY <2>1, <1>1 DEF IInv, SharedLive, Live
<1>7. CopyLive'
  <2> SUFFICES ASSUME NEW u \in Threads, NEW g \in Fields,
                      (\/ pc[u] \in {"strftime", "text", "unspecified"}
                       \/ pc[u] = "copy" /\ g \notin todo[u])'
               PROVE  Live(u, g, tm[u][g])'
      BY DEF CopyLive
  <2>1. CASE u = t /\ g = f
    <3>1. Live(t, f, shared[f])
          BY <1>1 DEF IInv, SharedLive
    <3>2. tm'[t][f] = shared[f]
          BY <1>1 DEF IInv, TypeOK
    <3>3. QED BY <3>1, <3>2, <2>1, <1>1 DEF Live
  <2>2. CASE ~(u = t /\ g = f)
    <3>1. tm'[u][g] = tm[u][g]
          BY <2>2, <1>1 DEF IInv, TypeOK
    <3>2. \/ pc[u] \in {"strftime", "text", "unspecified"}
          \/ pc[u] = "copy" /\ g \notin todo[u]
          BY <2>2, <1>1, <1>2 DEF IInv, TypeOK
    <3>3. QED BY <3>1, <3>2, <1>1 DEF IInv, CopyLive, Live
  <2>3. QED BY <2>1, <2>2
<1>8. QED BY <1>3, <1>5, <1>6, <1>7 DEF IInv

\* Formatting leaves the struct and its copy alone.
LEMMA StrftimeStep == ASSUME NEW t \in Threads, IInv, Strftime(t) PROVE IInv'
<1>1. /\ pc[t] = "strftime"
      /\ \/ pc' = [pc EXCEPT ![t] = "text"]
         \/ pc' = [pc EXCEPT ![t] = "unspecified"]
      /\ shared' = shared /\ time' = time /\ tm' = tm /\ todo' = todo /\ others' = others
      BY DEF Strftime
<1>2. TypeOK'
      BY <1>1 DEF IInv, TypeOK, Steps
<1>3. Overlap'
      BY <1>1 DEF IInv, TypeOK, Overlap, InCall
<1>4. SharedLive'
      BY <1>1 DEF IInv, TypeOK, SharedLive, Live
<1>5. CopyLive'
      BY <1>1 DEF IInv, TypeOK, CopyLive, Live
<1>6. QED BY <1>2, <1>3, <1>4, <1>5 DEF IInv

\* IInv is an invariant.
LEMMA Inductive == Spec => []IInv
<1>1. Init => IInv
      BY InitIInv
<1>2. IInv /\ [Next]_vars => IInv'
  <2> SUFFICES ASSUME IInv, [Next]_vars PROVE IInv'
      OBVIOUS
  <2>1. CASE Next
        BY <2>1, NowStep, LocaltimeStep, CopyStep, StrftimeStep DEF Next
  <2>2. CASE UNCHANGED vars
        BY <2>2 DEF vars, IInv, TypeOK, Overlap, SharedLive, CopyLive, InCall, Live
  <2>3. QED BY <2>1, <2>2
<1>3. QED BY <1>1, <1>2, PTL DEF Spec

\* currentDatetimeStr: every field of a text is that of a time read by the call
\* itself or by one that overlapped it, whatever calls came before.
THEOREM NothingStale == Spec => []NoStaleField
<1>1. IInv => NoStaleField
      BY DEF IInv, CopyLive, Live, NoStaleField
<1>2. QED BY <1>1, Inductive, PTL
================================================================================
