----------------------------- MODULE LogUtilsProofs ----------------------------
(***************************************************************************)
(* Theorems about the logger that createLogger makes, for any threads, any *)
(* length of a day and any number of entries, midnights and failures.      *)
(*                                                                         *)
(* The argument is about the next rotation: it is a midnight, no later     *)
(* than the next one, and after the day of the open file and of each file  *)
(* with entries.  So an entry that makes the sink rotate is of a later day *)
(* than all of them.                                                       *)
(***************************************************************************)
EXTENDS LogUtils, FiniteSetTheorems, TLAPS

--------------------------------------------------------------------------------
\* Days and midnights.

LEMMA ProductMonotone ==
  ASSUME NEW a \in Nat, NEW b \in Nat, a <= b
  PROVE  /\ a * DayLength \in Nat /\ b * DayLength \in Nat
         /\ a * DayLength <= b * DayLength
<1>1. DayLength \in Nat
  BY LogUtilsAssumption
<1>2. PICK d \in Nat : b = a + d
  BY SMT
<1>3. b * DayLength = a * DayLength + d * DayLength /\ d * DayLength \in Nat
  BY <1>1, <1>2, SMT
<1>. QED
  BY <1>1, <1>3, SMT

\* A time is on its day: not before the midnight it begins with, and before the next.
LEMMA OnItsDay ==
  ASSUME NEW time \in Nat
  PROVE  /\ Day(time) \in Nat
         /\ Day(time) * DayLength <= time
         /\ time < (Day(time) + 1) * DayLength
<1>. DEFINE q == time \div DayLength
            r == time % DayLength
<1>1. DayLength \in Nat \ {0}
  BY LogUtilsAssumption
<1>2. q \in Nat /\ r \in 0 .. DayLength - 1 /\ time = q * DayLength + r
  BY <1>1, SMT
<1>3. (q + 1) * DayLength = q * DayLength + DayLength /\ q * DayLength \in Nat
  BY <1>1, <1>2, SMT
<1>. QED
  BY <1>1, <1>2, <1>3, SMT DEF Day

\* A time is not before midnight r just if its day is not before day r.
LEMMA NotBeforeMidnight ==
  ASSUME NEW time \in Nat, NEW r \in Nat
  PROVE  r * DayLength \in Nat /\ (time >= r * DayLength <=> Day(time) >= r)
<1>1. r * DayLength \in Nat
  BY ProductMonotone
<1>2. ASSUME Day(time) >= r PROVE time >= r * DayLength
  <2>1. r * DayLength <= Day(time) * DayLength /\ Day(time) * DayLength \in Nat
    BY <1>2, OnItsDay, ProductMonotone
  <2>. QED
    BY <1>1, <2>1, OnItsDay
<1>3. ASSUME Day(time) < r PROVE time < r * DayLength
  <2>1. Day(time) + 1 <= r /\ Day(time) + 1 \in Nat
    BY <1>3, OnItsDay
  <2>2. (Day(time) + 1) * DayLength <= r * DayLength /\ (Day(time) + 1) * DayLength \in Nat
    BY <2>1, ProductMonotone
  <2>. QED
    BY <1>1, <2>2, OnItsDay
<1>. QED
  BY <1>1, <1>2, <1>3, OnItsDay

LEMMA DayMonotone ==
  ASSUME NEW a \in Nat, NEW b \in Nat, a <= b
  PROVE  Day(a) \in Nat /\ Day(b) \in Nat /\ Day(a) <= Day(b)
<1>1. Day(a) \in Nat /\ Day(b) \in Nat /\ Day(a) * DayLength \in Nat
  BY OnItsDay, ProductMonotone
<1>2. b >= Day(a) * DayLength
  BY <1>1, OnItsDay
<1>. QED
  BY <1>1, <1>2, NotBeforeMidnight

LEMMA DayOfMidnight ==
  ASSUME NEW r \in Nat
  PROVE  r * DayLength \in Nat /\ Day(r * DayLength) = r
<1>1. r * DayLength \in Nat /\ (r + 1) * DayLength \in Nat
  BY ProductMonotone
<1>2. (r + 1) * DayLength = r * DayLength + DayLength /\ DayLength \in Nat \ {0}
  BY LogUtilsAssumption, SMT
<1>3. Day(r * DayLength) >= r /\ ~(Day(r * DayLength) >= r + 1)
  BY <1>1, <1>2, NotBeforeMidnight
<1>. QED
  BY <1>1, <1>3, OnItsDay

\* The days that the clock shows are those of the files.
LEMMA DayInDays ==
  ASSUME NEW time \in Times
  PROVE  Day(time) \in Days
BY LogUtilsAssumption, DayMonotone DEF Times, Days

--------------------------------------------------------------------------------
\* The inductive invariant, in parts.

RotationDay == Day(rotation_tp)

Rotating == \E t \in Threads : pc[t] = "rotation"

\* Nothing is logged before createLogger returns.
Setup ==
  /\ phase # "ready" =>
       /\ \A t \in Threads : pc[t] = "idle"
       /\ \A d \in Days : files[d] = {}
  /\ phase = "rotation" => file \in Days /\ file <= Day(clock)

EntriesOwn ==
  \A t \in Threads :
    /\ entry[t].thread = t
    /\ pc[t] # "idle" => entry[t] \in Entries
    /\ entry[t].time <= clock

\* A thread's entries come to the console in order, each before it comes to the file.
ConsoleOK ==
  /\ \A m \in console : m.n <= entry[m.thread].n
                        /\ (m.n = entry[m.thread].n => m = entry[m.thread])
  /\ \A t \in Threads : pc[t] = "console" => entry[t] \notin console
  /\ \A t \in Threads : pc[t] \notin {"idle", "console"} => entry[t] \in console

\* What LoggedOnce says of an entry in no file.
Logged(m) ==
  \/ \E d \in Days : m \in files[d]
  \/ m \in reported.open \cup reported.write
  \/ \E r \in reported.open : Day(m.time) < Day(r.time)

WrittenOnce ==
  /\ \A d \in Days : files[d] \subseteq console
  /\ \A t \in Threads : pc[t] # "idle" => \A d \in Days : entry[t] \notin files[d]
  /\ \A d, e \in Days : files[d] \cap files[e] # {} => d = e

\* There is no file only while one is being opened, or after an open failed for an entry
\* that is not before the next rotation; what is written then is before it.
LossOK ==
  /\ phase = "ready" /\ file = NoFile =>
       \/ \E t \in Threads : pc[t] = "open"
       \/ \E r \in reported.open : Day(r.time) >= RotationDay
  /\ \A t \in Threads : pc[t] = "write" /\ file = NoFile => Day(entry[t].time) < RotationDay
  /\ \A m \in Finished : Logged(m)

\* The next rotation is a midnight after the open file and every file with entries.
RotationOK ==
  /\ rotation_tp = RotationDay * DayLength
  /\ RotationDay <= Day(clock) + 1
  /\ \A d \in Days : files[d] # {} => d < RotationDay
  /\ phase = "ready" /\ file # NoFile /\ ~Rotating => file < RotationDay

FileIsLast ==
  file # NoFile => \A e \in Days : files[e] # {} => e <= file

\* What a thread that rotates knows.
RotatorOK ==
  \A t \in Threads :
    /\ pc[t] = "open" => file = NoFile /\ Day(entry[t].time) >= RotationDay
    /\ pc[t] = "rotation" => file = Day(entry[t].time) /\ file >= RotationDay

\* The next rotation is a day after the clock's when the open of the file was over.
DayOK ==
  /\ NoLaterThanOpened
  /\ phase = "ready" /\ file # NoFile /\ ~Rotating => RotationDay = opened[file] + 1
  /\ \A t \in Threads : pc[t] = "write" /\ file # NoFile => Day(entry[t].time) <= opened[file]

IInv ==
  /\ TypeOK /\ Setup /\ EntriesOwn /\ ConsoleOK /\ WrittenOnce
  /\ LossOK /\ RotationOK /\ FileIsLast /\ RotatorOK /\ DayOK

--------------------------------------------------------------------------------
\* What the types say of times and days.

LEMMA TypesOfTimes ==
  ASSUME TypeOK
  PROVE  /\ clock \in Nat /\ Day(clock) \in Nat /\ Day(clock) \in Days
         /\ RotationDay \in Nat /\ Days \subseteq Nat
         /\ \A t \in Threads : /\ entry[t].n \in Nat /\ entry[t].time \in Nat
                               /\ Day(entry[t].time) \in Nat
         /\ \A m \in Entries : /\ m.thread \in Threads /\ m.n \in Nat /\ m.time \in Times
                               /\ Day(m.time) \in Nat /\ Day(m.time) \in Days
<1>1. clock \in Times /\ Times \subseteq Nat /\ rotation_tp \in Nat
  BY LogUtilsAssumption DEF TypeOK, Times
<1>2. Days \subseteq Nat
  BY DEF Days
<1>3. ASSUME NEW m \in Entries
      PROVE  m.thread \in Threads /\ m.n \in Nat /\ m.time \in Times
  BY LogUtilsAssumption DEF Entries
<1>4. ASSUME NEW t \in Threads
      PROVE  entry[t].n \in Nat /\ entry[t].time \in Nat
  <2>1. \/ entry[t] \in Entries
        \/ \E u \in Threads : entry[t] = [thread |-> u, n |-> 0, time |-> 0]
    BY DEF TypeOK
  <2>2. CASE entry[t] \in Entries
    BY <1>1, <1>3, <2>2
  <2>3. CASE \E u \in Threads : entry[t] = [thread |-> u, n |-> 0, time |-> 0]
    BY <2>3
  <2>. QED
    BY <2>1, <2>2, <2>3
<1>. QED
  BY <1>1, <1>2, <1>3, <1>4, OnItsDay, DayInDays DEF RotationDay

LEMMA InitInvariant == Init => IInv
<1>. SUFFICES ASSUME Init PROVE IInv
  OBVIOUS
<1>. USE DEF Init
<1>1. DayLength \in Nat \ {0} /\ MaxTime \in Nat /\ MaxFailures \in Nat
  BY LogUtilsAssumption
<1>2. TypeOK
  <2>1. Held
    BY LogUtilsAssumption DEF Held
  <2>2. clock \in Times /\ failures \in 0 .. MaxFailures /\ rotation_tp \in Nat
    BY <1>1
  <2>3. entry \in [Threads -> Entries \cup {[thread |-> t, n |-> 0, time |-> 0] : t \in Threads}]
    OBVIOUS
  <2>. QED
    BY <2>1, <2>2, <2>3 DEF TypeOK
<1>3. /\ RotationDay \in Nat /\ Day(clock) \in Nat /\ clock \in Nat
  BY <1>2, TypesOfTimes
<1>4. RotationDay = 0 /\ 0 * DayLength = 0
  BY <1>1, DayOfMidnight DEF RotationDay
<1>5. Setup /\ ConsoleOK /\ WrittenOnce /\ FileIsLast /\ RotatorOK /\ DayOK
  BY DEF Setup, ConsoleOK, WrittenOnce, FileIsLast, RotatorOK, DayOK, NoLaterThanOpened
<1>6. EntriesOwn
  BY <1>3 DEF EntriesOwn
<1>7. LossOK
  BY DEF LossOK, Finished
<1>8. RotationOK
  BY <1>3, <1>4 DEF RotationOK
<1>. QED
  BY <1>2, <1>5, <1>6, <1>7, <1>8 DEF IInv

--------------------------------------------------------------------------------
\* The clock and createLogger keep the invariant.

LEMMA TickInvariant ==
  ASSUME IInv, Tick
  PROVE  IInv'
<1>. USE DEF IInv, Tick
<1>1. /\ clock \in Nat /\ clock' \in Times /\ clock' \in Nat /\ clock < clock'
      /\ Day(clock) \in Nat /\ Day(clock') \in Nat /\ Day(clock) <= Day(clock')
      /\ RotationDay \in Nat /\ RotationDay' = RotationDay
  <2>1. clock \in Times /\ clock' = clock + 1 /\ clock < MaxTime /\ MaxTime \in Nat
    BY LogUtilsAssumption DEF TypeOK
  <2>2. clock \in Nat /\ clock' \in Times /\ clock' \in Nat
    BY <2>1 DEF Times
  <2>. QED
    BY <2>1, <2>2, DayMonotone, TypesOfTimes DEF RotationDay
<1>2. TypeOK'
  BY <1>1 DEF TypeOK, Held
<1>3. Setup'
  BY <1>1 DEF Setup, TypeOK, Days
<1>4. EntriesOwn'
  BY <1>1, TypesOfTimes DEF EntriesOwn
<1>5. ConsoleOK' /\ WrittenOnce' /\ LossOK'
  BY <1>1 DEF ConsoleOK, WrittenOnce, LossOK, Finished, Logged
<1>6. RotationOK'
  BY <1>1 DEF RotationOK, Rotating
<1>7. FileIsLast' /\ RotatorOK' /\ DayOK'
  BY <1>1 DEF FileIsLast, RotatorOK, DayOK, NoLaterThanOpened, Rotating
<1>. QED
  BY <1>2, <1>3, <1>4, <1>5, <1>6, <1>7

LEMMA CreateFileInvariant ==
  ASSUME IInv, CreateFile
  PROVE  IInv'
<1>. USE DEF IInv, CreateFile, Opens, OpenFails
<1>1. /\ Day(clock) \in Days /\ Day(clock) \in Nat /\ phase = "open" /\ phase' # "ready"
      /\ RotationDay' = RotationDay
  BY TypesOfTimes DEF RotationDay
<1>2. TypeOK'
  BY <1>1, LogUtilsAssumption DEF TypeOK, Held
<1>3. Setup'
  BY <1>1 DEF Setup
<1>4. EntriesOwn' /\ ConsoleOK' /\ WrittenOnce'
  BY DEF EntriesOwn, ConsoleOK, WrittenOnce
<1>5. LossOK'
  BY <1>1 DEF LossOK, Finished, Logged, Setup
<1>6. RotationOK'
  BY <1>1 DEF RotationOK
<1>7. FileIsLast' /\ RotatorOK' /\ DayOK'
  BY <1>1 DEF FileIsLast, RotatorOK, DayOK, NoLaterThanOpened, Setup
<1>. QED
  BY <1>2, <1>3, <1>4, <1>5, <1>6, <1>7

\* Where the sink computes the next rotation, it is the next midnight.
LEMMA NextMidnight ==
  ASSUME TypeOK, SetRotation
  PROVE  /\ rotation_tp' \in Nat /\ RotationDay' = Day(clock) + 1
         /\ rotation_tp' = RotationDay' * DayLength
         /\ opened' \in [Days -> Days]
         /\ file \in Days => opened'[file] = Day(clock)
         /\ \A d \in Days : d # file => opened'[d] = opened[d]
<1>1. Day(clock) + 1 \in Nat /\ rotation_tp' = (Day(clock) + 1) * DayLength
  BY TypesOfTimes DEF SetRotation, next_rotation_tp
<1>2. /\ Day(clock) \in Days /\ opened \in [Days -> Days]
      /\ opened' = [opened EXCEPT ![file] = Day(clock)]
  BY TypesOfTimes DEF TypeOK, SetRotation
<1>. QED
  BY <1>1, <1>2, DayOfMidnight DEF RotationDay

LEMMA FirstRotationInvariant ==
  ASSUME IInv, FirstRotation
  PROVE  IInv'
<1>. USE DEF IInv, FirstRotation
<1>1. /\ rotation_tp' \in Nat /\ RotationDay' = Day(clock) + 1
      /\ rotation_tp' = RotationDay' * DayLength /\ Day(clock) \in Nat
      /\ opened' \in [Days -> Days] /\ (file \in Days => opened'[file] = Day(clock))
  BY NextMidnight, TypesOfTimes
<1>2. /\ \A t \in Threads : pc[t] = "idle"
      /\ \A d \in Days : files[d] = {}
      /\ file \in Days /\ file \in Nat /\ file # NoFile /\ file <= Day(clock)
  BY LogUtilsAssumption, TypesOfTimes DEF Setup
<1>3. TypeOK'
  BY <1>1 DEF TypeOK, Held
<1>4. Setup' /\ EntriesOwn' /\ ConsoleOK' /\ WrittenOnce'
  BY DEF Setup, EntriesOwn, ConsoleOK, WrittenOnce
<1>5. LossOK'
  BY <1>2 DEF LossOK, Finished, Logged
<1>6. RotationOK'
  BY <1>1, <1>2 DEF RotationOK
<1>7. FileIsLast' /\ RotatorOK'
  BY <1>2 DEF FileIsLast, RotatorOK
<1>8. DayOK'
  BY <1>1, <1>2 DEF DayOK, NoLaterThanOpened
<1>. QED
  BY <1>3, <1>4, <1>5, <1>6, <1>7, <1>8

--------------------------------------------------------------------------------
\* So does each step of a thread.

LEMMA LogInvariant ==
  ASSUME IInv, NEW t \in Threads, Log(t)
  PROVE  IInv'
<1>. USE DEF IInv, Log, Goto
<1>1. /\ phase = "ready" /\ pc[t] = "idle" /\ pc' = [pc EXCEPT ![t] = "console"]
      /\ entry' = [entry EXCEPT ![t].n = @ + 1, ![t].time = clock]
      /\ entry \in [Threads -> Entries \cup {[thread |-> u, n |-> 0, time |-> 0] : u \in Threads}]
  BY DEF TypeOK
<1>2. /\ entry'[t] \in Entries /\ entry'[t].thread = t /\ entry'[t].time = clock
      /\ entry'[t].n = entry[t].n + 1 /\ entry[t].n \in Nat /\ clock \in Nat
      /\ \A u \in Threads : u # t => entry'[u] = entry[u] /\ pc'[u] = pc[u]
      /\ pc'[t] = "console" /\ RotationDay' = RotationDay
  <2>1. entry[t].thread = t /\ entry[t].n \in Nat /\ entry[t].n + 1 \in 1 .. MaxCalls
    BY TypesOfTimes, LogUtilsAssumption DEF EntriesOwn
  <2>2. entry'[t] = [thread |-> t, n |-> entry[t].n + 1, time |-> clock]
    <3>1. CASE entry[t] \in Entries
      BY <1>1, <2>1, <3>1 DEF Entries
    <3>2. CASE \E u \in Threads : entry[t] = [thread |-> u, n |-> 0, time |-> 0]
      BY <1>1, <2>1, <3>2
    <3>. QED
      BY <1>1, <3>1, <3>2
  <2>3. clock \in Times /\ clock \in Nat
    BY TypesOfTimes DEF TypeOK
  <2>. QED
    BY <1>1, <2>1, <2>2, <2>3 DEF TypeOK, Entries, RotationDay
<1>3. \A m \in console : m # entry'[t]
  <2>. SUFFICES ASSUME NEW m \in console, m = entry'[t]
                PROVE  FALSE
    OBVIOUS
  <2>1. m.thread = t /\ m.n = entry[t].n + 1
    BY <1>2
  <2>2. m.n <= entry[t].n
    BY <2>1 DEF ConsoleOK
  <2>. QED
    BY <1>2, <2>1, <2>2
<1>4. TypeOK'
  BY <1>1, <1>2 DEF TypeOK, Held
<1>5. Setup' /\ EntriesOwn'
  BY <1>1, <1>2, TypesOfTimes DEF Setup, EntriesOwn
<1>6. ConsoleOK'
  BY <1>2, <1>3, TypesOfTimes DEF ConsoleOK, TypeOK
<1>7. WrittenOnce'
  BY <1>2, <1>3 DEF WrittenOnce
<1>8. LossOK'
  <2>1. Finished' \subseteq Finished
    BY <1>1, <1>2, TypesOfTimes DEF Finished, TypeOK
  <2>. QED
    BY <1>1, <1>2, <2>1 DEF LossOK, Logged
<1>9. RotationOK' /\ FileIsLast' /\ RotatorOK' /\ DayOK'
  BY <1>1, <1>2 DEF RotationOK, FileIsLast, RotatorOK, DayOK, NoLaterThanOpened, Rotating
<1>. QED
  BY <1>4, <1>5, <1>6, <1>7, <1>8, <1>9

LEMMA ConsoleInvariant ==
  ASSUME IInv, NEW t \in Threads, Console(t)
  PROVE  IInv'
<1>. USE DEF IInv, Console, Goto
<1>1. /\ pc[t] = "console" /\ pc' = [pc EXCEPT ![t] = "file"]
      /\ pc'[t] = "file" /\ \A u \in Threads : u # t => pc'[u] = pc[u]
      /\ entry[t] \in Entries /\ entry[t].thread = t /\ phase = "ready"
      /\ RotationDay' = RotationDay
  BY DEF TypeOK, EntriesOwn, Setup, RotationDay
<1>2. TypeOK'
  BY <1>1 DEF TypeOK, Held
<1>3. Setup' /\ EntriesOwn'
  BY <1>1 DEF Setup, EntriesOwn
<1>4. ConsoleOK'
  BY <1>1, TypesOfTimes DEF ConsoleOK, EntriesOwn, TypeOK
<1>5. WrittenOnce'
  BY <1>1 DEF WrittenOnce
<1>6. LossOK'
  <2>1. Finished' \subseteq Finished
    BY <1>1, TypesOfTimes DEF Finished, TypeOK
  <2>. QED
    BY <1>1, <2>1 DEF LossOK, Logged
<1>7. RotationOK' /\ FileIsLast' /\ RotatorOK' /\ DayOK'
  BY <1>1 DEF RotationOK, FileIsLast, RotatorOK, DayOK, NoLaterThanOpened, Rotating
<1>. QED
  BY <1>2, <1>3, <1>4, <1>5, <1>6, <1>7

LEMMA LockInvariant ==
  ASSUME IInv, NEW t \in Threads, Lock(t)
  PROVE  IInv'
<1>. USE DEF IInv, Lock, Goto
<1>1. /\ pc[t] = "file" /\ pc' = [pc EXCEPT ![t] = "sink_it"]
      /\ pc'[t] = "sink_it" /\ \A u \in Threads : u # t => pc'[u] = pc[u]
      /\ phase = "ready" /\ RotationDay' = RotationDay
  BY DEF TypeOK, Setup, RotationDay
<1>2. TypeOK'
  BY <1>1, LogUtilsAssumption DEF TypeOK, Held
<1>3. Setup' /\ EntriesOwn' /\ ConsoleOK' /\ WrittenOnce'
  BY <1>1 DEF Setup, EntriesOwn, ConsoleOK, WrittenOnce
<1>4. LossOK'
  BY <1>1, TypesOfTimes DEF LossOK, Finished, Logged, TypeOK
<1>5. RotationOK' /\ FileIsLast' /\ RotatorOK' /\ DayOK'
  BY <1>1 DEF RotationOK, FileIsLast, RotatorOK, DayOK, NoLaterThanOpened, Rotating
<1>. QED
  BY <1>2, <1>3, <1>4, <1>5

\* The thread in the file sink is alone there.
LEMMA Alone ==
  ASSUME TypeOK, NEW t \in Threads, pc[t] \in {"sink_it", "open", "rotation", "write"}
  PROVE  /\ mutex = t
         /\ \A u \in Threads : u # t => pc[u] \notin {"sink_it", "open", "rotation", "write"}
BY DEF TypeOK, Held

LEMMA KeepFileInvariant ==
  ASSUME IInv, NEW t \in Threads, KeepFile(t)
  PROVE  IInv'
<1>. USE DEF IInv, KeepFile, Goto
<1>1. /\ pc[t] = "sink_it" /\ pc' = [pc EXCEPT ![t] = "write"]
      /\ pc'[t] = "write" /\ \A u \in Threads : u # t => pc'[u] = pc[u]
      /\ phase = "ready" /\ RotationDay' = RotationDay
  BY DEF TypeOK, Setup, RotationDay
<1>2. /\ Day(entry[t].time) < RotationDay
      /\ entry[t].time \in Nat /\ Day(entry[t].time) \in Nat /\ RotationDay \in Nat
  BY NotBeforeMidnight, TypesOfTimes DEF should_rotate, RotationOK
<1>3. TypeOK'
  BY <1>1 DEF TypeOK, Held
<1>4. Setup' /\ EntriesOwn' /\ ConsoleOK' /\ WrittenOnce'
  BY <1>1 DEF Setup, EntriesOwn, ConsoleOK, WrittenOnce
<1>5. LossOK'
  BY <1>1, <1>2, TypesOfTimes DEF LossOK, Finished, Logged, TypeOK
<1>6. RotationOK' /\ FileIsLast' /\ RotatorOK'
  BY <1>1, Alone DEF RotationOK, FileIsLast, RotatorOK, Rotating
<1>7. DayOK'
  <2>1. ~Rotating
    BY <1>1, Alone DEF Rotating
  <2>2. ASSUME file # NoFile PROVE Day(entry[t].time) <= opened[file]
    <3>1. RotationDay = opened[file] + 1 /\ opened[file] \in Nat
      BY <1>1, <2>1, <2>2, TypesOfTimes DEF DayOK, TypeOK
    <3>. QED
      BY <1>2, <3>1
  <2>. QED
    BY <1>1, <2>1, <2>2 DEF DayOK, NoLaterThanOpened, Rotating
<1>. QED
  BY <1>3, <1>4, <1>5, <1>6, <1>7

LEMMA CloseInvariant ==
  ASSUME IInv, NEW t \in Threads, Close(t)
  PROVE  IInv'
<1>. USE DEF IInv, Close, Goto
<1>1. /\ pc[t] = "sink_it" /\ pc' = [pc EXCEPT ![t] = "open"]
      /\ pc'[t] = "open" /\ \A u \in Threads : u # t => pc'[u] = pc[u]
      /\ phase = "ready" /\ file' = NoFile /\ RotationDay' = RotationDay
  BY DEF TypeOK, Setup, RotationDay
<1>2. TypeOK'
  BY <1>1 DEF TypeOK, Held
<1>3. Setup' /\ EntriesOwn' /\ ConsoleOK' /\ WrittenOnce'
  BY <1>1 DEF Setup, EntriesOwn, ConsoleOK, WrittenOnce
<1>4. LossOK'
  BY <1>1, Alone, TypesOfTimes DEF LossOK, Finished, Logged, TypeOK
<1>5. RotationOK' /\ FileIsLast' /\ DayOK'
  BY <1>1, Alone DEF RotationOK, FileIsLast, DayOK, NoLaterThanOpened
<1>6. RotatorOK'
  <2>1. Day(entry[t].time) >= RotationDay
    BY NotBeforeMidnight, TypesOfTimes DEF should_rotate, RotationOK
  <2>. QED
    BY <1>1, <2>1, Alone DEF RotatorOK
<1>. QED
  BY <1>2, <1>3, <1>4, <1>5, <1>6

LEMMA RotateInvariant ==
  ASSUME IInv, NEW t \in Threads, Rotate(t)
  PROVE  IInv'
<1>. USE DEF IInv, Rotate, Goto, Opens
<1>1. /\ pc[t] = "open" /\ pc' = [pc EXCEPT ![t] = "rotation"]
      /\ pc'[t] = "rotation" /\ \A u \in Threads : u # t => pc'[u] = pc[u]
      /\ phase = "ready" /\ entry[t] \in Entries /\ RotationDay' = RotationDay
  BY DEF TypeOK, Setup, EntriesOwn, RotationDay
<1>2. /\ file' = Day(entry[t].time) /\ file' \in Days /\ file' \in Nat /\ file' >= RotationDay
      /\ RotationDay \in Nat /\ Days \subseteq Nat
  BY <1>1, TypesOfTimes DEF RotatorOK
<1>3. TypeOK'
  BY <1>1, <1>2 DEF TypeOK, Held
<1>4. Setup' /\ EntriesOwn' /\ ConsoleOK' /\ WrittenOnce'
  BY <1>1 DEF Setup, EntriesOwn, ConsoleOK, WrittenOnce
<1>5. LossOK'
  BY <1>1, <1>2, LogUtilsAssumption, TypesOfTimes DEF LossOK, Finished, Logged, TypeOK
<1>6. RotationOK'
  BY <1>1 DEF RotationOK, Rotating
<1>7. FileIsLast'
  <2>1. \A e \in Days : files'[e] # {} => e \in Nat /\ e < RotationDay
    BY <1>2 DEF RotationOK
  <2>. QED
    BY <1>2, <2>1 DEF FileIsLast
<1>8. RotatorOK' /\ DayOK'
  BY <1>1, <1>2, Alone DEF RotatorOK, DayOK, NoLaterThanOpened, Rotating
<1>. QED
  BY <1>3, <1>4, <1>5, <1>6, <1>7, <1>8

LEMMA RotateThrowsInvariant ==
  ASSUME IInv, NEW t \in Threads, RotateThrows(t)
  PROVE  IInv'
<1>. USE DEF IInv, RotateThrows, Goto, OpenFails
<1>1. /\ pc[t] = "open" /\ pc' = [pc EXCEPT ![t] = "idle"]
      /\ pc'[t] = "idle" /\ \A u \in Threads : u # t => pc'[u] = pc[u]
      /\ phase = "ready" /\ entry[t] \in Entries
      /\ file = NoFile /\ Day(entry[t].time) >= RotationDay
      /\ reported'.open = reported.open \cup {entry[t]} /\ reported'.write = reported.write
      /\ reported' \in [open : SUBSET Entries, write : SUBSET Entries]
      /\ RotationDay' = RotationDay
  BY DEF TypeOK, Setup, EntriesOwn, RotationDay, RotatorOK
<1>2. TypeOK'
  BY <1>1, Alone, LogUtilsAssumption DEF TypeOK, Held
<1>3. Setup' /\ EntriesOwn' /\ ConsoleOK' /\ WrittenOnce'
  BY <1>1 DEF Setup, EntriesOwn, ConsoleOK, WrittenOnce
<1>4. LossOK'
  <2>1. ASSUME NEW m \in Finished' PROVE Logged(m)'
    <3>1. m \in Finished \/ m = entry[t]
      BY <1>1, TypesOfTimes DEF Finished, TypeOK
    <3>. QED
      BY <1>1, <3>1 DEF LossOK, Logged
  <2>. QED
    BY <1>1, <2>1, Alone DEF LossOK
<1>5. RotationOK' /\ FileIsLast' /\ RotatorOK' /\ DayOK'
  BY <1>1, Alone DEF RotationOK, FileIsLast, RotatorOK, DayOK, NoLaterThanOpened, Rotating
<1>. QED
  BY <1>2, <1>3, <1>4, <1>5

LEMMA WriteThrowsInvariant ==
  ASSUME IInv, NEW t \in Threads, WriteThrows(t)
  PROVE  IInv'
<1>. USE DEF IInv, WriteThrows, Goto
<1>1. /\ pc[t] = "write" /\ pc' = [pc EXCEPT ![t] = "idle"]
      /\ pc'[t] = "idle" /\ \A u \in Threads : u # t => pc'[u] = pc[u]
      /\ phase = "ready" /\ entry[t] \in Entries
      /\ file # NoFile
      /\ reported'.write = reported.write \cup {entry[t]} /\ reported'.open = reported.open
      /\ reported' \in [open : SUBSET Entries, write : SUBSET Entries]
      /\ RotationDay' = RotationDay
  BY DEF TypeOK, Setup, EntriesOwn, RotationDay, RotatorOK
<1>2. TypeOK'
  BY <1>1, Alone, LogUtilsAssumption DEF TypeOK, Held
<1>3. Setup' /\ EntriesOwn' /\ ConsoleOK' /\ WrittenOnce'
  BY <1>1 DEF Setup, EntriesOwn, ConsoleOK, WrittenOnce
<1>4. LossOK'
  <2>1. ASSUME NEW m \in Finished' PROVE Logged(m)'
    <3>1. m \in Finished \/ m = entry[t]
      BY <1>1, TypesOfTimes DEF Finished, TypeOK
    <3>. QED
      BY <1>1, <3>1 DEF LossOK, Logged
  <2>. QED
    BY <1>1, <2>1, Alone DEF LossOK
<1>5. RotationOK' /\ FileIsLast' /\ RotatorOK' /\ DayOK'
  BY <1>1, Alone DEF RotationOK, FileIsLast, RotatorOK, DayOK, NoLaterThanOpened, Rotating
<1>. QED
  BY <1>2, <1>3, <1>4, <1>5

LEMMA NextRotationInvariant ==
  ASSUME IInv, NEW t \in Threads, NextRotation(t)
  PROVE  IInv'
<1>. USE DEF IInv, NextRotation, Goto
<1>1. /\ pc[t] = "rotation" /\ pc' = [pc EXCEPT ![t] = "write"]
      /\ pc'[t] = "write" /\ \A u \in Threads : u # t => pc'[u] = pc[u]
      /\ phase = "ready"
  BY DEF TypeOK, Setup
<1>2. /\ rotation_tp' \in Nat /\ RotationDay' = Day(clock) + 1
      /\ rotation_tp' = RotationDay' * DayLength
      /\ RotationDay \in Nat /\ Day(clock) \in Nat /\ Days \subseteq Nat
      /\ opened' \in [Days -> Days]
      /\ file \in Days => opened'[file] = Day(clock)
      /\ \A d \in Days : d # file => opened'[d] = opened[d]
  BY NextMidnight, TypesOfTimes
<1>3. /\ file = Day(entry[t].time) /\ file \in Nat /\ file <= Day(clock)
      /\ file # NoFile /\ file \in Days /\ files[file] = {}
  <2>1. file = Day(entry[t].time) /\ file >= RotationDay /\ entry[t].time <= clock
    BY <1>1 DEF RotatorOK, EntriesOwn
  <2>2. file \in Nat /\ file <= Day(clock) /\ file # NoFile /\ file \in Days
    BY <2>1, DayMonotone, TypesOfTimes, LogUtilsAssumption DEF TypeOK
  <2>3. files[file] = {}
    BY <1>2, <2>1, <2>2 DEF RotationOK
  <2>. QED
    BY <2>1, <2>2, <2>3
<1>4. TypeOK'
  BY <1>1, <1>2 DEF TypeOK, Held
<1>5. Setup' /\ EntriesOwn' /\ ConsoleOK' /\ WrittenOnce'
  BY <1>1 DEF Setup, EntriesOwn, ConsoleOK, WrittenOnce
<1>6. LossOK'
  BY <1>1, <1>3, Alone, TypesOfTimes DEF LossOK, Finished, Logged, TypeOK
<1>7. RotationOK'
  BY <1>2, <1>3 DEF RotationOK
<1>8. FileIsLast'
  BY DEF FileIsLast
<1>9. RotatorOK'
  BY <1>1, Alone DEF RotatorOK
<1>10. DayOK'
  <2>1. NoLaterThanOpened'
    BY <1>2, <1>3 DEF DayOK, NoLaterThanOpened
  <2>2. \A u \in Threads : u # t => pc'[u] # "write"
    BY <1>1, Alone
  <2>. QED
    BY <1>1, <1>2, <1>3, <2>1, <2>2 DEF DayOK
<1>. QED
  BY <1>4, <1>5, <1>6, <1>7, <1>8, <1>9, <1>10

LEMMA WriteInvariant ==
  ASSUME IInv, NEW t \in Threads, Write(t)
  PROVE  IInv'
<1>. USE DEF IInv, Write, Goto
<1>1. /\ pc[t] = "write" /\ pc' = [pc EXCEPT ![t] = "idle"]
      /\ pc'[t] = "idle" /\ \A u \in Threads : u # t => pc'[u] = pc[u]
      /\ phase = "ready" /\ RotationDay' = RotationDay
      /\ entry[t] \in Entries /\ entry[t].thread = t
      /\ files \in [Days -> SUBSET Entries]
  BY DEF TypeOK, Setup, EntriesOwn, RotationDay
<1>2. /\ \A u \in Threads : pc[u] # "open"
      /\ ~Rotating
  BY <1>1, Alone DEF Rotating
<1>3. /\ files' \in [Days -> SUBSET Entries]
      /\ file = NoFile => files' = files
      /\ file # NoFile => /\ file \in Days /\ file \in Nat
                          /\ files'[file] = files[file] \cup {entry[t]}
                          /\ \A d \in Days : d # file => files'[d] = files[d]
  BY <1>1, TypesOfTimes DEF TypeOK
<1>4. TypeOK'
  BY <1>1, <1>3, Alone, LogUtilsAssumption DEF TypeOK, Held
<1>5. Setup' /\ EntriesOwn'
  BY <1>1 DEF Setup, EntriesOwn
<1>6. ConsoleOK'
  BY <1>1 DEF ConsoleOK
<1>7. WrittenOnce'
  <2>1. entry[t] \in console /\ \A d \in Days : entry[t] \notin files[d]
    BY <1>1 DEF ConsoleOK, WrittenOnce
  <2>2. ASSUME NEW u \in Threads, u # t PROVE entry[u] # entry[t]
    BY <1>1, <2>2 DEF EntriesOwn
  <2>. QED
    BY <1>1, <1>3, <2>1, <2>2 DEF WrittenOnce
<1>8. LossOK'
  <2>1. ASSUME file = NoFile
        PROVE  \E r \in reported.open : Day(entry[t].time) < Day(r.time)
    <3>1. PICK r \in reported.open : Day(r.time) >= RotationDay
      BY <1>1, <1>2, <2>1 DEF LossOK
    <3>2. Day(entry[t].time) < RotationDay
      BY <1>1, <2>1 DEF LossOK
    <3>3. Day(r.time) \in Nat /\ RotationDay \in Nat /\ Day(entry[t].time) \in Nat
      <4>1. r \in Entries
        BY DEF TypeOK
      <4>. QED
        BY <4>1, TypesOfTimes
    <3>. QED
      BY <3>1, <3>2, <3>3
  <2>2. ASSUME NEW m \in Finished', m \notin Finished PROVE m = entry[t]
    BY <1>1, <2>2, TypesOfTimes DEF Finished, TypeOK
  <2>3. \A d \in Days : files[d] \subseteq files'[d]
    BY <1>3
  <2>4. ASSUME NEW m \in Finished' PROVE Logged(m)'
    <3>1. CASE m \in Finished
      BY <2>3, <3>1 DEF LossOK, Logged
    <3>2. CASE m = entry[t]
      BY <1>3, <2>1, <3>2 DEF Logged
    <3>. QED
      BY <2>2, <3>1, <3>2
  <2>. QED
    BY <1>1, <1>2, <2>4 DEF LossOK
<1>9. RotationOK'
  BY <1>1, <1>2, <1>3 DEF RotationOK, Rotating
<1>10. FileIsLast'
  BY <1>3, TypesOfTimes DEF FileIsLast
<1>11. RotatorOK'
  BY <1>1 DEF RotatorOK
<1>12. DayOK'
  BY <1>1, <1>2, <1>3 DEF DayOK, NoLaterThanOpened, Rotating
<1>. QED
  BY <1>4, <1>5, <1>6, <1>7, <1>8, <1>9, <1>10, <1>11, <1>12

--------------------------------------------------------------------------------
\* So every step does, and the theorems follow.

LEMMA StepInvariant == IInv /\ [Next]_vars => IInv'
<1>. SUFFICES ASSUME IInv, [Next]_vars PROVE IInv'
  OBVIOUS
<1>1. CASE Tick
  BY <1>1, TickInvariant
<1>2. CASE CreateFile
  BY <1>2, CreateFileInvariant
<1>3. CASE FirstRotation
  BY <1>3, FirstRotationInvariant
<1>4. ASSUME NEW t \in Threads, Log(t) \/ Step(t) PROVE IInv'
  BY <1>4, LogInvariant, ConsoleInvariant, LockInvariant, KeepFileInvariant, CloseInvariant,
     RotateInvariant, RotateThrowsInvariant, NextRotationInvariant, WriteInvariant,
     WriteThrowsInvariant DEF Step
<1>5. CASE UNCHANGED vars
  BY <1>5 DEF vars, IInv, TypeOK, Held, Setup, EntriesOwn, ConsoleOK, WrittenOnce, LossOK,
     Finished, Logged, RotationOK, RotationDay, Rotating, FileIsLast, RotatorOK, DayOK,
     NoLaterThanOpened
<1>. QED
  BY <1>1, <1>2, <1>3, <1>4, <1>5 DEF Next

\* The invariant holds of whatever the threads and the clock do: the sink computes its
\* next rotation as the midnight after its open file, so no later entry goes back.
THEOREM Invariance == Spec => []IInv
<1>. QED
  BY InitInvariant, StepInvariant, PTL DEF Spec

\* The variables keep their types, and the file sink's mutex is held by the one thread
\* that is in the sink, also when the sink throws (base_sink's lock_guard).
THEOREM TypeCorrect == Spec => []TypeOK
<1>1. IInv => TypeOK
  BY DEF IInv
<1>. QED
  BY Invariance, <1>1, PTL

\* An entry in the file is on the console.  An entry whose call has returned is in just one
\* file, unless the open or the write threw for it, which logger::sink_it_ reports, or the
\* open threw for an entry of a later day.
THEOREM EachLoggedOnce == Spec => []LoggedOnce
<1>1. ASSUME IInv PROVE LoggedOnce
  <2>1. Written \subseteq console
    BY <1>1 DEF IInv, WrittenOnce, Written
  <2>2. ASSUME NEW m \in Finished
        PROVE  LET in == {d \in Days : m \in files[d]}
               IN  /\ Cardinality(in) <= 1
                   /\ in = {} => \/ m \in reported.open \cup reported.write
                                 \/ \E r \in reported.open : Day(m.time) < Day(r.time)
    <3>. DEFINE in == {d \in Days : m \in files[d]}
    <3>1. \A d, e \in in : d = e
      BY <1>1 DEF IInv, WrittenOnce
    <3>2. in = {} \/ \E d \in Days : in = {d}
      BY <3>1
    <3>3. Cardinality(in) <= 1
      <4>1. CASE in = {}
        BY <4>1, FS_EmptySet
      <4>2. ASSUME NEW d \in Days, in = {d} PROVE Cardinality(in) <= 1
        <5>1. Cardinality({d}) = 1
          BY FS_Singleton
        <5>. QED
          BY <4>2, <5>1
      <4>. QED
        BY <3>2, <4>1, <4>2
    <3>4. in = {} => \/ m \in reported.open \cup reported.write
                     \/ \E r \in reported.open : Day(m.time) < Day(r.time)
      BY <1>1 DEF IInv, LossOK, Logged
    <3>. QED
      BY <3>3, <3>4
  <2>. QED
    BY <2>1, <2>2 DEF LoggedOnce
<1>. QED
  BY Invariance, <1>1, PTL

\* An entry is of no later day than that on which daily_file_sink::sink_it_ read the clock
\* for the next rotation with the entry's file open: that day, not the one in the name of
\* the file, is what the sink keeps to.
THEOREM NothingBeyondTheOpening == Spec => []NoLaterThanOpened
<1>1. IInv => NoLaterThanOpened
  BY DEF IInv, DayOK
<1>. QED
  BY Invariance, <1>1, PTL

\* The sink does not come back to the file of a day once a later one has entries, though
\* entries may have waited for its mutex over several midnights.
THEOREM OldFilesStayAsTheyAre == Spec => OldFilesStay
<1>1. ASSUME IInv, [Next]_vars
      PROVE  [\A d, e \in Days : d < e /\ files[e] # {} => files'[d] = files[d]]_vars
  <2>1. ASSUME NEW t \in Threads, Write(t), NEW d \in Days, NEW e \in Days, d < e, files[e] # {}
        PROVE  files'[d] = files[d]
    <3>1. CASE file = NoFile
      BY <2>1, <3>1 DEF Write
    <3>2. CASE file # NoFile
      <4>1. file \in Nat /\ e <= file /\ d \in Nat /\ e \in Nat /\ d # file
        BY <1>1, <2>1, <3>2, TypesOfTimes DEF IInv, FileIsLast, TypeOK
      <4>. QED
        BY <1>1, <2>1, <4>1 DEF Write, IInv, TypeOK
    <3>. QED
      BY <3>1, <3>2
  <2>2. files' = files \/ (\E t \in Threads : Write(t)) \/ UNCHANGED vars
    BY <1>1 DEF Next, Step, Tick, CreateFile, FirstRotation, Log, Console, Lock, KeepFile,
       Close, Rotate, RotateThrows, NextRotation, WriteThrows
  <2>. QED
    BY <2>1, <2>2 DEF vars
<1>. QED
  BY Invariance, <1>1, PTL DEF Spec, OldFilesStay

================================================================================
