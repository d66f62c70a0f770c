-------------------------------- MODULE LogUtils -------------------------------
(***************************************************************************)
(* The logger that LogUtils::createLogger makes (utils/LogUtils.cpp) and   *)
(* the threads that log with it: a sink for the console, then spdlog's     *)
(* daily_file_sink, which writes to one file a day.                        *)
(*                                                                         *)
(* An entry gets its time when it is made, before it waits for the sinks'  *)
(* mutexes; the clock goes on in between.  Midnight is at the multiples of *)
(* DayLength.  Entries are not filtered by level, and nothing is said of   *)
(* what stdio still buffers, nor of a part of an entry that is in a file.  *)
(***************************************************************************)
EXTENDS Naturals, FiniteSets

CONSTANTS Threads, MaxCalls,      \* a thread's calls
          DayLength, MaxTime,     \* where the clock stops
          MaxFailures,            \* opens and writes of a file that fail
          NoFile, Nobody

ASSUME LogUtilsAssumption ==
  /\ DayLength \in Nat \ {0} /\ MaxTime \in Nat
  /\ MaxCalls \in Nat /\ MaxFailures \in Nat
  /\ NoFile \notin Nat /\ Nobody \notin Threads

Times == 0..MaxTime
Day(time) == time \div DayLength
Days == 0..Day(MaxTime)
Entries == [thread : Threads, n : 1..MaxCalls, time : Times]

VARIABLES
  clock, failures,
  phase,           \* of createLogger
  file,            \* the day in the name of the open file
  rotation_tp,
  mutex,           \* of the file sink: who holds it
  pc, entry,       \* per thread: its next step and what it logs
  console, files,  \* what was written, per day for the files
  reported,        \* entries with which err_handler_ was called: an open or a write threw
  opened           \* per file: the day when the open was over and the clock was read

vars == <<clock, failures, phase, file, rotation_tp, mutex, pc, entry,
          console, files, reported, opened>>

\* The mutex is held by the thread that is in the file sink.
Held ==
  \A t \in Threads : mutex = t <=> pc[t] \in {"sink_it", "open", "rotation", "write"}

TypeOK ==
  /\ Held
  /\ clock \in Times /\ failures \in 0..MaxFailures
  /\ phase \in {"open", "rotation", "ready", "threw"}
  /\ file \in Days \cup {NoFile}
  /\ rotation_tp \in Nat
  /\ mutex \in Threads \cup {Nobody}
  /\ pc \in [Threads -> {"idle", "console", "file", "sink_it", "open", "rotation", "write"}]
  /\ entry \in [Threads -> Entries \cup {[thread |-> t, n |-> 0, time |-> 0] : t \in Threads}]
  /\ console \in SUBSET Entries /\ files \in [Days -> SUBSET Entries]
  /\ reported \in [open : SUBSET Entries, write : SUBSET Entries]
  /\ opened \in [Days -> Days]

Init ==
  /\ clock \in Times /\ Day(clock) = 0 /\ failures = 0
  /\ phase = "open" /\ file = NoFile /\ rotation_tp = 0 /\ mutex = Nobody
  /\ pc = [t \in Threads |-> "idle"]
  /\ entry = [t \in Threads |-> [thread |-> t, n |-> 0, time |-> 0]]
  /\ console = {} /\ files = [d \in Days |-> {}] /\ reported = [open |-> {}, write |-> {}]
  /\ opened = [d \in Days |-> d]

--------------------------------------------------------------------------------
\* The clock, and createLogger.

Tick ==
  /\ clock < MaxTime
  /\ clock' = clock + 1
  /\ UNCHANGED <<failures, phase, file, rotation_tp, mutex, pc, entry,
                 console, files, reported, opened>>

\* The tries to open a file come to an end, in one way or the other.
Opens(day) == file' = day /\ UNCHANGED failures
OpenFails == failures < MaxFailures /\ failures' = failures + 1 /\ UNCHANGED file

\* Mutant: the next rotation is a day from now.
ADayFromNow == clock + DayLength

\* The next midnight.
next_rotation_tp == (Day(clock) + 1) * DayLength

\* The clock is read again.  It may show a later day than the file's: midnight may have
\* passed while the entry that names the file waited, or while the file was opened.
SetRotation ==
  /\ rotation_tp' = next_rotation_tp
  /\ opened' = [opened EXCEPT ![file] = Day(clock)]

CreateFile ==
  /\ phase = "open"
  /\ \/ Opens(Day(clock)) /\ phase' = "rotation"
     \/ OpenFails /\ phase' = "threw"
  /\ UNCHANGED <<clock, rotation_tp, mutex, pc, entry, console, files, reported, opened>>

FirstRotation ==
  /\ phase = "rotation"
  /\ SetRotation /\ phase' = "ready"
  /\ UNCHANGED <<clock, failures, file, mutex, pc, entry, console, files, reported>>

--------------------------------------------------------------------------------
\* A thread that logs.

Goto(t, from, to) == pc[t] = from /\ pc' = [pc EXCEPT ![t] = to]

\* logger::log_ makes the entry.
Log(t) ==
  /\ phase = "ready" /\ Goto(t, "idle", "console")
  /\ entry[t].n < MaxCalls
  /\ entry' = [entry EXCEPT ![t].n = @ + 1, ![t].time = clock]
  /\ UNCHANGED <<clock, failures, phase, file, rotation_tp, mutex,
                 console, files, reported, opened>>

\* The console's sink, under its own mutex.
Console(t) ==
  /\ Goto(t, "console", "file")
  /\ console' = console \cup {entry[t]}
  /\ UNCHANGED <<clock, failures, phase, file, rotation_tp, mutex, entry,
                 files, reported, opened>>

Lock(t) ==
  /\ Goto(t, "file", "sink_it")
  /\ mutex = Nobody /\ mutex' = t
  /\ UNCHANGED <<clock, failures, phase, file, rotation_tp, entry,
                 console, files, reported, opened>>

\* Mutant: the file is changed for each entry that is not of its day.
DayDiffers(t) == file = NoFile \/ Day(entry[t].time) # file

should_rotate(t) == entry[t].time >= rotation_tp

KeepFile(t) ==
  /\ Goto(t, "sink_it", "write") /\ ~should_rotate(t)
  /\ UNCHANGED <<clock, failures, phase, file, rotation_tp, mutex, entry,
                 console, files, reported, opened>>

\* file_helper::open closes the file and tries to open the next one.
Close(t) ==
  /\ Goto(t, "sink_it", "open") /\ should_rotate(t)
  /\ file' = NoFile
  /\ UNCHANGED <<clock, failures, phase, rotation_tp, mutex, entry,
                 console, files, reported, opened>>

Rotate(t) ==
  /\ Goto(t, "open", "rotation")
  /\ Opens(Day(entry[t].time))
  /\ UNCHANGED <<clock, phase, rotation_tp, mutex, entry, console, files, reported, opened>>

\* Mutant: the mutex is not given back when the sink throws.
RotateKeepsMutex(t) ==
  /\ Goto(t, "open", "idle")
  /\ OpenFails
  /\ reported' = [reported EXCEPT !.open = @ \cup {entry[t]}]
  /\ UNCHANGED <<clock, phase, rotation_tp, mutex, entry, console, files, opened>>

\* Mutant: the exception is caught and forgotten.
RotateUnreported(t) ==
  /\ Goto(t, "open", "idle")
  /\ OpenFails /\ mutex' = Nobody
  /\ UNCHANGED <<clock, phase, rotation_tp, entry, console, files, reported, opened>>

\* The open throws, the lock_guard unlocks, and logger::sink_it_ catches and reports.
RotateThrows(t) ==
  /\ Goto(t, "open", "idle")
  /\ OpenFails /\ mutex' = Nobody
  /\ reported' = [reported EXCEPT !.open = @ \cup {entry[t]}]
  /\ UNCHANGED <<clock, phase, rotation_tp, entry, console, files, opened>>

NextRotation(t) ==
  /\ Goto(t, "rotation", "write")
  /\ SetRotation
  /\ UNCHANGED <<clock, failures, phase, file, mutex, entry, console, files, reported>>

\* file_helper::write returns at once if no file is open.
Write(t) ==
  /\ Goto(t, "write", "idle")
  /\ files' = IF file = NoFile THEN files ELSE [files EXCEPT ![file] = @ \cup {entry[t]}]
  /\ mutex' = Nobody
  /\ UNCHANGED <<clock, failures, phase, file, rotation_tp, entry, console, reported, opened>>

\* fwrite does not take the whole entry, and write throws, as the open does.
WriteThrows(t) ==
  /\ Goto(t, "write", "idle") /\ file # NoFile
  /\ failures < MaxFailures /\ failures' = failures + 1
  /\ mutex' = Nobody
  /\ reported' = [reported EXCEPT !.write = @ \cup {entry[t]}]
  /\ UNCHANGED <<clock, phase, file, rotation_tp, entry, console, files, opened>>

Step(t) ==
  \/ Console(t) \/ Lock(t) \/ KeepFile(t) \/ Close(t) \/ Rotate(t) \/ RotateThrows(t)
  \/ NextRotation(t) \/ Write(t) \/ WriteThrows(t)

Next == Tick \/ CreateFile \/ FirstRotation \/ \E t \in Threads : Log(t) \/ Step(t)

Spec == Init /\ [][Next]_vars

\* The system runs each thread that can go on.
FairSpec == Spec /\ \A t \in Threads : WF_vars(Step(t))

--------------------------------------------------------------------------------

Finished == {m \in console : pc[m.thread] = "idle" \/ m # entry[m.thread]}
Written == UNION {files[d] : d \in Days}

\* An entry that is in the file is on the console.  One whose call has returned is in one
\* file, or its loss was reported, or it was made on a day before that of an entry for
\* which no file could be opened: only then is an entry lost without an error of its own.
LoggedOnce ==
  /\ Written \subseteq console
  /\ \A m \in Finished :
       LET in == {d \in Days : m \in files[d]}
       IN  /\ Cardinality(in) <= 1
           /\ in = {} => \/ m \in reported.open \cup reported.write
                         \/ \E r \in reported.open : Day(m.time) < Day(r.time)

\* An entry is of no later day than that on which the sink, with the entry's file open,
\* computed the next rotation.  So it is in the file of a day before its own only if
\* that was late: the file's day was over by then, whether it had ended before the file
\* was opened or in between.
NoLaterThanOpened == \A d \in Days : \A m \in files[d] : Day(m.time) <= opened[d]

\* A file that a later one has followed stays as it is.
OldFilesStay ==
  [][\A d, e \in Days : d < e /\ files[e] # {} => files'[d] = files[d]]_vars

\* A call of the logger returns, also when a file cannot be opened or written.
CallsReturn == \A t \in Threads : pc[t] # "idle" ~> pc[t] = "idle"
================================================================================
