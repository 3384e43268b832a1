---------------------------- MODULE LogRotation ----------------------------
(***************************************************************************)
(* The log files of the server: log_init, check_log_files and the timer    *)
(* that main arms for it (server_main.cc), with the threads that log.      *)
(*                                                                         *)
(* A log file is named after the minute it was opened in, so a name is a   *)
(* minute; the directory maps the files that exist to their last write     *)
(* time.  The clock never goes back.  check_log_files takes one step for   *)
(* the listing, one for the sort (which asks for the write times anew),    *)
(* one for the count it logs and one for the removal; every thread may log *)
(* between two of them, and a record may start a new file.                 *)
(***************************************************************************)
EXTENDS Integers, FiniteSets

CONSTANTS
  MaxLogFiles,  \* max_log_files
  MaxMinute,    \* bound: the last minute of the clock
  MaxStarts,    \* bound: how often the server is started
  MaxFaults     \* bound: how often the timer reports an error

ASSUME LogAssumption ==
  /\ MaxLogFiles \in Nat /\ MaxLogFiles >= 2
  /\ MaxMinute \in Nat /\ MaxStarts \in Nat /\ MaxFaults \in Nat

VARIABLES
  clock,      \* the minute it is
  files,      \* the log directory: name |-> last_write_time
  current,    \* the file the sink writes to
  up,         \* the process runs, with a thread in io_service::run
  pc,         \* where check_log_files is; "armed" while the timer runs
  log_files,  \* the names it has listed
  front,      \* log_files.front() after the sort
  starts, faults

vars == <<clock, files, current, up, pc, log_files, front, starts, faults>>
check == <<pc, log_files, front>>

Minutes == 0..MaxMinute
Empty == [f \in {} |-> 0]

Init ==
  /\ clock = 0
  /\ files = Empty
  /\ current = 0
  /\ up = FALSE
  /\ pc = "armed" /\ log_files = {} /\ front = 0
  /\ starts = 0 /\ faults = 0

-----------------------------------------------------------------------------
(* The directory after the sink has written to file f.                     *)
Written(f) ==
  [g \in DOMAIN files \cup {f} |-> IF g = f THEN clock ELSE files[g]]

(* Mutant of Record: the name of the minute is rounded up.                 *)
RecordRounds(f) ==
  /\ f \in {current, clock + 1}
  /\ files' = Written(f) /\ current' = f

(* A record goes to the current file, or, at midnight or when the file is  *)
(* 10 MB long, to one that is opened under the name of this minute.        *)
Record(f) ==
  /\ f \in {current, clock}
  /\ files' = Written(f) /\ current' = f

Tick ==
  /\ clock < MaxMinute
  /\ clock' = clock + 1
  /\ UNCHANGED <<files, current, up, pc, log_files, front, starts, faults>>

(* main: log_init and the first record, which opens a file.  With a bad    *)
(* command line, a bad configuration or no thread main returns before any  *)
(* check has run.                                                          *)
Start(runs) ==
  /\ ~up /\ starts < MaxStarts
  /\ files' = Written(clock) /\ current' = clock
  /\ up' = runs
  /\ pc' = "armed" /\ log_files' = {} /\ front' = 0
  /\ starts' = starts + 1
  /\ UNCHANGED <<clock, faults>>

(* A thread logs.                                                          *)
Log(f) ==
  /\ up /\ Record(f)
  /\ UNCHANGED <<clock, up, pc, log_files, front, starts, faults>>

(* signal_logger's record and exit, or an exception of the file system in  *)
(* check_log_files, which nothing catches in a thread of the pool.         *)
Exit(f) ==
  /\ up /\ Record(f)
  /\ up' = FALSE
  /\ UNCHANGED <<clock, pc, log_files, front, starts, faults>>

-----------------------------------------------------------------------------
(* check_log_files.                                                        *)

List ==
  /\ up /\ pc = "armed"
  /\ log_files' = DOMAIN files
  /\ pc' = "sort"
  /\ UNCHANGED <<clock, files, current, up, front, starts, faults>>

(* The wait ends with an error: no check, and the timer is set again.      *)
TimerError ==
  /\ up /\ pc = "armed" /\ faults < MaxFaults
  /\ faults' = faults + 1
  /\ UNCHANGED <<clock, files, current, up, pc, log_files, front, starts>>

(* Mutant of Sort: the order is reversed.                                  *)
SortNewest(f) ==
  /\ up /\ pc = "sort"
  /\ f \in log_files /\ \A g \in log_files : files[f] >= files[g]
  /\ front' = f /\ pc' = "count"
  /\ UNCHANGED <<clock, files, current, up, log_files, starts, faults>>

(* Any file with the earliest write time may come first.                   *)
Sort(f) ==
  /\ up /\ pc = "sort"
  /\ f \in log_files /\ \A g \in log_files : files[f] <= files[g]
  /\ front' = f /\ pc' = "count"
  /\ UNCHANGED <<clock, files, current, up, log_files, starts, faults>>

(* Mutant of Count: one file too many is what counts.                      *)
CountStrict(f) ==
  /\ up /\ pc = "count" /\ Record(f)
  /\ pc' = IF Cardinality(log_files) > MaxLogFiles + 1 THEN "remove"
           ELSE "armed"
  /\ UNCHANGED <<clock, up, log_files, front, starts, faults>>

(* Mutant of Count: it removes as soon as the maximum is reached.          *)
CountReached(f) ==
  /\ up /\ pc = "count" /\ Record(f)
  /\ pc' = IF Cardinality(log_files) >= MaxLogFiles THEN "remove"
           ELSE "armed"
  /\ UNCHANGED <<clock, up, log_files, front, starts, faults>>

(* "Current amount of logs is", and the decision.  With nothing to remove  *)
(* the timer is set again.                                                 *)
Count(f) ==
  /\ up /\ pc = "count" /\ Record(f)
  /\ pc' = IF Cardinality(log_files) > MaxLogFiles THEN "remove" ELSE "armed"
  /\ UNCHANGED <<clock, up, log_files, front, starts, faults>>

(* "Removing log", remove(log_files.front()), and the timer is set again.  *)
Remove(f) ==
  /\ up /\ pc = "remove"
  /\ f \in {current, clock} /\ current' = f
  /\ files' = [g \in (DOMAIN files \cup {f}) \ {front} |-> Written(f)[g]]
  /\ pc' = "armed"
  /\ UNCHANGED <<clock, up, log_files, front, starts, faults>>

check_log_files ==
  \/ List
  \/ \E f \in Minutes : Sort(f) \/ Count(f) \/ Remove(f)

Next ==
  \/ Tick
  \/ \E runs \in BOOLEAN : Start(runs)
  \/ \E f \in Minutes : Log(f) \/ Exit(f)
  \/ TimerError
  \/ check_log_files

(* A thread of the pool runs the check when the timer has expired.         *)
Spec == Init /\ [][Next]_vars /\ WF_vars(check_log_files)

-----------------------------------------------------------------------------
TypeOK ==
  /\ clock \in Minutes
  /\ DOMAIN files \subseteq Minutes
  /\ \A f \in DOMAIN files : files[f] \in f..clock
  /\ current \in 0..clock
  /\ up \in BOOLEAN
  /\ pc \in {"armed", "sort", "count", "remove"}
  /\ log_files \subseteq Minutes
  /\ front \in Minutes
  /\ starts \in 0..MaxStarts
  /\ faults \in 0..MaxFaults

(* The file the server writes to is never removed: not by a check whose    *)
(* listing and order are out of date when a record has started a new file, *)
(* and not after a restart that writes to a file of the same minute.       *)
CurrentKept == up => current \in DOMAIN files

(* A check never leaves fewer files than it may keep.                      *)
EnoughKept ==
  [][~(DOMAIN files \subseteq DOMAIN files')
     => Cardinality(DOMAIN files') >= MaxLogFiles]_vars

(* A server that stays up gets rid of the files that are too many, however *)
(* many starts have left, once no new ones are opened.                     *)
Converges ==
  <>[]up => <>[](Cardinality(DOMAIN files) <= MaxLogFiles)
=============================================================================
