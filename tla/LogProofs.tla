------------------------------ MODULE LogProofs ------------------------------
(***************************************************************************)
(* Proofs about the log files, for any maximum of at least two files and   *)
(* any number of minutes, starts and timer errors.                         *)
(***************************************************************************)
EXTENDS LogRotation, FiniteSetTheorems, TLAPS

(* A file was last written before the next one was opened, and the current *)
(* file is the last.  So the front of a sorted list of three files is not  *)
(* the current one, and stays so whatever is opened after the sort.        *)
Ages == \A f, g \in DOMAIN files : f < g => files[f] <= g

CurrentLast ==
  up => current \in DOMAIN files /\ \A f \in DOMAIN files : f <= current

Checking ==
  up /\ pc # "armed" =>
    /\ log_files \subseteq DOMAIN files
    /\ pc = "count" /\ Cardinality(log_files) > MaxLogFiles => front < current
    /\ pc = "remove" => front < current /\ Cardinality(log_files) > MaxLogFiles

Inv == TypeOK /\ Ages /\ CurrentLast /\ Checking

LEMMA FiniteFiles ==
  ASSUME NEW S, S \subseteq Minutes
  PROVE  IsFiniteSet(S) /\ Cardinality(S) \in Nat
<1>1. IsFiniteSet(Minutes)
  BY FS_Interval, LogAssumption DEF Minutes
<1> QED BY <1>1, FS_Subset, FS_CardinalityType

LEMMA TwoOthers ==
  ASSUME NEW S, S \subseteq Minutes, Cardinality(S) > MaxLogFiles, NEW x \in S
  PROVE  \E a, b \in S \ {x} : a < b
<1> DEFINE T == S \ {x}
<1>1. IsFiniteSet(T) /\ Cardinality(T) = Cardinality(S) - 1
  BY FiniteFiles, FS_RemoveElement
<1>2. Cardinality(T) \in Nat /\ Cardinality(T) >= 2
  BY <1>1, FiniteFiles, LogAssumption
<1>3. T # {}
  BY <1>2, FS_EmptySet
<1>4. PICK a \in T : TRUE
  BY <1>3
<1>5. T # {a}
  BY <1>2, FS_Singleton
<1>6. PICK b \in T : a # b
  BY <1>4, <1>5
<1>7. a < b \/ b < a
  BY <1>4, <1>6 DEF Minutes
<1> QED BY <1>4, <1>6, <1>7

LEMMA InvInit == Init => Inv
<1> SUFFICES ASSUME Init PROVE Inv
  OBVIOUS
<1>1. DOMAIN files = {} /\ 0 \in Minutes /\ 0 \in 0..MaxStarts /\ 0 \in 0..MaxFaults
  BY LogAssumption DEF Init, Empty, Minutes
<1>2. TypeOK
  <2>1. up \in BOOLEAN /\ pc \in {"armed", "sort", "count", "remove"}
    BY DEF Init
  <2>2. /\ clock \in Minutes /\ current \in 0..clock /\ front \in Minutes
        /\ log_files \subseteq Minutes
    BY <1>1 DEF Init
  <2>3. starts \in 0..MaxStarts /\ faults \in 0..MaxFaults
    BY <1>1 DEF Init
  <2> QED BY <1>1, <2>1, <2>2, <2>3 DEF TypeOK
<1> QED BY <1>1, <1>2 DEF Init, Inv, Ages, CurrentLast, Checking

(* A record leaves the directory in the same order.                        *)
LEMMA WrittenAges ==
  ASSUME Inv, NEW f, files' = Written(f), clock' = clock,
         f = clock \/ (up /\ f = current)
  PROVE  /\ DOMAIN files' = DOMAIN files \cup {f}
         /\ \A g \in DOMAIN files' : files'[g] \in g..clock /\ g \in Minutes
         /\ Ages'
         /\ \A g \in DOMAIN files' : g <= f
<1>1. DOMAIN files' = DOMAIN files \cup {f}
  BY DEF Written
<1>2. f \in Minutes /\ f <= clock /\ \A g \in DOMAIN files : g <= f
  BY DEF Inv, TypeOK, CurrentLast, Minutes
<1>3. files'[f] = clock /\ \A g \in DOMAIN files : g # f => files'[g] = files[g]
  BY DEF Written
<1>4. \A g \in DOMAIN files' : files'[g] \in g..clock /\ g \in Minutes
  BY <1>1, <1>2, <1>3 DEF Inv, TypeOK, Minutes
<1>5. ASSUME NEW g \in DOMAIN files', NEW h \in DOMAIN files', g < h
      PROVE  files'[g] <= h
  <2>1. g # f /\ g \in DOMAIN files
    BY <1>1, <1>2, <1>5 DEF Minutes, Inv, TypeOK
  <2>2. CASE h \in DOMAIN files
    BY <1>3, <1>5, <2>1, <2>2 DEF Inv, Ages
  <2>3. CASE h \notin DOMAIN files
    <3>1. h = f /\ f = clock
      BY <1>1, <2>3 DEF Inv, CurrentLast
    <3> QED BY <1>3, <2>1, <3>1 DEF Inv, TypeOK
  <2> QED BY <2>2, <2>3
<1> QED BY <1>1, <1>2, <1>4, <1>5 DEF Ages, Inv, TypeOK, Minutes

(* A record that does not end the process.                                 *)
LEMMA RecordInv ==
  ASSUME Inv, up, NEW f, Record(f), clock' = clock
  PROVE  /\ clock' \in Minutes /\ DOMAIN files' \subseteq Minutes
         /\ \A g \in DOMAIN files' : files'[g] \in g..clock'
         /\ current' \in 0..clock'
         /\ Ages'
         /\ DOMAIN files \subseteq DOMAIN files'
         /\ current' \in DOMAIN files' /\ \A g \in DOMAIN files' : g <= current'
         /\ current <= current' /\ current \in Nat /\ current' \in Nat
<1>1. f = clock \/ f = current
  BY DEF Record
<1>2. files' = Written(f) /\ current' = f
  BY DEF Record
<1>3. current <= f /\ f \in 0..clock
  BY <1>1 DEF Inv, TypeOK, Minutes
<1>4. /\ DOMAIN files' = DOMAIN files \cup {f}
      /\ \A g \in DOMAIN files' : files'[g] \in g..clock /\ g \in Minutes
      /\ Ages'
      /\ \A g \in DOMAIN files' : g <= f
  BY <1>1, <1>2, WrittenAges
<1>5. clock \in Minutes /\ clock \in Nat /\ current \in Nat
  BY DEF Inv, TypeOK, Minutes
<1> QED BY <1>2, <1>3, <1>4, <1>5

LEMMA InvStep == Inv /\ [Next]_vars => Inv'
<1> SUFFICES ASSUME Inv, [Next]_vars PROVE Inv'
  OBVIOUS
<1>1. CASE UNCHANGED vars
  BY <1>1 DEF vars, Inv, TypeOK, Ages, CurrentLast, Checking
<1>2. CASE Tick
  BY <1>2, LogAssumption
  DEF Tick, Inv, TypeOK, Ages, CurrentLast, Checking, Minutes
<1>3. ASSUME NEW runs \in BOOLEAN, Start(runs) PROVE Inv'
  <2>1. files' = Written(clock) /\ clock' = clock
    BY <1>3 DEF Start
  <2>2. /\ DOMAIN files' = DOMAIN files \cup {clock}
        /\ \A g \in DOMAIN files' : files'[g] \in g..clock /\ g \in Minutes
        /\ Ages'
        /\ \A g \in DOMAIN files' : g <= clock
    BY <2>1, WrittenAges
  <2>3. current' = clock /\ pc' = "armed" /\ log_files' = {} /\ front' = 0
        /\ up' = runs /\ starts' = starts + 1 /\ starts < MaxStarts
        /\ faults' = faults
    BY <1>3 DEF Start
  <2>4. TypeOK'
    BY <2>1, <2>2, <2>3, LogAssumption DEF Inv, TypeOK, Minutes
  <2>5. CurrentLast' /\ Checking'
    BY <2>1, <2>2, <2>3 DEF CurrentLast, Checking
  <2> QED BY <2>2, <2>4, <2>5 DEF Inv
<1>4. ASSUME NEW f \in Minutes, Log(f) PROVE Inv'
  <2>1. up /\ Record(f) /\ UNCHANGED <<clock, up, pc, log_files, front, starts, faults>>
    BY <1>4 DEF Log
  <2>2. TypeOK' /\ Ages' /\ CurrentLast'
    BY <2>1, RecordInv DEF Inv, TypeOK, CurrentLast
  <2>3. front \in Nat
    BY DEF Inv, TypeOK, Minutes
  <2>4. Checking'
    BY <2>1, <2>3, RecordInv DEF Inv, Checking
  <2> QED BY <2>2, <2>4 DEF Inv
<1>5. ASSUME NEW f \in Minutes, Exit(f) PROVE Inv'
  <2>1. up /\ Record(f) /\ ~up' /\ UNCHANGED <<clock, pc, log_files, front, starts, faults>>
    BY <1>5 DEF Exit
  <2>2. TypeOK' /\ Ages'
    BY <1>5, <2>1, RecordInv DEF Inv, TypeOK, Exit
  <2> QED BY <2>1, <2>2 DEF Inv, CurrentLast, Checking
<1>6. CASE List
  BY <1>6 DEF List, Inv, TypeOK, Ages, CurrentLast, Checking
<1>7. CASE TimerError
  BY <1>7, LogAssumption DEF TimerError, Inv, TypeOK, Ages, CurrentLast, Checking
<1>8. ASSUME NEW f \in Minutes, Sort(f) PROVE Inv'
  <2>1. /\ up /\ pc = "sort" /\ f \in log_files /\ front' = f /\ pc' = "count"
        /\ \A g \in log_files : files[f] <= files[g]
        /\ UNCHANGED <<clock, files, current, up, log_files, starts, faults>>
    BY <1>8 DEF Sort
  <2>2. log_files \subseteq DOMAIN files
    BY <2>1 DEF Inv, Checking
  <2>3. ASSUME Cardinality(log_files) > MaxLogFiles PROVE f < current
    <3>1. PICK a \in log_files \ {f}, b \in log_files \ {f} : a < b
      BY <2>1, <2>3, TwoOthers DEF Inv, TypeOK
    <3>2. files[f] <= files[a] /\ files[a] <= b
      BY <2>1, <2>2, <3>1 DEF Inv, Ages
    <3>3. f <= current /\ b <= current /\ b # f /\ f <= files[f]
      BY <2>1, <2>2, <3>1 DEF Inv, CurrentLast, TypeOK
    <3>4. f \in Int /\ a \in Int /\ b \in Int /\ current \in Int
          /\ files[f] \in Int /\ files[a] \in Int
      BY <2>1, <2>2, <3>1 DEF Inv, TypeOK, Minutes
    <3> QED BY <3>2, <3>3, <3>4
  <2>4. Checking'
    BY <2>1, <2>2, <2>3 DEF Checking
  <2>5. TypeOK' /\ Ages' /\ CurrentLast'
    BY <2>1 DEF Inv, TypeOK, Ages, CurrentLast
  <2> QED BY <2>4, <2>5 DEF Inv
<1>9. ASSUME NEW f \in Minutes, Count(f) PROVE Inv'
  <2>1. /\ up /\ pc = "count" /\ Record(f)
        /\ pc' = IF Cardinality(log_files) > MaxLogFiles THEN "remove" ELSE "armed"
        /\ UNCHANGED <<clock, up, log_files, front, starts, faults>>
    BY <1>9 DEF Count
  <2>2. TypeOK' /\ Ages' /\ CurrentLast'
    BY <2>1, RecordInv DEF Inv, TypeOK, CurrentLast
  <2>3. front \in Nat
    BY DEF Inv, TypeOK, Minutes
  <2>4. Checking'
    BY <2>1, <2>3, RecordInv DEF Inv, Checking
  <2> QED BY <2>2, <2>4 DEF Inv
<1>10. ASSUME NEW f \in Minutes, Remove(f) PROVE Inv'
  <2>1. /\ up /\ pc = "remove" /\ f \in {current, clock} /\ current' = f
        /\ files' = [g \in (DOMAIN files \cup {f}) \ {front} |-> Written(f)[g]]
        /\ pc' = "armed"
        /\ UNCHANGED <<clock, up, log_files, front, starts, faults>>
    BY <1>10 DEF Remove
  <2>2. front < current /\ front \in Nat /\ current \in Nat /\ current <= f
    BY <2>1 DEF Inv, Checking, TypeOK, Minutes
  <2>3. DOMAIN files' = (DOMAIN files \cup {f}) \ {front}
    BY <2>1
  <2>4. \A g \in DOMAIN files' :
          files'[g] = IF g = f THEN clock ELSE files[g]
    BY <2>1, <2>3 DEF Written
  <2>5. \A g \in DOMAIN files' : g <= f /\ g \in Minutes /\ files'[g] \in g..clock
    BY <2>1, <2>2, <2>3, <2>4 DEF Inv, TypeOK, CurrentLast, Minutes
  <2>6. ASSUME NEW g \in DOMAIN files', NEW h \in DOMAIN files', g < h
        PROVE  files'[g] <= h
    <3>1. g # f /\ g \in DOMAIN files /\ files'[g] = files[g]
      BY <2>3, <2>4, <2>5, <2>6 DEF Minutes
    <3>2. CASE h \in DOMAIN files
      BY <3>1, <3>2, <2>6 DEF Inv, Ages
    <3>3. CASE h \notin DOMAIN files
      <4>1. h = clock
        BY <2>1, <2>3, <3>3 DEF Inv, CurrentLast
      <4> QED BY <3>1, <4>1 DEF Inv, TypeOK
    <3> QED BY <3>2, <3>3
  <2>7. f \in DOMAIN files'
    BY <2>2, <2>3
  <2>8. TypeOK'
    BY <2>1, <2>3, <2>5 DEF Inv, TypeOK, Minutes
  <2> QED BY <2>1, <2>5, <2>6, <2>7, <2>8 DEF Inv, Ages, CurrentLast, Checking
<1> QED
  BY <1>1, <1>2, <1>3, <1>4, <1>5, <1>6, <1>7, <1>8, <1>9, <1>10
  DEF Next, check_log_files

(* The directory, the clock and the check stay well typed; in particular a *)
(* file is never written before the minute it is named after.              *)
THEOREM TypeCorrect == Spec => []TypeOK
<1>1. Inv => TypeOK
  BY DEF Inv
<1> QED BY <1>1, InvInit, InvStep, PTL DEF Spec

(* The file the server writes to is never removed, for any maximum of at   *)
(* least two files: whatever is logged between listing, sorting, counting  *)
(* and removing, the oldest of three files is not the current one.         *)
THEOREM CurrentIsKept == Spec => []CurrentKept
<1>1. Inv => CurrentKept
  BY DEF Inv, CurrentLast, CurrentKept
<1> QED BY <1>1, InvInit, InvStep, PTL DEF Spec

(* The count a removal is decided on is out of date when it happens, but   *)
(* only too small: a check never leaves fewer than max_log_files files.    *)
THEOREM EnoughIsKept == Spec => EnoughKept
<1> DEFINE Kept == ~(DOMAIN files \subseteq DOMAIN files')
                   => Cardinality(DOMAIN files') >= MaxLogFiles
<1>1. Inv /\ [Next]_vars => Kept
  <2> SUFFICES ASSUME Inv, [Next]_vars, ~(DOMAIN files \subseteq DOMAIN files')
               PROVE  Cardinality(DOMAIN files') >= MaxLogFiles
    OBVIOUS
  <2>1. ASSUME NEW f PROVE DOMAIN files \subseteq DOMAIN Written(f)
    BY DEF Written
  <2>2. PICK f \in Minutes : Remove(f)
    BY <2>1
    DEF Next, vars, Tick, Start, Log, Exit, Record, TimerError, check_log_files,
        List, Sort, Count
  <2>3. /\ log_files \subseteq DOMAIN files
        /\ Cardinality(log_files) > MaxLogFiles
        /\ DOMAIN files' = (DOMAIN files \cup {f}) \ {front}
    BY <2>2 DEF Remove, Inv, Checking
  <2>4. DOMAIN files' \subseteq Minutes /\ log_files \subseteq Minutes
    BY <2>3 DEF Inv, TypeOK
  <2> DEFINE kept == log_files \ {front}
  <2>5. kept \subseteq DOMAIN files' /\ kept \subseteq Minutes
    BY <2>3, <2>4
  <2>6. Cardinality(kept) >= Cardinality(log_files) - 1
    <3>1. CASE front \in log_files
      BY <3>1, <2>4, FiniteFiles, FS_RemoveElement
    <3>2. CASE front \notin log_files
      <4>1. kept = log_files
        BY <3>2
      <4> QED BY <4>1, <2>4, FiniteFiles
    <3> QED BY <3>1, <3>2
  <2>7. Cardinality(kept) <= Cardinality(DOMAIN files')
    BY <2>4, <2>5, FiniteFiles, FS_Subset
  <2>8. /\ Cardinality(kept) \in Nat /\ Cardinality(log_files) \in Nat
        /\ Cardinality(DOMAIN files') \in Nat
    BY <2>4, <2>5, FiniteFiles
  <2> QED BY <2>3, <2>6, <2>7, <2>8, LogAssumption
<1> QED BY <1>1, InvInit, InvStep, PTL DEF Spec, EnoughKept
=============================================================================
