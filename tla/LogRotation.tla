----------------------------- MODULE LogRotation -----------------------------
(***************************************************************************)
(* The file side of the log (core/log.cpp): drain writes a batch and       *)
(* rotates the file when it is full or the day has changed; old files are  *)
(* purged. All of it runs on the writer thread, under g_file_mutex. Opening*)
(* and renaming may fail. Sizes are in units, time in ticks of one second. *)
(* A file has its time stamp and number as its name.                       *)
(***************************************************************************)
EXTENDS Integers, Sequences, FiniteSets, SequencesExt

CONSTANTS
  MaxBytes,     \* g_max_bytes, 0: no limit
  Keep,         \* g_keep, 0: keep all
  DayLength,    \* seconds of a day
  MaxTime,      \* bound on the clock
  MaxFiles,     \* bound on rotations
  MaxBatch      \* bound on the units one batch writes

VARIABLES
  now,
  opened,       \* g_file is open
  day, written, \* g_day, g_written
  size,         \* the size of the active file on disk
  rotated,      \* the rotated files: name, and age as a history
  ages,         \* history: number of files rotated so far
  removed       \* history: the ages of the files purged

vars == <<now, opened, day, written, size, rotated, ages, removed>>

Today == now \div DayLength

(* open_file: the count starts at the size the file has.                   *)
OpenFile(s) ==
  /\ opened' \in BOOLEAN
  /\ day' = Today
  /\ written' = IF opened' THEN s ELSE 0

Init ==
  /\ now = 0
  /\ size \in 0..MaxBatch
  /\ opened \in BOOLEAN
  /\ day = 0 /\ written = IF opened THEN size ELSE 0
  /\ rotated = {} /\ ages = 0 /\ removed = {}

Tick ==
  /\ now < MaxTime
  /\ now' = now + 1
  /\ UNCHANGED <<opened, day, written, size, rotated, ages, removed>>

(* The end of a name in characters: ".log", "-7.log", "-10.log".           *)
Suffix(seq) ==
  LET Digit(d) == 48 + d
  IN  CASE seq = 0 -> <<46>>
        [] seq \in 1..9 -> <<45, Digit(seq), 46>>
        [] OTHER -> <<45, Digit(seq \div 10), Digit(seq % 10), 46>>

(* std::sort on the names: the stamps have the same length.                *)
NameBefore(f, g) ==
  \/ f.stamp < g.stamp
  \/ /\ f.stamp = g.stamp
     /\ LET a == Suffix(f.seq)
            b == Suffix(g.seq)
        IN  \E i \in 1..Len(a) :
              /\ i <= Len(b) /\ a[i] < b[i]
              /\ SubSeq(a, 1, i - 1) = SubSeq(b, 1, i - 1)

(* rotated_target: the first number that is free for this second.          *)
FreeNumbers == {n \in 0..99 : \A f \in rotated : ~(f.stamp = now /\ f.seq = n)}
Target == [stamp |-> now, seq |-> CHOOSE n \in FreeNumbers : \A m \in FreeNumbers : n <= m,
           age |-> ages]

(* purge_old: the excess from the front of the sorted names.               *)
Excess(files) ==
  IF Keep = 0 \/ Cardinality(files) <= Keep THEN {}
  ELSE LET sorted == SetToSortSeq(files, NameBefore)
       IN  {sorted[i] : i \in 1..(Cardinality(files) - Keep)}

RotationDue(w) == (MaxBytes > 0 /\ w >= MaxBytes) \/ Today # day

Rotate(s) ==
  /\ ages < MaxFiles /\ FreeNumbers # {}
  /\ \/ LET files == rotated \union {Target}
        IN  /\ rotated' = files \ Excess(files)
            /\ removed' = removed \union {f.age : f \in Excess(files)}
            /\ ages' = ages + 1
            /\ OpenFile(0)
            /\ size' = 0
     \/ OpenFile(s) /\ size' = s /\ UNCHANGED <<rotated, removed, ages>>

(* drain: the batch goes to the file, when it is open, and to stderr.      *)
Drain(n) ==
  LET s == IF opened THEN size + n ELSE size
      w == IF opened THEN written + n ELSE written
  IN  /\ \/ opened /\ RotationDue(w) /\ Rotate(s)
         \/ /\ ~opened \/ ~RotationDue(w) \/ FreeNumbers = {}
            /\ size' = s /\ written' = w
            /\ UNCHANGED <<opened, day, rotated, ages, removed>>
      /\ UNCHANGED now

(* log_stop closes the file, log_start of the next run opens it again.     *)
Restart ==
  /\ OpenFile(size)
  /\ UNCHANGED <<now, size, rotated, ages, removed>>

Next == Tick \/ (\E n \in 1..MaxBatch : Drain(n)) \/ Restart

Spec == Init /\ [][Next]_vars

-----------------------------------------------------------------------------
(* log.cpp:145,174 - what is purged is the oldest: the order of the names  *)
(* is the order of time.                                                   *)
PurgesOldest == \A f \in rotated, a \in removed : a < f.age
=============================================================================
