------------------------------ MODULE SystemInfo ------------------------------
(* InitializeSystemInfo of base/sysinfo.cc: the clock rate and the number of  *)
(* processors, from the files of Linux or what other platforms offer.  A line *)
(* of /proc/cpuinfo begins with a character for what it is: "P" processor,    *)
(* "M" and "Z" a clock rate that is positive and one that is not, "B" and "Y" *)
(* bogomips in the same way, "x" anything else.  "0" ends a string, and "?"   *)
(* is memory that was never written.                                          *)
EXTENDS Integers, SequencesExt, FiniteSets

CONSTANTS Platforms,     \* linux, freebsd, windows, mach, generic
          CpuInfos,      \* contents of /proc/cpuinfo, or NoFile
          Frequencies,   \* what a file of a frequency has: NoFile or a number
          kLineSize,
          NoFile

LineAssumption == kLineSize \in Nat /\ kLineSize > 2

VARIABLES platform, valgrind, tsc_freq_khz, cpuinfo_max_freq, cpuinfo,  \* what is there
          pc, offset, line, chars_read,
          cpuinfo_cycles_per_second, saw_mhz, bogo_clock, saw_bogo, num_cpus,
          cpuinfo_num_cpus, bytes_to_read

input == <<platform, valgrind, tsc_freq_khz, cpuinfo_max_freq, cpuinfo>>
clock == <<cpuinfo_cycles_per_second, saw_mhz>>
found == <<bogo_clock, saw_bogo, num_cpus>>
reader == <<offset, line, chars_read, bytes_to_read>>
vars == <<input, pc, reader, clock, found, cpuinfo_num_cpus>>

Init == /\ platform \in Platforms
        /\ valgrind \in BOOLEAN
        /\ tsc_freq_khz \in Frequencies /\ cpuinfo_max_freq \in Frequencies
        /\ cpuinfo \in CpuInfos
        /\ pc = "start" /\ offset = 0 /\ chars_read = 0 /\ bytes_to_read = 1
        /\ line = [i \in 1..kLineSize |-> IF i <= 2 THEN "0" ELSE "?"]
        /\ cpuinfo_cycles_per_second = "one" /\ saw_mhz = FALSE
        /\ bogo_clock = "one" /\ saw_bogo = FALSE /\ num_cpus = 0
        /\ cpuinfo_num_cpus = 1

(* What is measured while the thread sleeps.                                 *)
Estimate == "estimate"

(* A frequency in a file is taken as it is.                                  *)
Rate(freq, name) == IF freq = 0 THEN "zero" ELSE name

(* Under valgrind the rate is measured; otherwise the file of the time stamp *)
(* counter is the first choice and that of the maximal frequency the second. *)
FromFrequencyFiles ==
    /\ platform = "linux" /\ pc = "start"
    /\ IF valgrind THEN cpuinfo_cycles_per_second' = Estimate /\ saw_mhz' = TRUE
       ELSE IF tsc_freq_khz # NoFile
       THEN cpuinfo_cycles_per_second' = Rate(tsc_freq_khz, "tsc") /\ saw_mhz' = TRUE
       ELSE IF cpuinfo_max_freq # NoFile
       THEN cpuinfo_cycles_per_second' = Rate(cpuinfo_max_freq, "max") /\ saw_mhz' = TRUE
       ELSE UNCHANGED clock
    /\ pc' = "open"
    /\ UNCHANGED <<input, reader, found, cpuinfo_num_cpus>>

(* Without /proc/cpuinfo that is all, and one processor.                     *)
OpenCpuInfo ==
    /\ pc = "open"
    /\ IF cpuinfo # NoFile THEN pc' = "read" /\ UNCHANGED cpuinfo_cycles_per_second
       ELSE /\ pc' = "done"
            /\ cpuinfo_cycles_per_second' = IF saw_mhz THEN cpuinfo_cycles_per_second ELSE Estimate
    /\ UNCHANGED <<input, reader, saw_mhz, found, cpuinfo_num_cpus>>

-------------------------------------------------------------------------------
(* The index of the first character of a kind in an array, or 0.             *)
Find(array, c) == LET at == {i \in DOMAIN array : array[i] = c}
                  IN  IF at = {} THEN 0 ELSE CHOOSE i \in at : \A j \in at : i <= j
StrLen(array) == Find(array, "0") - 1
Newline(array) == LET at == Find(array, "n") IN IF at > StrLen(array) THEN 0 ELSE at

(* The next line goes to the beginning; the rest of the array stays.         *)
Shifted(array) ==
    LET len == StrLen(array)
    IN  IF len + 1 = kLineSize THEN [array EXCEPT ![1] = "0"]
        ELSE SubSeq(array, len + 2, kLineSize) \o SubSeq(array, kLineSize - len, kLineSize)

(* The array when n more characters of the file have been read behind the    *)
(* string that it has.                                                       *)
Extended(array, n) ==
    LET len == StrLen(array)
    IN  SubSeq(array, 1, len) \o SubSeq(cpuinfo, offset + 1, offset + n) \o <<"0">>
          \o SubSeq(array, len + n + 2, kLineSize)

(* The first newline of the string ends it.                                  *)
Terminated(array) == IF Newline(array) = 0 THEN array ELSE [array EXCEPT ![Newline(array)] = "0"]

(* Only rates that are positive are accepted, though others are stored.      *)
UseLine(kind) ==
    /\ cpuinfo_cycles_per_second' =
         IF ~saw_mhz /\ kind \in {"M", "Z"} THEN (IF kind = "M" THEN "mhz" ELSE "zero")
         ELSE cpuinfo_cycles_per_second
    /\ saw_mhz' = (saw_mhz \/ kind = "M")
    /\ bogo_clock' = CASE kind = "B" -> "bogo" [] kind = "Y" -> "zero" [] OTHER -> bogo_clock
    /\ saw_bogo' = (saw_bogo \/ kind = "B")
    /\ num_cpus' = num_cpus + (IF kind = "P" THEN 1 ELSE 0)

MoreToRead(n) == n > 0

(* One turn of the loop, which ends after a read that returned nothing; a    *)
(* read of /proc/cpuinfo returns what was asked for or all that is left.     *)
ReadLine ==
    /\ pc = "read"
    /\ LET shifted == Shifted(line)
           room == kLineSize - 1 - StrLen(shifted)
           rest == Len(cpuinfo) - offset
           most == IF room < rest THEN room ELSE rest
       IN  IF Newline(shifted) # 0
           THEN line' = Terminated(shifted) /\ UNCHANGED <<offset, chars_read, bytes_to_read>>
           ELSE /\ line' = Terminated(Extended(shifted, most))
                /\ offset' = offset + most
                /\ chars_read' = most
                /\ bytes_to_read' = room
    /\ UseLine(line'[1])
    /\ pc' = IF MoreToRead(chars_read') THEN "read" ELSE "decide"
    /\ UNCHANGED <<input, cpuinfo_num_cpus>>

(* The rate of bogomips is better than an estimate.                          *)
Decide ==
    /\ pc = "decide"
    /\ LET rate == IF saw_mhz THEN cpuinfo_cycles_per_second
                   ELSE IF saw_bogo THEN bogo_clock ELSE Estimate
       IN  cpuinfo_cycles_per_second' = IF rate = "zero" THEN "one" ELSE rate
    /\ cpuinfo_num_cpus' = IF num_cpus > 0 THEN num_cpus ELSE cpuinfo_num_cpus
    /\ pc' = "done"
    /\ UNCHANGED <<input, reader, saw_mhz, found>>

(* FreeBSD and Windows have a query that may fail; Mach converts its units;  *)
(* elsewhere the rate is measured.                                           *)
OtherPlatform ==
    /\ platform # "linux" /\ pc = "start"
    /\ cpuinfo_cycles_per_second' \in
         CASE platform \in {"freebsd", "windows"} -> {"query", Estimate}
           [] platform = "mach" -> {"query"}
           [] OTHER -> {Estimate}
    /\ cpuinfo_num_cpus' \in (IF platform \in {"windows", "mach"} THEN {1, 2} ELSE {1})
    /\ pc' = "done"
    /\ UNCHANGED <<input, reader, saw_mhz, found>>

Next == FromFrequencyFiles \/ OpenCpuInfo \/ ReadLine \/ Decide \/ OtherPlatform

Spec == Init /\ [][Next]_vars

-------------------------------------------------------------------------------
(* The kinds of the lines of the file.                                       *)
Kinds == {i \in DOMAIN cpuinfo : (i = 1 \/ cpuinfo[i - 1] = "n") /\ cpuinfo[i] # "n"}
Has(kind) == \E i \in Kinds : cpuinfo[i] = kind

(* base/sysinfo.cc:345: the array always has an end of its string, nothing   *)
(* that was never written is before it, and there is room to read into.      *)
TypeOK == /\ Find(line, "0") # 0
          /\ Find(SubSeq(line, 1, StrLen(line)), "?") = 0
          /\ bytes_to_read > 0

(* base/sysinfo.cc:371: every line for a processor is counted once, however  *)
(* lines lie across the array, and also when lines are longer than it.       *)
ProcessorsCounted ==
    (platform = "linux" /\ pc = "done" /\ cpuinfo # NoFile) =>
       LET count == Cardinality({i \in Kinds : cpuinfo[i] = "P"})
       IN  cpuinfo_num_cpus = IF count > 0 THEN count ELSE 1

(* base/sysinfo.cc:292: the rate is that of the best source that there is.   *)
BestSource ==
    (platform = "linux" /\ pc = "done" /\ cpuinfo # NoFile) =>
       cpuinfo_cycles_per_second =
         CASE valgrind -> Estimate
           [] ~valgrind /\ tsc_freq_khz # NoFile -> IF tsc_freq_khz = 0 THEN "one" ELSE "tsc"
           [] ~valgrind /\ tsc_freq_khz = NoFile /\ cpuinfo_max_freq # NoFile ->
                IF cpuinfo_max_freq = 0 THEN "one" ELSE "max"
           [] OTHER -> IF Has("M") THEN "mhz" ELSE IF Has("B") THEN "bogo" ELSE Estimate

=============================================================================
