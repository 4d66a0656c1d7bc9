------------------------------ MODULE HeapChecker ------------------------------
(* The heap leak checker over the life of a process: heap-checker.cc.  The    *)
(* main thread goes from the first allocation over the constructors of the    *)
(* program, the start of the checker, main and the cleanups to the time after *)
(* the destructors; other threads live from main on.  What one holder of      *)
(* heap_checker_lock does is one step.  Which objects are live is what        *)
(* LiveFlood computes; here the program knows what it can still reach.        *)
EXTENDS Naturals, Sequences, FiniteSets

CONSTANTS Threads, Main,
          Addrs,              \* objects of the program
          Checkers,           \* checkers of the program
          MainChecker,        \* the one of the whole program
          Modes,              \* values of the HEAPCHECK flag
          Envs,               \* what the environment is like
          Ops,                \* the calls that the program makes
          MaxOps,             \* and how many of them: the bound of every run
          NULL

MainAssumption == Main \in Threads /\ MainChecker \notin Checkers

VARIABLES env, FLAGS_heap_check, before_constructors, after_destructors, flood,
          heap_checker_on, constructor_heap_profiling, hooks, region_map,
          heap_checker_pid, pid, profile_name_prefix, libraries, disabled_ranges,
          main_heap_checker, do_main_heap_check, have_disabled_hooks,
          arena,              \* what Allocator has given and not got back
          profile, marked,    \* the objects heap_profile knows, and those it ignores
          ignored_objects,
          name_, start_snapshot_, has_checked_, lock_, alignment_checker_lock,
          heap_cleanups,
          pc, ret, chk, arg, leaks, thread_disable_counter,
          fate,               \* running, how the program ended, or which check stopped it
          reach, used,        \* objects the program can reach, and those it has
          since,              \* for a checker, the objects made after its start
          hidden, checked,    \* made under a Disabler; checkers the program has asked
          made, gone,         \* checkers that were constructed, and destroyed
          ops, mainChecks, canceled

settings == <<env, FLAGS_heap_check, before_constructors, after_destructors, flood>>
switch == <<heap_checker_on, constructor_heap_profiling, hooks, region_map, have_disabled_hooks>>
process == <<heap_checker_pid, pid, libraries>>
whole == <<profile_name_prefix, main_heap_checker, do_main_heap_check>>
tables == <<arena, profile, marked, ignored_objects, disabled_ranges>>
checker == <<name_, start_snapshot_, has_checked_>>
locks == <<lock_, alignment_checker_lock>>
control == <<pc, ret, chk, arg, leaks>>
program == <<reach, used, since, hidden, checked, thread_disable_counter, heap_cleanups, made, gone>>
counts == <<ops, mainChecks, canceled>>
vars == <<settings, switch, process, whole, tables, checker, locks, control, program, fate, counts>>

AllCheckers == Checkers \cup {MainChecker}
Running == fate = "running"

Init ==
    /\ env \in Envs /\ FLAGS_heap_check \in Modes
    /\ before_constructors \in BOOLEAN /\ after_destructors \in BOOLEAN /\ flood = TRUE
    /\ heap_checker_on = FALSE /\ constructor_heap_profiling = FALSE /\ hooks = FALSE
    /\ region_map = 0 /\ have_disabled_hooks = FALSE
    /\ heap_checker_pid = 0 /\ pid = 1 /\ libraries = 1
    /\ profile_name_prefix = FALSE /\ main_heap_checker = FALSE /\ do_main_heap_check = FALSE
    /\ arena = {} /\ profile = {} /\ marked = {} /\ ignored_objects = {} /\ disabled_ranges = 0
    /\ name_ = [c \in AllCheckers |-> FALSE]
    /\ start_snapshot_ = [c \in AllCheckers |-> {}]
    /\ has_checked_ = [c \in AllCheckers |-> FALSE]
    /\ lock_ = [c \in AllCheckers |-> NULL] /\ alignment_checker_lock = NULL
    /\ heap_cleanups = <<>>
    /\ pc = [t \in Threads |-> IF t = Main THEN "boot" ELSE "unborn"]
    /\ ret = [t \in Threads |-> "main"]
    /\ chk = [t \in Threads |-> NULL] /\ arg = [t \in Threads |-> NULL]
    /\ leaks = [t \in Threads |-> {}]
    /\ thread_disable_counter = [t \in Threads |-> 0]
    /\ fate = "running"
    /\ reach = {} /\ used = {} /\ since = [c \in AllCheckers |-> {}]
    /\ hidden = {} /\ checked = {}
    /\ made = {} /\ gone = {}
    /\ ops = 0 /\ mainChecks = 0 /\ canceled = FALSE

At(t, label) == Running /\ pc[t] = label
Goto(t, label) == pc' = [pc EXCEPT ![t] = label]
Fatal(check) == fate' = check

-------------------------------------------------------------------------------
(* The switch.                                                               *)

(* Hooks come first, then the region map, then the table.                    *)
BeforeConstructorsLocked ==
    /\ hooks' = TRUE /\ constructor_heap_profiling' = TRUE
    /\ region_map' = region_map + 1
    /\ arena' = arena \cup {<<"heap_profile">>}
    /\ heap_checker_on' = TRUE

(* The first allocation.  The pid is set always; without HEAPCHECK, or when  *)
(* the program is setuid, there is no checker.                               *)
BeforeConstructors ==
    /\ At(Main, "boot") /\ Goto(Main, "ctors")
    /\ heap_checker_pid' = pid
    /\ IF env.HEAPCHECK /\ ~env.setuid THEN BeforeConstructorsLocked
       ELSE UNCHANGED <<hooks, constructor_heap_profiling, region_map, arena, heap_checker_on>>
    /\ UNCHANGED <<settings, have_disabled_hooks, pid, libraries, whole, profile, marked, ignored_objects,
                   disabled_ranges, checker, locks, ret, chk, arg, leaks, program, fate, counts>>

Shutdown == {<<"heap_profile">>, <<"ignored_objects">>, <<"disabled_ranges">>, <<"caller_ranges">>}

(* All that the checker has is given back, and nothing else may be out.      *)
TurnItselfOffLocked ==
    /\ FLAGS_heap_check' = ""
    /\ IF constructor_heap_profiling
       THEN /\ heap_checker_on' = FALSE /\ hooks' = FALSE /\ region_map' = region_map - 1
            /\ profile' = {} /\ marked' = {} /\ ignored_objects' = {} /\ disabled_ranges' = 0
            /\ arena' = arena \ Shutdown
            /\ fate' = IF arena' = {} THEN fate ELSE "internal leak"
       ELSE UNCHANGED <<heap_checker_on, hooks, region_map, tables, fate>>

(* The lines of the maps give the ranges in which checks are disabled; the   *)
(* libraries of a program may change, and two sets of them have ranges with  *)
(* the same end.  The ranges of callers are made anew.                       *)
RangesConflict == disabled_ranges \notin {0, libraries}
DisableLibraryAllocs ==
    /\ disabled_ranges' = IF RangesConflict THEN disabled_ranges ELSE libraries
    /\ arena' = arena \cup {<<"disabled_ranges">>, <<"caller_ranges">>}

-------------------------------------------------------------------------------
(* HeapLeakChecker_InternalInitStart.                                        *)

(* Without a mode, under valgrind or a debugger the checker is turned off.   *)
InternalInitStart ==
    /\ At(Main, "init")
    /\ IF FLAGS_heap_check = "" \/ env.valgrind \/ env.traced
       THEN TurnItselfOffLocked /\ Goto(Main, "main")
       ELSE /\ IF constructor_heap_profiling THEN Goto(Main, "init_flags") /\ UNCHANGED fate
               ELSE Fatal("start so late") /\ UNCHANGED pc
            /\ UNCHANGED <<FLAGS_heap_check, heap_checker_on, hooks, region_map, tables>>
    /\ UNCHANGED <<env, before_constructors, after_destructors, flood, constructor_heap_profiling,
                   have_disabled_hooks, process, whole, checker, locks, ret, chk, arg, leaks, program, counts>>

(* The mode sets the flags that decide from when and until when objects      *)
(* count, and whether what can be reached is ignored.                        *)
SetFlags ==
    /\ At(Main, "init_flags")
    /\ IF FLAGS_heap_check \in {"minimal", "normal", "strict", "draconian", "as-is", "local"}
       THEN Goto(Main, "init_maps") /\ UNCHANGED fate
       ELSE Fatal("unsupported flag") /\ UNCHANGED pc
    /\ before_constructors' = CASE FLAGS_heap_check = "minimal" -> FALSE
                                [] FLAGS_heap_check \in {"normal", "strict", "draconian"} -> TRUE
                                [] OTHER -> before_constructors
    /\ after_destructors' = CASE FLAGS_heap_check \in {"minimal", "normal"} -> FALSE
                              [] FLAGS_heap_check \in {"strict", "draconian"} -> TRUE
                              [] OTHER -> after_destructors
    /\ flood' = (flood /\ FLAGS_heap_check # "draconian")
    /\ UNCHANGED <<env, FLAGS_heap_check, switch, process, whole, tables, checker, locks, ret, chk, arg,
                   leaks, program, counts>>

(* Without the maps the checker cannot work.                                 *)
InitMaps ==
    /\ At(Main, "init_maps")
    /\ IF env.maps
       THEN /\ DisableLibraryAllocs /\ Goto(Main, "init_prefix") /\ heap_checker_on' = TRUE
            /\ UNCHANGED <<FLAGS_heap_check, hooks, region_map, profile, marked, ignored_objects, fate>>
       ELSE TurnItselfOffLocked /\ Goto(Main, "main")
    /\ UNCHANGED <<env, before_constructors, after_destructors, flood, constructor_heap_profiling,
                   have_disabled_hooks, process, whole, checker, locks, ret, chk, arg, leaks, program, counts>>

(* The name of the dumps is there, and a probe shows that the hooks work;    *)
(* but for the local mode the checker of the whole program is made.          *)
InitPrefix ==
    /\ At(Main, "init_prefix")
    /\ profile_name_prefix' = TRUE
    /\ fate' = IF hooks THEN fate ELSE "not linked"
    /\ IF FLAGS_heap_check = "local"
       THEN Goto(Main, "main") /\ UNCHANGED <<ret, chk>>
       ELSE /\ Goto(Main, "create") /\ ret' = [ret EXCEPT ![Main] = "init_main"]
            /\ chk' = [chk EXCEPT ![Main] = MainChecker]
    /\ UNCHANGED <<settings, switch, process, main_heap_checker, do_main_heap_check, tables, checker, locks,
                   arg, leaks, program, counts>>

InitMain ==
    /\ At(Main, "init_main") /\ Goto(Main, "main")
    /\ main_heap_checker' = TRUE /\ do_main_heap_check' = TRUE
    /\ fate' = IF heap_checker_on /\ constructor_heap_profiling THEN fate ELSE "not on"
    /\ UNCHANGED <<settings, switch, process, profile_name_prefix, tables, checker, locks, ret, chk, arg,
                   leaks, program, counts>>

-------------------------------------------------------------------------------
(* Hooks and the table.                                                      *)

(* An object made while the thread has a Disabler is marked in the table.    *)
NewHook(t, a) ==
    /\ profile' = IF hooks /\ heap_checker_on THEN profile \cup {a} ELSE profile
    /\ marked' = IF hooks /\ heap_checker_on /\ thread_disable_counter[t] > 0 THEN marked \cup {a}
                 ELSE marked

DeleteHook(a) ==
    /\ profile' = IF hooks /\ heap_checker_on THEN profile \ {a} ELSE profile
    /\ marked' = IF hooks /\ heap_checker_on THEN marked \ {a} ELSE marked

(* An object that is not on the heap is not ignored.                         *)
DoIgnoreObject(a) ==
    IF heap_checker_on /\ a \in profile
    THEN /\ ignored_objects' = ignored_objects \cup {a}
         /\ arena' = arena \cup {<<"ignored_objects">>}
    ELSE UNCHANGED <<ignored_objects, arena>>

UnIgnoreObject(a) ==
    IF ~heap_checker_on THEN UNCHANGED <<ignored_objects, fate>>
    ELSE /\ ignored_objects' = ignored_objects \ {a}
         /\ fate' = IF a \in profile /\ a \in ignored_objects THEN fate ELSE "not ignored"

Unchecked == <<settings, switch, process, whole>>

-------------------------------------------------------------------------------
(* A checker is made.  Its name is an object of the heap that is ignored     *)
(* before anyone can see it; nobody else has its lock yet.                   *)
CreateName(t) ==
    /\ At(t, "create") /\ Goto(t, "create_ignore")
    /\ name_' = [name_ EXCEPT ![chk[t]] = FALSE]
    /\ has_checked_' = [has_checked_ EXCEPT ![chk[t]] = FALSE]
    /\ NewHook(t, chk[t])
    /\ UNCHANGED <<Unchecked, arena, ignored_objects, disabled_ranges, start_snapshot_, locks, ret, chk, arg,
                   leaks, program, fate, counts>>

(* Mutant: the name is left to be found.                                     *)
CreateIgnoreNothing(t) ==
    /\ At(t, "create_ignore") /\ Goto(t, "create_locked")
    /\ UNCHANGED <<Unchecked, tables, checker, locks, ret, chk, arg, leaks, program, fate, counts>>

CreateIgnore(t) ==
    /\ At(t, "create_ignore") /\ Goto(t, "create_locked")
    /\ DoIgnoreObject(chk[t])
    /\ UNCHANGED <<Unchecked, profile, marked, disabled_ranges, checker, locks, ret, chk, arg, leaks, program,
                   fate, counts>>

(* The checker of the whole program has no snapshot when what constructors   *)
(* made is to count.                                                         *)
MakeStartSnapshot(c) == c # MainChecker \/ ~before_constructors

CreateLocked(t) ==
    /\ At(t, "create_locked") /\ alignment_checker_lock = NULL
    /\ LET c == chk[t] IN
       IF heap_checker_on /\ profile_name_prefix
       THEN /\ name_' = [name_ EXCEPT ![c] = TRUE]
            /\ Goto(t, ret[t]) /\ ret' = [ret EXCEPT ![t] = "main"]
            /\ chk' = [chk EXCEPT ![t] = NULL]
            /\ IF MakeStartSnapshot(c)
               THEN /\ start_snapshot_' = [start_snapshot_ EXCEPT ![c] = profile]
                    /\ arena' = arena \cup {<<"snapshot", c>>}
                    /\ since' = [since EXCEPT ![c] = {}]
               ELSE UNCHANGED <<start_snapshot_, arena, since>>
       ELSE Goto(t, "create_unignore") /\ UNCHANGED <<name_, start_snapshot_, arena, since, ret, chk>>
    /\ UNCHANGED <<Unchecked, profile, marked, ignored_objects, disabled_ranges, has_checked_, locks, arg,
                   leaks, reach, used, hidden, checked, thread_disable_counter, heap_cleanups, made, gone, fate, counts>>

(* Nothing is done with a checker that was made while there was no checking. *)
CreateUnIgnore(t) ==
    /\ At(t, "create_unignore") /\ Goto(t, "delete_name")
    /\ UnIgnoreObject(chk[t])
    /\ UNCHANGED <<Unchecked, arena, profile, marked, disabled_ranges, checker, locks, ret, chk, arg, leaks,
                   program, counts>>

DeleteName(t) ==
    /\ At(t, "delete_name") /\ Goto(t, ret[t])
    /\ ret' = [ret EXCEPT ![t] = "main"] /\ chk' = [chk EXCEPT ![t] = NULL]
    /\ DeleteHook(chk[t])
    /\ UNCHANGED <<Unchecked, arena, ignored_objects, disabled_ranges, checker, locks, arg, leaks, program,
                   fate, counts>>

-------------------------------------------------------------------------------
(* DoNoLeaks.                                                                *)

(* A name can be reached from its checker, or from the stack of who makes it. *)
Live == (IF flood THEN reach \cup AllCheckers ELSE {}) \cup ignored_objects \cup marked

NonLiveSnapshot(c) == (profile \ Live) \ start_snapshot_[c]

CheckLock(t) ==
    /\ At(t, "check") /\ lock_[chk[t]] = NULL /\ Goto(t, "check_align")
    /\ lock_' = [lock_ EXCEPT ![chk[t]] = t]
    /\ UNCHANGED <<Unchecked, tables, checker, alignment_checker_lock, ret, chk, arg, leaks, program, fate,
                   counts>>

(* When symbols have been looked up there is no further check.               *)
CheckAlignmentLock(t) ==
    /\ At(t, "check_align") /\ alignment_checker_lock = NULL /\ Goto(t, "check_heap")
    /\ alignment_checker_lock' = t
    /\ fate' = IF have_disabled_hooks THEN "after the last check" ELSE fate
    /\ UNCHANGED <<Unchecked, tables, checker, lock_, ret, chk, arg, leaks, program, counts>>

Return(t) ==
    /\ Goto(t, ret[t]) /\ ret' = [ret EXCEPT ![t] = "main"]
    /\ chk' = [chk EXCEPT ![t] = NULL]
    /\ lock_' = [lock_ EXCEPT ![chk[t]] = NULL] /\ alignment_checker_lock' = NULL
    /\ checked' = checked \cup {chk[t]}

(* The first of the checks that stops the program.                           *)
Stop(c) == IF RangesConflict THEN "ranges conflict"
           ELSE IF ~name_[c] THEN "turned on later"
           ELSE IF ~(ignored_objects \subseteq profile) THEN "ignored object gone"
           ELSE fate

(* Heap activity is stopped here.  A second look with another alignment, if  *)
(* there are leaks and a flag asks for it, leaves nothing behind.            *)
CheckHeap(t) ==
    /\ At(t, "check_heap")
    /\ LET c == chk[t]
           found == NonLiveSnapshot(c)
       IN  IF ~heap_checker_on
           THEN Return(t) /\ UNCHANGED <<arena, disabled_ranges, has_checked_, leaks, fate>>
           ELSE /\ disabled_ranges' = IF RangesConflict THEN disabled_ranges ELSE libraries
                /\ fate' = Stop(c)
                /\ has_checked_' = [has_checked_ EXCEPT ![c] = TRUE]
                /\ IF found = {}
                   THEN /\ arena' = arena \cup {<<"disabled_ranges">>, <<"caller_ranges">>}
                        /\ Return(t) /\ UNCHANGED leaks
                   ELSE /\ arena' = arena \cup {<<"disabled_ranges">>, <<"caller_ranges">>,
                                                <<"leaks", t>>, <<"file name", t>>}
                        /\ leaks' = [leaks EXCEPT ![t] = found]
                        /\ Goto(t, "check_report")
                        /\ UNCHANGED <<ret, chk, lock_, alignment_checker_lock, checked>>
    /\ UNCHANGED <<Unchecked, profile, marked, ignored_objects, name_, start_snapshot_, arg, reach, used, since,
                   hidden, thread_disable_counter, heap_cleanups, made, gone, counts>>

(* The main check looks up symbols, for which the program forks.  It asks    *)
(* for the one hook of the old interface, which the checker has never set;   *)
(* the hooks in the lists stay.                                              *)
CheckReport(t) ==
    /\ At(t, "check_report") /\ Goto(t, "check_free")
    /\ IF ret[t] = "main_check"
       THEN /\ region_map' = region_map - 1 /\ have_disabled_hooks' = TRUE
       ELSE UNCHANGED <<region_map, have_disabled_hooks>>
    /\ UNCHANGED <<settings, heap_checker_on, constructor_heap_profiling, hooks, process, whole, tables,
                   checker, locks, ret, chk, arg, leaks, program, fate, counts>>

(* Leaks of the whole program end it with an error.                          *)
CheckFree(t) ==
    /\ At(t, "check_free")
    /\ arena' = arena \ {<<"leaks", t>>, <<"file name", t>>}
    /\ leaks' = [leaks EXCEPT ![t] = {}]
    /\ Return(t)
    /\ fate' = IF ret[t] = "main_check" THEN "exit 1" ELSE fate
    /\ UNCHANGED <<Unchecked, profile, marked, ignored_objects, disabled_ranges, checker, arg, reach, used,
                   since, hidden, thread_disable_counter, heap_cleanups, made, gone, counts>>

-------------------------------------------------------------------------------
(* A checker goes.  One that was asked nothing stops the program.            *)
DestroySnapshot(t) ==
    /\ At(t, "destroy")
    /\ LET c == chk[t] IN
       IF name_[c]
       THEN /\ fate' = IF has_checked_[c] THEN fate ELSE "never checked"
            /\ start_snapshot_' = [start_snapshot_ EXCEPT ![c] = {}]
            /\ arena' = arena \ {<<"snapshot", c>>}
            /\ Goto(t, "destroy_name") /\ UNCHANGED <<ret, chk>>
       ELSE /\ Goto(t, ret[t]) /\ ret' = [ret EXCEPT ![t] = "main"] /\ chk' = [chk EXCEPT ![t] = NULL]
            /\ UNCHANGED <<start_snapshot_, arena, fate>>
    /\ UNCHANGED <<Unchecked, profile, marked, ignored_objects, disabled_ranges, name_, has_checked_, locks, arg,
                   leaks, program, counts>>

DestroyName(t) ==
    /\ At(t, "destroy_name") /\ Goto(t, "delete_name")
    /\ UnIgnoreObject(chk[t])
    /\ name_' = [name_ EXCEPT ![chk[t]] = FALSE]
    /\ UNCHANGED <<Unchecked, arena, profile, marked, disabled_ranges, start_snapshot_, has_checked_, locks, ret,
                   chk, arg, leaks, program, counts>>

-------------------------------------------------------------------------------
(* What the program does.                                                    *)
Idle(t) == Running /\ pc[t] \in {"ctors", "main", "dtors"}
MayCall(t, op) == Idle(t) /\ op \in Ops /\ ops < MaxOps /\ ops' = ops + 1
Call(t, label, c) == /\ Goto(t, label) /\ ret' = [ret EXCEPT ![t] = pc[t]]
                     /\ chk' = [chk EXCEPT ![t] = c]
Quiet == <<Unchecked, tables, checker, locks, leaks>>

(* An object is made: the hook runs when it is there.  Addresses that a      *)
(* start snapshot has are not used again: the gap of the table by addresses. *)
Alloc(t) ==
    /\ MayCall(t, "alloc") /\ Call(t, "hook", NULL)
    /\ \E a \in Addrs \ used :
         /\ \A c \in AllCheckers : a \notin start_snapshot_[c]
         /\ arg' = [arg EXCEPT ![t] = a]
         /\ used' = used \cup {a} /\ reach' = reach \cup {a}
         /\ hidden' = IF thread_disable_counter[t] > 0 THEN hidden \cup {a} ELSE hidden
    /\ UNCHANGED <<Quiet, since, checked, thread_disable_counter, heap_cleanups, made, gone, fate, mainChecks, canceled>>

AllocHook(t) ==
    /\ At(t, "hook") /\ Goto(t, ret[t]) /\ ret' = [ret EXCEPT ![t] = "main"]
    /\ NewHook(t, arg[t])
    /\ since' = [c \in AllCheckers |-> since[c] \cup {arg[t]}]
    /\ arg' = [arg EXCEPT ![t] = NULL]
    /\ UNCHANGED <<Unchecked, arena, ignored_objects, disabled_ranges, checker, locks, chk, leaks, reach, used,
                   hidden, checked, thread_disable_counter, heap_cleanups, made, gone, fate, counts>>

Cleaned == {heap_cleanups[i] : i \in DOMAIN heap_cleanups}
Held(a) == \E t \in Threads : arg[t] = a
Known == {a \in reach : ~Held(a)}

(* An object is freed: the hook runs while it is still there.                *)
FreeHook(t) ==
    /\ MayCall(t, "free") /\ Call(t, "free", NULL)
    /\ \E a \in Known \ (Cleaned \cup ignored_objects) :
         /\ arg' = [arg EXCEPT ![t] = a]
         /\ DeleteHook(a)
         /\ reach' = reach \ {a}
    /\ UNCHANGED <<Unchecked, arena, ignored_objects, disabled_ranges, checker, locks, leaks, used, since, hidden,
                   checked, thread_disable_counter, heap_cleanups, made, gone, fate, mainChecks, canceled>>

Release(a) == /\ used' = used \ {a} /\ hidden' = hidden \ {a}
              /\ since' = [c \in AllCheckers |-> since[c] \ {a}]

Free(t) ==
    /\ At(t, "free") /\ Goto(t, ret[t]) /\ ret' = [ret EXCEPT ![t] = "main"]
    /\ Release(arg[t])
    /\ arg' = [arg EXCEPT ![t] = NULL]
    /\ UNCHANGED <<Quiet, chk, reach, checked, thread_disable_counter, heap_cleanups, made, gone, fate, counts>>

(* The last pointer to an object is lost.                                    *)
Forget(t) ==
    /\ MayCall(t, "forget")
    /\ \E a \in Known \ Cleaned : reach' = reach \ {a}
    /\ UNCHANGED <<Quiet, pc, ret, chk, arg, used, since, hidden, checked, thread_disable_counter, heap_cleanups,
                   made, gone, fate, mainChecks, canceled>>

(* Disablers of a thread nest.                                               *)
Disabler(t) ==
    /\ MayCall(t, "disabler")
    /\ thread_disable_counter' = [thread_disable_counter EXCEPT ![t] = @ + 1]
    /\ UNCHANGED <<Quiet, pc, ret, chk, arg, reach, used, since, hidden, checked, heap_cleanups, made, gone, fate,
                   mainChecks, canceled>>

EndDisabler(t) ==
    /\ Idle(t) /\ thread_disable_counter[t] > 0
    /\ thread_disable_counter' = [thread_disable_counter EXCEPT ![t] = @ - 1]
    /\ UNCHANGED <<Quiet, pc, ret, chk, arg, reach, used, since, hidden, checked, heap_cleanups, made, gone, fate,
                   counts>>

IgnoreObject(t) ==
    /\ MayCall(t, "ignore")
    /\ \E a \in Known \ Cleaned : DoIgnoreObject(a)
    /\ UNCHANGED <<Unchecked, profile, marked, disabled_ranges, checker, locks, control, program, fate, mainChecks,
                   canceled>>

EndIgnoreObject(t) ==
    /\ Idle(t)
    /\ \E a \in Known \cap ignored_objects : UnIgnoreObject(a)
    /\ UNCHANGED <<Unchecked, arena, profile, marked, disabled_ranges, checker, locks, control, program, counts>>

NewChecker(t) ==
    /\ MayCall(t, "checker")
    /\ \E c \in Checkers \ made : Call(t, "create", c) /\ made' = made \cup {c}
    /\ UNCHANGED <<Quiet, arg, reach, used, since, hidden, checked, thread_disable_counter, heap_cleanups, gone,
                   fate, mainChecks, canceled>>

InUse(c, labels) == \E t \in Threads : chk[t] = c /\ pc[t] \in labels
Creating == {"create", "create_ignore", "create_locked", "create_unignore", "delete_name"}
Present == {c \in made \ gone : ~InUse(c, Creating)}

NoLeaks(t) ==
    /\ MayCall(t, "no_leaks")
    /\ \E c \in Present : Call(t, "check", c)
    /\ UNCHANGED <<Quiet, arg, program, fate, mainChecks, canceled>>

(* There is nothing to ask before the checker of the program is made.        *)
NoGlobalLeaks(t) ==
    /\ MayCall(t, "no_global_leaks")
    /\ IF main_heap_checker THEN Call(t, "check", MainChecker) ELSE UNCHANGED <<pc, ret, chk>>
    /\ UNCHANGED <<Quiet, arg, program, fate, mainChecks, canceled>>

(* The increase is there when a check was made; the program asks for it only *)
(* after a check.                                                            *)
BytesLeaked(t) ==
    /\ MayCall(t, "bytes")
    /\ \E c \in checked \ gone : /\ lock_[c] = NULL
                                 /\ fate' = IF has_checked_[c] THEN fate ELSE "not checked"
    /\ UNCHANGED <<Quiet, pc, ret, chk, arg, program, mainChecks, canceled>>

Delete(t) ==
    /\ Idle(t)
    /\ \E c \in (checked \cap made) \ gone :
         /\ \A u \in Threads : chk[u] # c
         /\ Call(t, "destroy", c) /\ gone' = gone \cup {c}
    /\ UNCHANGED <<Quiet, arg, reach, used, since, hidden, checked, thread_disable_counter, heap_cleanups, made,
                   fate, counts>>

CancelGlobalCheck(t) ==
    /\ MayCall(t, "cancel")
    /\ do_main_heap_check' = FALSE /\ canceled' = (canceled \/ do_main_heap_check)
    /\ UNCHANGED <<settings, switch, process, profile_name_prefix, main_heap_checker, tables, checker, locks,
                   control, program, fate, mainChecks>>

(* A cleaner that frees an object at the end: a static object of the program *)
(* or of a library.                                                          *)
HeapCleaner(t) ==
    /\ MayCall(t, "cleaner") /\ pc[t] # "dtors"
    /\ \E a \in Known \ (Cleaned \cup ignored_objects) : heap_cleanups' = Append(heap_cleanups, a)
    /\ UNCHANGED <<Quiet, pc, ret, chk, arg, reach, used, since, hidden, checked, thread_disable_counter, made,
                   gone, fate, mainChecks, canceled>>

(* Libraries are loaded in the place of others.                              *)
LoadLibrary(t) ==
    /\ MayCall(t, "library") /\ libraries' = 3 - libraries
    /\ UNCHANGED <<settings, switch, heap_checker_pid, pid, whole, tables, checker, locks, control, program,
                   fate, mainChecks, canceled>>

(* The process goes on as a child in which only the caller lives; the model  *)
(* forks while other threads are outside of the checker.                     *)
Fork(t) ==
    /\ MayCall(t, "fork") /\ t = Main /\ pid = 1
    /\ \A u \in Threads \ {Main} : pc[u] \in {"unborn", "main"}
    /\ pid' = 2 /\ mainChecks' = 0
    /\ pc' = [u \in Threads |-> IF u = Main THEN pc[u] ELSE "unborn"]
    /\ UNCHANGED <<settings, switch, heap_checker_pid, libraries, whole, tables, checker, locks, ret, chk, arg,
                   leaks, program, fate, canceled>>

-------------------------------------------------------------------------------
(* The life of the process.                                                  *)
Pass(from, to) ==
    /\ At(Main, from) /\ Goto(Main, to)
    /\ UNCHANGED <<Quiet, ret, chk, arg, program, fate, counts>>

EndConstructors == Pass("ctors", "init")
Exit == Pass("main", "cleanups")
EndDestructors == Pass("dtors", "after")

Spawn(t) ==
    /\ At(t, "unborn") /\ pc[Main] = "main" /\ Goto(t, "main")
    /\ UNCHANGED <<Quiet, ret, chk, arg, program, fate, counts>>

(* Cleaners run in order, not in a child or in the local mode.               *)
RunHeapCleanup ==
    /\ At(Main, "cleanups") /\ FLAGS_heap_check # "local" /\ pid = heap_checker_pid
    /\ heap_cleanups # <<>>
    /\ LET a == Head(heap_cleanups) IN DeleteHook(a) /\ Release(a) /\ reach' = reach \ {a}
    /\ heap_cleanups' = Tail(heap_cleanups)
    /\ UNCHANGED <<Unchecked, arena, ignored_objects, disabled_ranges, checker, locks, control, checked,
                   thread_disable_counter, made, gone, fate, counts>>

EndHeapCleanups ==
    /\ At(Main, "cleanups")
    /\ (FLAGS_heap_check # "local" /\ pid = heap_checker_pid) => heap_cleanups = <<>>
    /\ Goto(Main, IF FLAGS_heap_check # "local" /\ pid = heap_checker_pid /\ ~after_destructors
                  THEN "do_main_check" ELSE "dtors")
    /\ UNCHANGED <<Quiet, ret, chk, arg, program, fate, counts>>

MainCheckDone == IF after_destructors THEN "after_end" ELSE "dtors"

(* The main check is made once, with symbols.                                *)
DoMainHeapCheck ==
    /\ At(Main, "do_main_check")
    /\ IF do_main_heap_check
       THEN /\ do_main_heap_check' = FALSE /\ mainChecks' = mainChecks + 1
            /\ Goto(Main, "check") /\ ret' = [ret EXCEPT ![Main] = "main_check"]
            /\ chk' = [chk EXCEPT ![Main] = MainChecker]
       ELSE Goto(Main, MainCheckDone) /\ UNCHANGED <<do_main_heap_check, mainChecks, ret, chk>>
    /\ UNCHANGED <<settings, switch, process, profile_name_prefix, main_heap_checker, tables, checker, locks,
                   arg, leaks, program, fate, ops, canceled>>

MainHeapCheckReturns == Pass("main_check", MainCheckDone)

AfterDestructors ==
    /\ At(Main, "after")
    /\ IF pid # heap_checker_pid THEN fate' = "exit 0" /\ UNCHANGED pc
       ELSE Goto(Main, IF after_destructors THEN "do_main_check" ELSE "after_end") /\ UNCHANGED fate
    /\ UNCHANGED <<Quiet, ret, chk, arg, program, counts>>

AfterDestructorsEnds ==
    /\ At(Main, "after_end")
    /\ fate' = IF do_main_heap_check THEN "should have done it" ELSE "exit 0"
    /\ UNCHANGED <<Quiet, pc, ret, chk, arg, program, counts>>

-------------------------------------------------------------------------------
Steps(t) == \/ CreateName(t) \/ CreateIgnore(t) \/ CreateLocked(t) \/ CreateUnIgnore(t) \/ DeleteName(t)
            \/ CheckLock(t) \/ CheckAlignmentLock(t) \/ CheckHeap(t) \/ CheckReport(t) \/ CheckFree(t)
            \/ DestroySnapshot(t) \/ DestroyName(t) \/ AllocHook(t) \/ Free(t)

Calls(t) == \/ Alloc(t) \/ FreeHook(t) \/ Forget(t) \/ Disabler(t) \/ EndDisabler(t)
            \/ IgnoreObject(t) \/ EndIgnoreObject(t)
            \/ NewChecker(t) \/ NoLeaks(t) \/ NoGlobalLeaks(t) \/ BytesLeaked(t) \/ Delete(t)
            \/ CancelGlobalCheck(t) \/ HeapCleaner(t) \/ LoadLibrary(t) \/ Fork(t) \/ Spawn(t)

Life == \/ BeforeConstructors \/ EndConstructors
        \/ InternalInitStart \/ SetFlags \/ InitMaps \/ InitPrefix \/ InitMain
        \/ Exit \/ RunHeapCleanup \/ EndHeapCleanups \/ DoMainHeapCheck \/ MainHeapCheckReturns
        \/ EndDestructors \/ AfterDestructors \/ AfterDestructorsEnds

Next == Life \/ \E t \in Threads : Steps(t) \/ Calls(t)

Spec == Init /\ [][Next]_vars

-------------------------------------------------------------------------------
(* heap-checker.cc:2188: while the checker is on, all that feeds its table is *)
(* there, and what it has from its allocator is the table, the optional data,*)
(* the snapshots of checkers that are there and what checks in progress      *)
(* have; a check or a checker that is done has left nothing.                 *)
ArenaAccounted ==
    /\ heap_checker_on => /\ constructor_heap_profiling /\ hooks /\ <<"heap_profile">> \in arena
                          /\ have_disabled_hooks \/ region_map = 1
    /\ ~heap_checker_on => arena = {} /\ region_map = 0 /\ profile = {}
    /\ arena \ Shutdown =
         {<<"snapshot", c>> : c \in {d \in AllCheckers : /\ name_[d] /\ MakeStartSnapshot(d)
                                                         /\ ~InUse(d, {"destroy_name"})}}
           \cup UNION {{<<"leaks", t>>, <<"file name", t>>} :
                       t \in {u \in Threads : pc[u] \in {"check_report", "check_free"}}}

(* heap-checker.cc:1767: with correct use, none of the checks of the checker *)
(* on itself ever stops the program.  Two do without any mistake of the      *)
(* program: "not checked", when it asks for the bytes after a check that was *)
(* disabled (1727), and "ranges conflict", when a library is loaded in the   *)
(* place of one that has gone (2336).                                        *)
NeverStops == fate \notin {"internal leak", "ignored object gone", "not ignored", "not linked", "not on",
                           "should have done it", "never checked"}

(* heap-checker.cc:1575: the name of a checker that is active is on the heap *)
(* and is ignored, until the checker goes.                                   *)
NamesIgnored == \A c \in AllCheckers : name_[c] => c \in profile /\ c \in ignored_objects

(* The objects a check has to find: made after the start of the checker, not *)
(* under a Disabler, not ignored, not being freed, and out of reach of the   *)
(* program, unless nothing is done about reach.                              *)
Due(c) == {a \in since[c] \ (hidden \cup ignored_objects) :
             /\ ~Held(a)
             /\ a \notin reach \/ ~flood}

(* heap-checker.cc:1755: a check reports exactly those.                      *)
LeaksExact ==
    \A t \in Threads :
         (pc[t] = "check_heap" /\ pc'[t] # "check_heap" /\ heap_checker_on /\ fate' = "running") =>
            Due(chk[t]) = IF pc'[t] = "check_report" THEN leaks'[t] ELSE {}

(* heap-checker.cc:2145: when the process has ended the check of the whole   *)
(* program was made once, but for a child, after a cancel, or when there is  *)
(* no checker of it.                                                         *)
MainCheckOnce ==
    (fate \in {"exit 0", "exit 1"}) =>
       mainChecks = IF main_heap_checker /\ ~canceled /\ pid = heap_checker_pid THEN 1 ELSE 0

(* heap-checker.cc:1923: the main check sees the heap after all cleaners.    *)
CleanersFirst == pc[Main] = "check_heap" /\ ret[Main] = "main_check" => heap_cleanups = <<>>

=============================================================================
