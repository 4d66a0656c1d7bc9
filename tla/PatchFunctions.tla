--------------------------- MODULE PatchFunctions ---------------------------
(***************************************************************************)
(* Finding and patching the C libraries of a Windows process               *)
(* (windows/patch_functions.cc): every module that exports malloc, free    *)
(* and their kin gets one of the LibcInfo slots, whose Perftools functions *)
(* replace the module's.  LoadLibraryExW and FreeLibrary are themselves    *)
(* patched so that modules that come and go are seen.                      *)
(*                                                                         *)
(* A code location is a function of a module, <<"m", module, i>>, or the   *)
(* i-th Perftools function of a slot, <<"p", slot, i>>.  What the preamble *)
(* patcher (PreamblePatcher) does to a location is a jump written over it  *)
(* and a stub that runs what the location did before.  The loader lock of  *)
(* Windows is external: calls that look at the modules need it, and        *)
(* Windows may hold it while it calls LoadLibraryExW or FreeLibrary.       *)
(***************************************************************************)
EXTENDS Integers, Sequences, FiniteSets, TLC, SequencesExt

CONSTANTS Threads,      \* the threads of the process
          Considered,   \* the indices of the functions looked at, the others being alike
          Kind,         \* module -> what it exports: "crt", "shared", "thunk", "plain", "nofree"
          Preloaded,    \* the modules loaded when the process starts, in order
          NumLibcs,     \* how many LibcInfo slots there are (8 in the code)
          kMaxModules,  \* how many modules one process may have
          MaxCalls,     \* bound on the calls of LoadLibraryExW and FreeLibrary
          MaxEnumFails  \* bound on the failures of EnumProcessModules

Modules == DOMAIN Kind
MainSlot == 0
Slots == 1..NumLibcs

PatchBounds ==
    /\ NumLibcs \in Nat \ {0} /\ kMaxModules \in Nat /\ MaxCalls \in Nat /\ MaxEnumFails \in Nat
    /\ Range(Preloaded) \subseteq Modules /\ Threads # {}

\* A NULL name turns the patching of that function off.
function_name_ == <<"malloc", "free", "realloc", "calloc", "new", "new[]", "delete", "delete[]",
                    "NULL", "NULL", "NULL", "NULL", "_msize", "_expand", "_calloc_crt">>
kFree == 2
kRealloc == 3
kNew == 5
kNewArray == 6
kNumFunctions == Len(function_name_)
Functions == Considered \cap 1..kNumFunctions
NULL == <<"null", 0, 0>>
perftools_fn_(slot, i) == <<"p", slot, i>>

\* LibcInfo and its patching subclass.
NoFn == [i \in Functions |-> NULL]
Locations == {"m", "p"} \X (1..9) \X Functions
LibcInfo == [is_valid : BOOLEAN, windows_fn : [Functions -> Locations \cup {NULL}],
             module : Modules \cup {0}, origstub : [Functions -> Locations \cup {NULL}]]
ClearInfo == [is_valid |-> FALSE, windows_fn |-> NoFn, module |-> 0, origstub |-> NoFn]

VARIABLES loaded,   \* Windows: the loaded modules, in load order
          refs,     \* Windows: how often each is loaded
          loader,   \* Windows: the thread that holds the loader lock, or "none"
          jump,     \* the jumps written over code locations
          libc,     \* main_executable and g_module_libcs
          g_last_loaded,
          patch_lock, \* the holder of patch_all_modules_lock, or "none"
          started,  \* PatchWindowsFunctions has returned
          pc,       \* where each thread is
          call,     \* its call: the operation, the module, made with the loader lock held
          hModules, \* its EnumProcessModules result, then the modules it has to consider
          modules,  \* its ModuleEntryCopy list
          crashed,  \* a CHECK failed, or a function jumps in a circle
          rejected, \* history: loaded modules for which there was no slot
          unloaded, \* history: modules that were unloaded at some time
          calls, fails

vars == <<loaded, refs, loader, jump, libc, g_last_loaded, patch_lock, started, pc, call,
          hModules, modules, crashed, rejected, unloaded, calls, fails>>

windows == <<loaded, refs, unloaded>>
patches == <<jump, libc, crashed, rejected>>

\* The module whose functions a module re-exports: Windows keeps it loaded.
Imports(m) == IF Kind[m] = "thunk" THEN {CHOOSE c \in Modules : Kind[c] \in {"crt", "shared"}} ELSE {}

\* What GetProcAddress finds in a module at the start of its own code: the 8-bit
\* jump of new[] to new, and the thunks of a module that re-exports another's
\* functions, are jumps found in the code.
InitialJumps ==
    LET shared == {m \in Modules : Kind[m] = "shared"}
        thunks == {m \in Modules : Kind[m] = "thunk"}
    IN [l \in {<<"m", m, kNewArray>> : m \in shared} |-> <<"m", l[2], kNew>>]
       @@ [l \in {<<"m", m, i>> : m \in thunks, i \in Functions} |->
               <<"m", CHOOSE c \in Imports(l[2]) : TRUE, l[3]>>]

Exports(m, i) ==
    CASE function_name_[i] \in {"NULL", "_calloc_crt"} -> FALSE
      [] Kind[m] = "plain" -> FALSE
      [] Kind[m] = "nofree" -> i # kFree
      [] OTHER -> TRUE

\* ModuleEntryCopy(mi): a forwarded function lies outside of the module and
\* counts as absent, as does one that is not exported.
rgProcAddresses(m) == [i \in Functions |-> IF Exports(m, i) THEN <<"m", m, i>> ELSE NULL]

\* PreamblePatcher::ResolveTarget follows the jumps at the start of a function.
RECURSIVE ResolveTarget(_, _)
ResolveTarget(j, l) == IF l \in DOMAIN j THEN ResolveTarget(j, j[l]) ELSE l

Init ==
    /\ loaded = Preloaded
    /\ refs = [m \in Modules |-> IF m \in Range(Preloaded) THEN 1 ELSE 0]
    /\ loader = "none" /\ patch_lock = "none"
    /\ jump = InitialJumps
    /\ libc = [s \in {MainSlot} \cup Slots |-> ClearInfo]
    /\ g_last_loaded = {}
    /\ started = FALSE
    /\ \E t \in Threads :
          /\ pc = [u \in Threads |-> IF u = t THEN "enum" ELSE "idle"]
          /\ call = [u \in Threads |-> [op |-> "start", module |-> 0, inside |-> FALSE]]
    /\ hModules = [t \in Threads |-> << >>]
    /\ modules = [t \in Threads |-> << >>]
    /\ crashed = FALSE /\ rejected = {} /\ unloaded = {}
    /\ calls = 0 /\ fails = 0

-----------------------------------------------------------------------------
(* PopulateWindowsFn, Patch, PatchOneModuleLocked: functions of the code and slots. *)

\* The functions of a module that can be patched: each pointer once, none that a
\* valid slot already has for the same function.
PopulateWindowsFn(addresses, st) ==
    LET found == [i \in Functions |->
                     IF function_name_[i] = "NULL" \/ addresses[i] = NULL THEN NULL
                     ELSE ResolveTarget(st.jump, addresses[i])]
        once == [i \in Functions |-> IF \E j \in Functions : j < i /\ found[j] = found[i] THEN NULL ELSE found[i]]
    IN [i \in Functions |->
           IF \E s \in Slots : st.libc[s].is_valid /\ st.libc[s].windows_fn[i] = once[i]
           THEN NULL ELSE once[i]]

\* Mutant: the last function is left out.
PatchSkipsLast(st, slot, m, fns) ==
    LET last == CHOOSE i \in Functions : function_name_[i] = "new[]"
        todo == {i \in Functions \ {last} : fns[i] \notin {NULL, perftools_fn_(slot, i)}}
    IN [st EXCEPT
          !.libc[slot] = [is_valid |-> TRUE, windows_fn |-> fns, module |-> m, origstub |-> fns],
          !.jump = [l \in {fns[i] : i \in todo} |->
                       perftools_fn_(slot, CHOOSE i \in todo : fns[i] = l)] @@ @]

\* LibcInfoWithPatchFunctions::Patch: stubs of an earlier patch of the slot are
\* dropped.  A jump that closes a circle makes its function loop for ever, which
\* ends the process here like a failed CHECK.
Patch(st, slot, m, fns) ==
    LET todo == {i \in Functions : fns[i] \notin {NULL, perftools_fn_(slot, i)}}
    IN [st EXCEPT
          !.crashed = @ \/ \E i \in todo : ResolveTarget(st.jump, perftools_fn_(slot, i)) = fns[i],
          !.libc[slot] = [is_valid |-> TRUE, windows_fn |-> fns, module |-> m,
                          origstub |-> [i \in Functions |->
                              IF i \in todo THEN fns[i] ELSE st.libc[slot].origstub[i]]],
          !.jump = [l \in {fns[i] : i \in todo} |->
                       perftools_fn_(slot, CHOOSE i \in todo : fns[i] = l)] @@ @]

\* "Too many modules containing libc" when no slot is free.
PatchOneModuleLocked(st, m, fns) ==
    LET empty == {s \in Slots : ~st.libc[s].is_valid}
    IN IF empty = {} THEN [st EXCEPT !.rejected = @ \cup {m}]
       ELSE Patch(st, CHOOSE s \in empty : \A r \in empty : s <= r, m, fns)

PatchModule(m, st) ==
    LET fns == PopulateWindowsFn(rgProcAddresses(m), st)
    IN CASE \A i \in Functions : fns[i] = NULL -> st
         [] fns[kFree] = NULL \/ fns[kRealloc] = NULL -> [st EXCEPT !.crashed = TRUE]
         [] OTHER -> PatchOneModuleLocked(st, m, fns)

\* The main executable of a dynamically linked program has no functions of its
\* own: its pointers are NULL and patching it only makes its slot valid.
PatchMainExecutableLocked(libcs) == [libcs EXCEPT ![MainSlot].is_valid = TRUE]

-----------------------------------------------------------------------------
(* PatchAllModules.                                                        *)

Goto(t, l) == pc' = [pc EXCEPT ![t] = l]
LoaderFree(t) == loader \in {"none", t}
Return(t) == /\ Goto(t, "idle")
             /\ loader' = IF loader = t THEN "none" ELSE loader

\* The end of a SpinLockHolder's scope.
Unlock(t, l) == patch_lock' = "none" /\ Goto(t, l)

\* EnumProcessModules, without the lock: it may fail, which gives no modules.
EnumProcessModules(t) ==
    /\ pc[t] = "enum" /\ LoaderFree(t)
    /\ \E fail \in BOOLEAN :
          /\ fail => fails < MaxEnumFails
          /\ fails' = fails + (IF fail THEN 1 ELSE 0)
          /\ hModules' = [hModules EXCEPT ![t] =
                IF fail THEN << >>
                ELSE SubSeq(loaded, 1, IF Len(loaded) > kMaxModules THEN kMaxModules ELSE Len(loaded))]
    /\ Goto(t, "lock1")
    /\ UNCHANGED <<windows, loader, patches, g_last_loaded, patch_lock, started, call, modules, calls>>

Acquire(t) ==
    /\ pc[t] \in {"lock1", "lock2"} /\ patch_lock = "none"
    /\ patch_lock' = t
    /\ Goto(t, IF pc[t] = "lock1" THEN "section1" ELSE "section2")
    /\ UNCHANGED <<windows, loader, patches, g_last_loaded, started, call, hModules, modules, calls, fails>>

\* The loop that replaces a known module by the last of the array.
RECURSIVE DropKnown(_, _, _)
DropKnown(s, i, known) ==
    CASE i > Len(s) -> s
      [] i <= Len(s) /\ s[i] \notin known -> DropKnown(s, i + 1, known)
      [] OTHER -> DropKnown(Front([s EXCEPT ![i] = Last(s)]), i, known)

\* The slots of modules that are not loaded any more become invalid.
DropGone(currently_loaded) ==
    [s \in DOMAIN libc |->
        IF s # MainSlot /\ libc[s].is_valid /\ libc[s].module \notin currently_loaded
        THEN [libc[s] EXCEPT !.is_valid = FALSE] ELSE libc[s]]

\* The first locked section: the snapshot becomes g_last_loaded.
Invalidate(t) ==
    /\ pc[t] = "section1"
    /\ libc' = DropGone(Range(hModules[t]))
    /\ hModules' = [hModules EXCEPT ![t] = DropKnown(@, 1, g_last_loaded)]
    /\ g_last_loaded' = Range(hModules[t])
    /\ Unlock(t, "info")
    /\ UNCHANGED <<windows, loader, jump, crashed, rejected, started, call, modules, calls, fails>>

\* GetModuleInformation and GetProcAddress, without the lock: they fail for a
\* module that is gone by now.
GetModuleInformation(t) ==
    /\ pc[t] = "info" /\ LoaderFree(t)
    /\ modules' = [modules EXCEPT ![t] = SelectSeq(hModules[t], LAMBDA m : m \in Range(loaded))]
    /\ hModules' = [hModules EXCEPT ![t] = << >>]
    /\ Goto(t, "lock2")
    /\ UNCHANGED <<windows, loader, patches, g_last_loaded, patch_lock, started, call, calls, fails>>

\* The second locked section, one module after the other,
PatchNew(t) ==
    /\ pc[t] = "section2" /\ modules[t] # << >>
    /\ LET st == [jump |-> jump, libc |-> libc, crashed |-> crashed, rejected |-> rejected]
       IN \E done \in {PatchModule(Head(modules[t]), st)} :
             /\ jump' = done.jump /\ libc' = done.libc /\ crashed' = done.crashed
             /\ rejected' = done.rejected
    /\ modules' = [modules EXCEPT ![t] = Tail(@)]
    /\ UNCHANGED <<windows, loader, g_last_loaded, patch_lock, started, pc, call, hModules, calls, fails>>

\* then the main executable, and the return to the caller: in PatchWindowsFunctions
\* that is WindowsInfo::Patch, which patches LoadLibraryExW and FreeLibrary.
FinishPatching(t) ==
    /\ pc[t] = "section2" /\ modules[t] = << >>
    /\ libc' = PatchMainExecutableLocked(libc)
    /\ patch_lock' = "none"
    /\ started' = TRUE
    /\ Return(t)
    /\ UNCHANGED <<windows, jump, crashed, rejected, g_last_loaded, call, hModules, modules, calls, fails>>

-----------------------------------------------------------------------------
(* Perftools_LoadLibraryExW and Perftools_FreeLibrary.                     *)

\* A call from the program, or from inside Windows with the loader lock held.  What
\* a loaded module imports from is loaded before it and never unloaded.
Call(t) ==
    /\ started /\ pc[t] = "idle" /\ calls < MaxCalls
    /\ calls' = calls + 1
    /\ \E op \in {"load", "free"}, m \in Modules, inside \in BOOLEAN :
          /\ op = "free" => refs[m] > (IF \E d \in Range(loaded) : m \in Imports(d) THEN 1 ELSE 0)
          /\ op = "load" => Imports(m) \subseteq Range(loaded)
          /\ inside => loader = "none"
          /\ loader' = IF inside THEN t ELSE loader
          /\ call' = [call EXCEPT ![t] = [op |-> op, module |-> m, inside |-> inside]]
          /\ Goto(t, IF op = "load" THEN "probe" ELSE "free")
    /\ UNCHANGED <<windows, patches, g_last_loaded, patch_lock, started, hModules, modules, fails>>

\* GetModuleHandleExW takes a reference when the module is loaded.
Probe(t) ==
    /\ pc[t] = "probe" /\ LoaderFree(t)
    /\ LET m == call[t].module
       IN IF refs[m] > 0
          THEN refs' = [refs EXCEPT ![m] = @ + 1] /\ Return(t)
          ELSE Goto(t, "load") /\ UNCHANGED <<refs, loader>>
    /\ UNCHANGED <<loaded, unloaded, patches, g_last_loaded, patch_lock, started, call, hModules,
                   modules, calls, fails>>

\* The original LoadLibraryExW, then PatchAllModules.
LoadLibraryExW(t) ==
    /\ pc[t] = "load" /\ LoaderFree(t)
    /\ LET m == call[t].module
       IN /\ refs' = [refs EXCEPT ![m] = @ + 1]
          /\ loaded' = IF refs[m] = 0 THEN Append(loaded, m) ELSE loaded
    /\ Goto(t, "enum")
    /\ UNCHANGED <<unloaded, loader, patches, g_last_loaded, patch_lock, started, call, hModules,
                   modules, calls, fails>>

\* The original FreeLibrary: unloading a module takes its code, and the jumps
\* written into it, away.
FreeLibrary(t) ==
    /\ pc[t] = "free" /\ LoaderFree(t)
    /\ LET m == call[t].module
           gone == {l \in DOMAIN jump : l[1] = "m" /\ l[2] = m}
       IN /\ refs' = [refs EXCEPT ![m] = IF @ = 0 THEN 0 ELSE @ - 1]
          /\ IF refs[m] = 1
             THEN /\ loaded' = SelectSeq(loaded, LAMBDA x : x # m)
                  /\ unloaded' = unloaded \cup {m}
                  /\ rejected' = rejected \ {m}
                  /\ jump' = [l \in DOMAIN jump \ {g \in gone : g \notin DOMAIN InitialJumps} |->
                                 IF l \in gone THEN InitialJumps[l] ELSE jump[l]]
             ELSE UNCHANGED <<loaded, unloaded, rejected, jump>>
    /\ Goto(t, "owner")
    /\ UNCHANGED <<loader, libc, crashed, g_last_loaded, patch_lock, started, call, hModules, modules,
                   calls, fails>>

\* GetModuleHandleExW: nothing to do when the module is still there.
Owner(t) ==
    /\ pc[t] = "owner" /\ LoaderFree(t)
    /\ IF refs[call[t].module] > 0 THEN Return(t) ELSE Goto(t, "enum") /\ UNCHANGED loader
    /\ UNCHANGED <<windows, patches, g_last_loaded, patch_lock, started, call, hModules, modules,
                   calls, fails>>

Step(t) == \/ EnumProcessModules(t) \/ Acquire(t) \/ Invalidate(t) \/ GetModuleInformation(t)
           \/ PatchNew(t) \/ FinishPatching(t) \/ Probe(t) \/ LoadLibraryExW(t) \/ FreeLibrary(t) \/ Owner(t)

\* A failed CHECK ends the process.
Done == /\ crashed \/ (calls = MaxCalls /\ \A t \in Threads : pc[t] = "idle")
        /\ UNCHANGED vars

Next == (~crashed /\ \E t \in Threads : Step(t) \/ Call(t)) \/ Done

\* Every thread that is inside a call keeps running, and gets a lock that is
\* free again and again: the spinlock and the loader lock starve nobody.
Spec == Init /\ [][Next]_vars /\ \A t \in Threads : SF_vars(~crashed /\ Step(t))

-----------------------------------------------------------------------------
(* Properties.                                                             *)

TypeOK ==
    /\ Range(loaded) \subseteq Modules /\ refs \in [Modules -> Nat]
    /\ loader \in Threads \cup {"none"} /\ patch_lock \in Threads \cup {"none"}
    /\ \A s \in DOMAIN libc : libc[s] \in LibcInfo
    /\ g_last_loaded \subseteq Modules
    /\ \A t \in Threads : Range(hModules[t]) \cup Range(modules[t]) \subseteq Modules

Quiet == started /\ ~crashed /\ \A t \in Threads : pc[t] = "idle"
HasLibc(m) == Kind[m] \in {"crt", "shared", "thunk"}
Patched(m) == \A i \in Functions : Exports(m, i) => ResolveTarget(jump, <<"m", m, i>>)[1] = "p"

\* When no call is under way and the modules could be listed last time, every
\* loaded module with a C library, or that re-exports one, has all its functions
\* replaced, unless there was no slot for it.  A failure of EnumProcessModules
\* forgets all modules, and the next listing finds them again.
LoadedLibcsPatched ==
    Quiet /\ g_last_loaded # {} => \A m \in Range(loaded) \ rejected : HasLibc(m) => Patched(m)

\* The same for the modules that were never unloaded, whatever the threads did, as
\* long as the modules could be listed: a stale snapshot may lose the slot of a
\* module but never misses a new module.
StableLibcsPatched ==
    Quiet /\ fails = 0 =>
        \A m \in Range(loaded) \ (rejected \cup unloaded) : HasLibc(m) => Patched(m)

\* What makes the code patch its own Perftools functions: a module that re-exports
\* functions that are patched already, whose jumps lead to them
\* (patch_functions.cc:488; the test at :507 compares them with the functions of
\* the modules), and a failed EnumProcessModules, after which modules get slots
\* again, and perhaps those of others.
SlotsStayApart ==
    fails = 0 /\ \A m \in Range(loaded) \cup unloaded : Kind[m] # "thunk"

\* What Perftools_free does with a pointer that is not tcmalloc's: it calls the
\* stub of its slot, which runs what the patched location did.
RECURSIVE ForeignFree(_, _)
ForeignFree(l, fuel) ==
    LET to == ResolveTarget(jump, l)
    IN IF to[1] = "m" \/ fuel = 0 THEN to
       ELSE LET body == libc[to[2]].origstub[kFree]
            IN IF body[1] = "p" THEN ForeignFree(libc[body[2]].origstub[kFree], fuel - 1) ELSE body

\* As long as SlotsStayApart, a pointer that a module's own allocator handed out
\* before it was patched is freed by that module's own free, however the slots
\* were used since.
ForeignFreeGoesHome ==
    Quiet /\ SlotsStayApart =>
        \A m \in Range(loaded) \ rejected :
            HasLibc(m) => ForeignFree(<<"m", m, kFree>>, NumLibcs) = <<"m", m, kFree>>

\* When no call is under way the valid slots are of loaded modules, no two of the same.
SlotsMatchModules ==
    Quiet => \A s \in Slots : libc[s].is_valid =>
                /\ libc[s].module \in Range(loaded)
                /\ \A r \in Slots \ {s} : libc[r].is_valid => libc[r].module # libc[s].module

\* As long as SlotsStayApart, no function is patched twice: the Perftools functions
\* are never patched themselves.
NotDoublePatched == SlotsStayApart => \A l \in DOMAIN jump : l[1] # "p"

=============================================================================
