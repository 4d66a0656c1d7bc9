----------------------------- MODULE MallocHook -----------------------------
(* MallocHook (malloc_hook.cc, malloc_hook-inl.h) and the system calls it     *)
(* wraps (malloc_hook_mmap_linux.h, malloc_hook_mmap_freebsd.h).  A call is a *)
(* program: a stack of tasks, the first of which runs next and may be         *)
(* replaced by tasks of its own, as a call is by the body it calls.  A list   *)
(* of hooks is a sequence; that HookList behaves like one is checked in       *)
(* HookList.                                                                  *)
EXTENDS Naturals, Sequences, FiniteSets, SequencesExt

CONSTANTS Threads, NoThread,
          Platform,        \* "linux", "freebsd" or "other"
          Hooks,           \* hooks the program registers
          NoHook,
          Ranges,          \* address ranges the kernel can map
          OwnRanges,       \* ranges a replacement hands out
          Failed,          \* MAP_FAILED, the failing result
          Ops,             \* calls the program makes
          HookedKinds,     \* kinds of hooks it registers
          StandingKinds,   \* kinds Watch is registered for from the start
          MaxCalls, MaxChanges

VARIABLES lists,        \* kind -> registered hooks, in order
          single,       \* kind -> hook set through the deprecated interface
          replacement,  \* "mmap", "munmap" -> is a replacement set?
          once,         \* pthread_once_t: "init", the thread running it, "done"
          stack,        \* thread -> tasks still to run
          arg, result,  \* thread -> range it passes and gets
          mapped,       \* ranges mapped
          reported,     \* ranges the hook Watch believes to be mapped
          called,       \* thread -> (kind, hook) calls of the current call, in order
          due,          \* thread -> (kind, hook) registered since it began
          asked,        \* thread -> was the munmap replacement consulted?
          initialized,  \* runs of the initializers
          calls, changes

vars == <<lists, single, replacement, once, stack, arg, result, mapped,
          reported, called, due, asked, initialized, calls, changes>>
registry == <<lists, single, replacement>>
ghosts == <<reported, called, due, asked>>

Kinds == {"new", "delete", "premmap", "mmap", "munmap", "mremap", "presbrk", "sbrk"}
InitialKinds == {"new", "premmap", "presbrk"}
Initial == "initial"     \* InitialNewHook, InitialPreMMapHook, InitialPreSbrkHook
Watch == "watch"         \* keeps track of the mappings it is told of
Swap == "swap"           \* removes itself and adds Watch
Checker == "checker"     \* what the heap checker installs at first allocation

Task(do, k, h) == [do |-> do, kind |-> k, hook |-> h]
Invoke(k) == Task("invoke", k, NoHook)
Do(what) == Task(what, "new", NoHook)

InitList(k) == IF k \in InitialKinds THEN <<Initial>> ELSE <<>>
Standing(k) == IF k \in StandingKinds THEN <<Watch>> ELSE <<>>

Init == /\ lists = [k \in Kinds |-> InitList(k) \o Standing(k)]
        /\ single = [k \in Kinds |-> NoHook]
        /\ replacement = [k \in {"mmap", "munmap"} |-> FALSE]
        /\ once = "init"
        /\ stack = [t \in Threads |-> <<>>]
        /\ arg = [t \in Threads |-> Failed]
        /\ result = [t \in Threads |-> Failed]
        /\ mapped = {}
        /\ reported = {}
        /\ called = [t \in Threads |-> <<>>]
        /\ due = [t \in Threads |-> {}]
        /\ asked = [t \in Threads |-> FALSE]
        /\ initialized = 0
        /\ calls = 0
        /\ changes = 0
-----------------------------------------------------------------------------
(* The programs of the calls on each platform.                               *)

(* An allocation and a release as the allocator announces them.              *)
InvokeNewHook == <<Invoke("new")>>
InvokeDeleteHook == <<Invoke("delete")>>

linux_mmap64 == <<Invoke("premmap"), Do("mmap_replacement"), Invoke("mmap")>>
linux_mmap == <<Invoke("premmap"), Do("mmap_replacement"), Invoke("mmap")>>

linux_munmap == <<Invoke("munmap"), Do("munmap_replacement")>>

linux_mremap == <<Do("sys_mremap"), Invoke("mremap")>>
linux_sbrk == <<Invoke("presbrk"), Do("brk"), Invoke("sbrk")>>
linux_UnhookedMMap == <<Do("mmap_replacement")>>
linux_UnhookedMUnmap == <<Do("munmap_replacement")>>

freebsd_mmap == <<Invoke("premmap"), Do("mmap_replacement"), Invoke("mmap")>>
freebsd_munmap == <<Invoke("munmap"), Do("munmap_replacement")>>
freebsd_sbrk == <<Invoke("presbrk"), Do("brk"), Invoke("sbrk")>>
freebsd_UnhookedMMap == <<Do("mmap_replacement")>>
freebsd_UnhookedMUnmap == <<Do("munmap_replacement")>>

other_UnhookedMMap == <<Do("mmap_replacement")>>
other_UnhookedMUnmap == <<Do("munmap_replacement")>>

Program(op) ==
    CASE op = "new" -> InvokeNewHook
      [] op = "delete" -> InvokeDeleteHook
      [] op = "mmap64" -> linux_mmap64
      [] op = "mmap" -> IF Platform = "linux" THEN linux_mmap ELSE freebsd_mmap
      [] op = "munmap" -> IF Platform = "linux" THEN linux_munmap ELSE freebsd_munmap
      [] op = "mremap" -> linux_mremap
      [] op = "sbrk" -> IF Platform = "linux" THEN linux_sbrk ELSE freebsd_sbrk
      [] op = "sbrk0" -> <<Do("brk")>>
      [] op = "UnhookedMMap" ->
            IF Platform = "linux" THEN linux_UnhookedMMap
            ELSE IF Platform = "freebsd" THEN freebsd_UnhookedMMap
            ELSE other_UnhookedMMap
      [] op = "UnhookedMUnmap" ->
            IF Platform = "linux" THEN linux_UnhookedMUnmap
            ELSE IF Platform = "freebsd" THEN freebsd_UnhookedMUnmap
            ELSE other_UnhookedMUnmap

(* The range an operation is given: one that is mapped and that no other      *)
(* thread is working on, if the operation takes one.                          *)
ArgsOf(t, op) ==
    IF op \in {"munmap", "mremap", "UnhookedMUnmap"}
    THEN {r \in IF op = "UnhookedMUnmap" THEN mapped \ reported ELSE mapped : \A u \in Threads : stack[u] # <<>> => r \notin {arg[u], result[u]}}
    ELSE {Failed}

Registered == {<<k, h>> \in Kinds \X Hooks : Contains(lists[k], h) \/ single[k] = h}

Call(t, op) ==
    /\ stack[t] = <<>>
    /\ calls < MaxCalls
    /\ calls' = calls + 1
    /\ \E r \in ArgsOf(t, op) : arg' = [arg EXCEPT ![t] = r]
    /\ stack' = [stack EXCEPT ![t] = Program(op)]
    /\ result' = [result EXCEPT ![t] = Failed]
    /\ called' = [called EXCEPT ![t] = <<>>]
    /\ due' = [due EXCEPT ![t] = {p \in Registered : Contains(Program(op), Invoke(p[1]))}]
    /\ asked' = [asked EXCEPT ![t] = FALSE]
    /\ UNCHANGED <<registry, once, mapped, reported, initialized, changes>>
-----------------------------------------------------------------------------
(* Registration, each call one step (HookList).  Whatever a hook's owner      *)
(* removes is no longer due to anybody.                                       *)
MayChange == changes < MaxChanges

Changed(newlists, newsingle) ==
    /\ lists' = newlists
    /\ single' = newsingle
    /\ due' = [t \in Threads |-> {<<k, h>> \in due[t] :
                  Contains(newlists[k], h) \/ newsingle[k] = h}]

AddHook(t, k, h) ==
    /\ stack[t] = <<>> /\ MayChange
    /\ ~Contains(lists[k], h) /\ single[k] # h
    /\ changes' = changes + 1
    /\ Changed([lists EXCEPT ![k] = Append(@, h)], single)
    /\ UNCHANGED <<replacement, once, stack, arg, result, mapped, reported,
                   called, asked, initialized, calls>>

RemoveHook(t, k, h) ==
    /\ stack[t] = <<>> /\ MayChange
    /\ Contains(lists[k], h)
    /\ changes' = changes + 1
    /\ Changed([lists EXCEPT ![k] = RemoveFirst(@, h)], single)
    /\ UNCHANGED <<replacement, once, stack, arg, result, mapped, reported,
                   called, asked, initialized, calls>>

(* The deprecated SetNewHook and its like exchange the single hook.           *)
SetHook(t, k, h) ==
    /\ stack[t] = <<>> /\ MayChange
    /\ single[k] # h /\ ~Contains(lists[k], h)
    /\ changes' = changes + 1
    /\ Changed(lists, [single EXCEPT ![k] = h])
    /\ UNCHANGED <<replacement, once, stack, arg, result, mapped, reported,
                   called, asked, initialized, calls>>

(* SetMmapReplacement and SetMunmapReplacement; a second one is refused by    *)
(* the CHECK.                                                                 *)
SetReplacement(t, k) ==
    /\ stack[t] = <<>> /\ changes < MaxChanges
    /\ ~replacement[k]
    /\ changes' = changes + 1
    /\ replacement' = [replacement EXCEPT ![k] = TRUE]
    /\ UNCHANGED <<lists, single, once, stack, arg, result, mapped, ghosts,
                   initialized, calls>>

RemoveReplacement(t, k) ==
    /\ stack[t] = <<>> /\ changes < MaxChanges
    /\ replacement[k]
    /\ changes' = changes + 1
    /\ replacement' = [replacement EXCEPT ![k] = FALSE]
    /\ UNCHANGED <<lists, single, once, stack, arg, result, mapped, ghosts,
                   initialized, calls>>
-----------------------------------------------------------------------------
Top(t, do) == stack[t] # <<>> /\ Head(stack[t]).do = do
Run(t, tasks) == stack' = [stack EXCEPT ![t] = tasks \o Tail(@)]

(* Invoke...Hook: empty() decides without a traversal; the slow path takes a  *)
(* snapshot of the list and calls it; then the deprecated hook is called.     *)
CallTask(k, h) == Task("call", k, h)
(* Mutant: the last hook of the list is left out.                            *)
SnapshotButLast(k) == [i \in 1..(Len(lists[k]) - 1) |-> CallTask(k, lists[k][i])]

Snapshot(k) == [i \in DOMAIN lists[k] |-> CallTask(k, lists[k][i])]

InvokeHook(t) ==
    /\ Top(t, "invoke")
    /\ LET k == Head(stack[t]).kind
       IN Run(t, Snapshot(k) \o <<Task("single", k, NoHook)>>)
    /\ UNCHANGED <<registry, once, arg, result, mapped, ghosts, initialized,
                   calls, changes>>

InvokeSingle(t) ==
    /\ Top(t, "single")
    /\ LET k == Head(stack[t]).kind
       IN Run(t, IF single[k] = NoHook THEN <<>> ELSE <<CallTask(k, single[k])>>)
    /\ UNCHANGED <<registry, once, arg, result, mapped, ghosts, initialized,
                   calls, changes>>

(* The initial hook runs the initialization and dispatches again.            *)
InitialHook(k) == <<Do("once"), Invoke(k)>>

CallInitial(t) ==
    /\ Top(t, "call")
    /\ Head(stack[t]).hook = Initial
    /\ Run(t, InitialHook(Head(stack[t]).kind))
    /\ called' = [called EXCEPT ![t] = Append(@, <<Head(stack[t]).kind, Initial>>)]
    /\ UNCHANGED <<registry, once, arg, result, mapped, reported, due, asked, initialized,
                   calls, changes>>

(* What Watch concludes from the events it is told of.                       *)
Believed(t, k) ==
    CASE k = "mmap" -> reported \cup ({result[t]} \ {Failed})
      [] k = "munmap" -> reported \ {arg[t]}
      [] k = "mremap" /\ result[t] # Failed -> (reported \ {arg[t]}) \cup {result[t]}
      [] OTHER -> reported

CallHook(t) ==
    /\ Top(t, "call")
    /\ LET k == Head(stack[t]).kind
           h == Head(stack[t]).hook
       IN /\ h # Initial
          /\ called' = [called EXCEPT ![t] = Append(@, <<k, h>>)]
          /\ reported' = IF h = Watch THEN Believed(t, k) ELSE reported
          /\ IF h = Swap
             THEN Changed([lists EXCEPT ![k] = RemoveFirst(@, Swap) \o
                             (IF Contains(@, Watch) \/ single[k] = Watch THEN <<>> ELSE <<Watch>>)],
                          [single EXCEPT ![k] = IF @ = Swap THEN NoHook ELSE @])
             ELSE UNCHANGED <<lists, single, due>>
    /\ Run(t, <<>>)
    /\ UNCHANGED <<replacement, once, arg, result, mapped, asked, initialized,
                   calls, changes>>

RemoveInitialHooksAndCallInitializers ==
    [i \in 1..3 |-> Task("removeInitial", <<"new", "premmap", "presbrk">>[i], NoHook)]
    \o <<Do("initializers")>>

(* perftools_pthread_once: one caller runs the routine, later ones return at  *)
(* once, concurrent ones wait.                                                *)
PthreadOnce(t) ==
    /\ Top(t, "once")
    /\ \/ /\ once = "init"
          /\ once' = t
          /\ Run(t, RemoveInitialHooksAndCallInitializers \o <<Do("onceDone")>>)
       \/ /\ once = "done"
          /\ once' = once
          /\ Run(t, <<>>)
    /\ UNCHANGED <<registry, arg, result, mapped, ghosts, initialized, calls, changes>>

OnceDone(t) ==
    /\ Top(t, "onceDone")
    /\ once' = "done"
    /\ Run(t, <<>>)
    /\ UNCHANGED <<registry, arg, result, mapped, ghosts, initialized, calls, changes>>

(* RAW_CHECK(Remove...): a hook that is not there would end the program.      *)
RemoveInitial(t) ==
    /\ Top(t, "removeInitial")
    /\ LET k == Head(stack[t]).kind
       IN Contains(lists[k], Initial) /\ lists' = [lists EXCEPT ![k] = RemoveFirst(@, Initial)]
    /\ Run(t, <<>>)
    /\ UNCHANGED <<single, replacement, once, arg, result, mapped, ghosts,
                   initialized, calls, changes>>

(* The heap checker's initializer installs its hook and allocates.            *)
Initializers(t) ==
    /\ Top(t, "initializers")
    /\ initialized' = initialized + 1
    /\ lists' = [lists EXCEPT !["new"] = Append(@, Checker)]
    /\ Run(t, InvokeNewHook)
    /\ UNCHANGED <<single, replacement, once, arg, result, mapped, ghosts, calls, changes>>
-----------------------------------------------------------------------------
(* InvokeMmapReplacement and the system call it may replace.                  *)
InvokeMmapReplacement(t) ==
    /\ Top(t, "mmap_replacement")
    /\ \/ /\ replacement["mmap"]
          /\ \E r \in OwnRanges \ mapped :
               /\ result' = [result EXCEPT ![t] = r]
               /\ mapped' = mapped \cup {r}
          /\ Run(t, <<>>)
       \/ /\ Run(t, <<Do("sys_mmap")>>)
          /\ UNCHANGED <<result, mapped>>
    /\ UNCHANGED <<registry, once, arg, ghosts, initialized, calls, changes>>

(* The kernel maps a free range or refuses.                                   *)
sys_mmap(t) ==
    /\ Top(t, "sys_mmap")
    /\ \E r \in (Ranges \ mapped) \cup {Failed} :
         /\ result' = [result EXCEPT ![t] = r]
         /\ mapped' = mapped \cup ({r} \ {Failed})
    /\ Run(t, <<>>)
    /\ UNCHANGED <<registry, once, arg, ghosts, initialized, calls, changes>>

(* As written, the list whose emptiness is tested is mmap_replacement_.       *)
MunmapReplacementTested == replacement["mmap"]

InvokeMunmapReplacement(t) ==
    /\ Top(t, "munmap_replacement")
    /\ IF MunmapReplacementTested /\ replacement["munmap"]
       THEN /\ asked' = [asked EXCEPT ![t] = TRUE]
            /\ IF arg[t] \in OwnRanges
               THEN mapped' = mapped \ {arg[t]} /\ Run(t, <<>>)
               ELSE UNCHANGED mapped /\ Run(t, <<Do("sys_munmap")>>)
       ELSE Run(t, <<Do("sys_munmap")>>) /\ UNCHANGED <<mapped, asked>>
    /\ UNCHANGED <<registry, once, arg, result, reported, called, due,
                   initialized, calls, changes>>

sys_munmap(t) ==
    /\ Top(t, "sys_munmap")
    /\ mapped' = mapped \ {arg[t]}
    /\ Run(t, <<>>)
    /\ UNCHANGED <<registry, once, arg, result, ghosts, initialized, calls, changes>>

(* The old range goes and a free one or the same one comes, or nothing does.  *)
sys_mremap(t) ==
    /\ Top(t, "sys_mremap")
    /\ \E r \in (Ranges \ mapped) \cup {arg[t], Failed} :
         /\ result' = [result EXCEPT ![t] = r]
         /\ mapped' = IF r = Failed THEN mapped ELSE (mapped \ {arg[t]}) \cup {r}
    /\ Run(t, <<>>)
    /\ UNCHANGED <<registry, once, arg, ghosts, initialized, calls, changes>>

(* do_sbrk / __sbrk: moves the break, which no property looks at; with a zero *)
(* increment no hook is called.                                               *)
do_sbrk(t) ==
    /\ Top(t, "brk")
    /\ Run(t, <<>>)
    /\ UNCHANGED <<registry, once, arg, result, mapped, ghosts, initialized, calls, changes>>

Step(t) == \/ InvokeHook(t) \/ InvokeSingle(t) \/ CallInitial(t) \/ CallHook(t)
           \/ PthreadOnce(t) \/ OnceDone(t) \/ RemoveInitial(t) \/ Initializers(t)
           \/ InvokeMmapReplacement(t) \/ InvokeMunmapReplacement(t)
           \/ sys_mmap(t) \/ sys_munmap(t) \/ sys_mremap(t) \/ do_sbrk(t)

Change(t) == \/ \E k \in HookedKinds, h \in Hooks :
                  AddHook(t, k, h) \/ RemoveHook(t, k, h) \/ SetHook(t, k, h)
             \/ \E k \in HookedKinds : SetHook(t, k, NoHook)
             \/ \E k \in {"mmap", "munmap"} :
                  SetReplacement(t, k) \/ RemoveReplacement(t, k)

Next == \E t \in Threads : \/ \E op \in Ops : Call(t, op)
                           \/ Change(t)
                           \/ Step(t)

Spec == Init /\ [][Next]_vars

-----------------------------------------------------------------------------
Idle(t) == stack[t] = <<>>

(* The variables keep their types.                                            *)
TypeOK ==
    /\ \A k \in Kinds : lists[k] \in Seq(Hooks \cup {Initial, Checker, Watch})
    /\ single \in [Kinds -> Hooks \cup {NoHook}]
    /\ once \in {"init", "done"} \cup Threads
    /\ mapped \subseteq Ranges \cup OwnRanges
    /\ \A t \in Threads : {arg[t], result[t]} \subseteq Ranges \cup OwnRanges \cup {Failed}

(* A hook that was registered when a call began and is still registered when  *)
(* it ends was called exactly once for each event of its kind ("ensures we    *)
(* only call the hooks registered at the start", malloc_hook.cc), and exactly *)
(* twice for the event of a first call that the initial hook dispatched again *)
(* while the hook was already there (malloc_hook.cc:115).                     *)
TimesDue(t, k) == IF Contains(called[t], <<k, Initial>>) THEN 2 ELSE 1
ExactlyOnce ==
    \A t \in Threads : Idle(t) =>
        \A p \in due[t] :
            Cardinality({i \in DOMAIN called[t] : called[t][i] = p}) = TimesDue(t, p[1])

(* The initializers run once, they find the initial hooks removed, the        *)
(* RAW_CHECKs of the removals hold and the initial hooks never come back.     *)
InitializedOnce ==
    /\ initialized <= 1
    /\ once = "done" => initialized = 1
    /\ initialized = 1 => \A k \in Kinds : ~Contains(lists[k], Initial)
    /\ \A t \in Threads : Top(t, "removeInitial") =>
          Contains(lists[Head(stack[t]).kind], Initial)

(* When no call is under way, a hook that listens to mmap, munmap and mremap  *)
(* knows of no range that is not mapped, and when a range is mapped by one    *)
(* thread while another unmaps it, the hook hears of it in the right order.   *)
ViewExact ==
    /\ (\A t \in Threads : Idle(t)) => reported \subseteq mapped
    /\ \A t \in Threads :
         (Top(t, "call") /\ Head(stack[t]) = CallTask("mmap", Watch)) =>
            result[t] \notin reported

(* The munmap replacement is consulted before the kernel ("invoked with munmap *)
(* arguments just before the call is actually made", malloc_hook.h), but only *)
(* while there is an mmap replacement too: it is that one's list the code     *)
(* looks at (malloc_hook-inl.h:263).                                          *)
MunmapReplacementAsked ==
    \A t \in Threads :
        (Top(t, "sys_munmap") /\ replacement["mmap"] /\ replacement["munmap"]) => asked[t]

=============================================================================
