-------------------------- MODULE AllocEntryPoints --------------------------
(***************************************************************************)
(* The allocation functions a program calls: the tc_ functions of          *)
(* tcmalloc.cc and the Perftools_ functions that                           *)
(* windows/patch_functions.cc patches over the C libraries and over        *)
(* kernel32.  Each is a short program of steps: allocating, calling the    *)
(* new and delete hooks, freeing.  Threads interleave between the steps,   *)
(* and an address that one thread has freed may be allocated by another    *)
(* before the first returns.                                               *)
(*                                                                         *)
(* The allocator below is abstract: it hands out free addresses with room  *)
(* for the request, or fails.  Sizes are size_t: they wrap at SizeT.  The  *)
(* hooks are those of a profiler that keeps a table of live objects.       *)
(***************************************************************************)
EXTENDS Integers, Sequences, FiniteSets, TLC

CONSTANTS Threads,
          Addresses,   \* the addresses the allocator hands out
          Foreign,     \* blocks of another allocator, from before tcmalloc was there
          Mix,         \* the calls the threads make: "entries", "threads" or "sizes"
          SizeT,       \* 2^64: sizes wrap here
          Biggest,     \* the largest request that can succeed
          MaxCalls     \* bound on the calls

EntryBounds == /\ SizeT \in Nat \ {0} /\ Biggest \in 0..(SizeT - 1) /\ MaxCalls \in Nat
                      /\ Addresses \cap Foreign = {}

NULL == "NULL"
SizeOfPointer == 2
pagesize == 4

VARIABLES block,    \* the allocator: address -> size of the live blocks
          known,    \* the profiler's table: address -> size
          tc_new_mode,
          handler,  \* what std::set_new_handler holds now
          installed,\* the handler the program installed
          hlock,    \* the holder of set_new_handler_lock, or "none"
          todo,     \* the steps each thread still has to take
          call,     \* its call: ep, ptr, size (the request it makes), want (the program's)
          result,   \* the pointer it will return
          nh,       \* the handler it has read
          bad,      \* a hook was called for an address in the wrong state
          outcome,  \* how its last call ended: "returned", "bad_alloc", "crash"
          calls

vars == <<block, known, tc_new_mode, handler, installed, hlock, todo, call, result, nh, bad,
          outcome, calls>>

-----------------------------------------------------------------------------
(* The entry points: the steps of each.                                    *)

tc_malloc == <<"do_malloc_or_cpp_alloc", "InvokeNewHook">>
tc_calloc == <<"do_calloc", "InvokeNewHook">>
tc_new == <<"cpp_alloc", "InvokeNewHook">>
tc_newarray == tc_new
tc_new_nothrow == <<"cpp_alloc nothrow", "InvokeNewHook">>
tc_newarray_nothrow == tc_new_nothrow
tc_memalign == <<"do_memalign_or_cpp_memalign", "InvokeNewHook">>
tc_posix_memalign == <<"check alignment", "do_memalign_or_cpp_memalign", "InvokeNewHook">>
tc_valloc == <<"align to page", "do_memalign_or_cpp_memalign", "InvokeNewHook">>
tc_pvalloc == <<"round up to page", "align to page", "do_memalign_or_cpp_memalign", "InvokeNewHook">>

tc_free == <<"InvokeDeleteHook", "do_free">>
tc_cfree == tc_free
tc_delete == tc_free
tc_delete_nothrow == tc_free
tc_deletearray == tc_free
tc_deletearray_nothrow == tc_free

\* do_realloc_with_callback: a block that has room, and not twice as much, stays,
\* and the hooks see it go and come with its new size.  One that grows by less
\* than a quarter asks for that quarter first.
do_realloc(old, size, free) ==
    LET lower_bound_to_grow == old + old \div 4
        grow == IF size > old /\ size < lower_bound_to_grow
                THEN <<"ask more", "do_malloc_or_cpp_alloc", "ask less if NULL">>
                ELSE <<"do_malloc_or_cpp_alloc">>
    IN IF size > old \/ size < old \div 2
       THEN grow \o <<"stop if NULL", "InvokeNewHook", "InvokeDeleteHook", free>>
       ELSE <<"InvokeDeleteHook", "InvokeNewHook">>
tc_realloc(p, old, size) ==
    CASE p = NULL -> tc_malloc
      [] p # NULL /\ size = 0 -> tc_free \o <<"return NULL">>
      [] OTHER -> do_realloc(old, size, "do_free")

\* The functions of a patched C library: a block that is not tcmalloc's goes to
\* the library's own free.
Perftools_malloc == tc_malloc
Perftools_calloc == tc_calloc
Perftools_new == tc_new
Perftools_newarray == tc_new
Perftools_new_nothrow == tc_new_nothrow
Perftools_newarray_nothrow == tc_new_nothrow
Perftools_free == <<"InvokeDeleteHook", "do_free_with_callback">>
Perftools_delete == Perftools_free
Perftools_deletearray == Perftools_free
Perftools_delete_nothrow == Perftools_free
Perftools_deletearray_nothrow == Perftools_free
Perftools_realloc(p, old, size) ==
    CASE p = NULL -> Perftools_malloc
      [] p # NULL /\ size = 0 -> Perftools_free \o <<"return NULL">>
      [] OTHER -> do_realloc(old, size, "do_free_with_callback")
Perftools__expand == <<"return NULL">>

\* The functions of kernel32: the original, and the hook after or before it.
Perftools_HeapAlloc == <<"origstub alloc", "InvokeNewHook">>
Perftools_HeapFree == <<"InvokeDeleteHook", "origstub free">>
Perftools_VirtualAllocEx == Perftools_HeapAlloc
Perftools_VirtualFreeEx == Perftools_HeapFree
Perftools_MapViewOfFileEx == Perftools_HeapAlloc
Perftools_UnmapViewOfFile == Perftools_HeapFree

Allocators ==
    [tc_malloc |-> tc_malloc, tc_calloc |-> tc_calloc, tc_new |-> tc_new, tc_newarray |-> tc_newarray,
     tc_new_nothrow |-> tc_new_nothrow, tc_newarray_nothrow |-> tc_newarray_nothrow,
     tc_memalign |-> tc_memalign, tc_posix_memalign |-> tc_posix_memalign, tc_valloc |-> tc_valloc,
     tc_pvalloc |-> tc_pvalloc, malloc |-> Perftools_malloc, calloc |-> Perftools_calloc,
     new |-> Perftools_new, newarray |-> Perftools_newarray, new_nothrow |-> Perftools_new_nothrow,
     newarray_nothrow |-> Perftools_newarray_nothrow, HeapAlloc |-> Perftools_HeapAlloc,
     VirtualAllocEx |-> Perftools_VirtualAllocEx, MapViewOfFileEx |-> Perftools_MapViewOfFileEx]
Frees ==
    [tc_free |-> tc_free, tc_cfree |-> tc_cfree, tc_delete |-> tc_delete,
     tc_delete_nothrow |-> tc_delete_nothrow, tc_deletearray |-> tc_deletearray,
     tc_deletearray_nothrow |-> tc_deletearray_nothrow, free |-> Perftools_free,
     delete |-> Perftools_delete, deletearray |-> Perftools_deletearray,
     delete_nothrow |-> Perftools_delete_nothrow,
     deletearray_nothrow |-> Perftools_deletearray_nothrow, HeapFree |-> Perftools_HeapFree,
     VirtualFreeEx |-> Perftools_VirtualFreeEx, UnmapViewOfFile |-> Perftools_UnmapViewOfFile,
     _expand |-> Perftools__expand]

\* Every entry point, with one size, the aligned ones with good and bad alignments;
\* the functions that differ, for the interleavings of threads; sizes up to the
\* largest size_t, and products beyond it.
Entry(ep, n) == [ep |-> ep, ptr |-> NULL, size |-> n, n |-> 1, align |-> 2]
EveryEntry ==
    {Entry(ep, 2) : ep \in (DOMAIN Allocators \cup DOMAIN Frees) \ {"tc_pvalloc"}}
    \cup {[Entry("tc_posix_memalign", 2) EXCEPT !.align = a] : a \in {0, 1, 8}}
    \cup {Entry(ep, n) : ep \in {"tc_realloc", "realloc"}, n \in {0, 2, 6}}
OneOfEach ==
    {Entry("tc_malloc", 2), Entry("free", 0), Entry("tc_new", 1)}
    \cup {Entry("realloc", n) : n \in {0, 1, 3}}
AllSizes ==
    {Entry(ep, n) : ep \in {"tc_malloc", "tc_memalign", "tc_realloc", "tc_valloc", "tc_pvalloc"},
                    n \in 0..(SizeT - 1)}
    \cup {[Entry("tc_calloc", n) EXCEPT !.n = m] : n \in 0..6, m \in 0..6}
Calls == CASE Mix = "entries" -> EveryEntry [] Mix = "threads" -> OneOfEach [] Mix = "sizes" -> AllSizes

OldSize(p) == IF p = NULL THEN 0 ELSE block[p]
Program(c) ==
    CASE c.ep \in DOMAIN Allocators -> Allocators[c.ep]
      [] c.ep \in DOMAIN Frees -> Frees[c.ep]
      [] c.ep = "tc_realloc" -> tc_realloc(c.ptr, OldSize(c.ptr), c.size)
      [] c.ep = "realloc" -> Perftools_realloc(c.ptr, OldSize(c.ptr), c.size)

-----------------------------------------------------------------------------
NoCall == [ep |-> "none", ptr |-> NULL, size |-> 0, want |-> 0, align |-> 1]

Init ==
    /\ block = [a \in Foreign |-> 1]
    /\ known = << >>
    /\ tc_new_mode \in BOOLEAN
    /\ installed \in {"none", "handler"} /\ handler = installed
    /\ hlock = "none"
    /\ todo = [t \in Threads |-> << >>]
    /\ call = [t \in Threads |-> NoCall]
    /\ result = [t \in Threads |-> NULL]
    /\ nh = [t \in Threads |-> "none"]
    /\ bad = FALSE
    /\ outcome = [t \in Threads |-> "returned"]
    /\ calls = 0

memory == <<block, known, bad>>
handlers == <<tc_new_mode, handler, installed, hlock, nh>>

At(t, step) == todo[t] # << >> /\ Head(todo[t]) = step
Proceed(t) == todo' = [todo EXCEPT ![t] = Tail(@)]
Becomes(t, steps) == todo' = [todo EXCEPT ![t] = steps \o Tail(@)]
Ends(t, how) == todo' = [todo EXCEPT ![t] = << >>] /\ outcome' = [outcome EXCEPT ![t] = how]

InUse == {call[t].ptr : t \in {u \in Threads : todo[u] # << >>}}

\* A call: what is freed or resized is a live block nobody else is at work on,
\* and blocks of the other allocator only reach the patched functions.
Call(t) ==
    /\ todo[t] = << >> /\ outcome[t] # "crash" /\ calls < MaxCalls
    /\ calls' = calls + 1
    /\ \E c \in Calls, p \in {NULL} \cup Addresses \cup Foreign :
          LET frees == c.ep \in DOMAIN Frees \cup {"tc_realloc", "realloc"}
              n == IF c.ep \in {"tc_calloc", "calloc"} THEN c.n ELSE 1
          IN /\ p # NULL => frees /\ p \in DOMAIN block /\ p \notin InUse
             /\ p \in Foreign => c.ep \in {"free", "delete", "realloc"}
             /\ p \in Addresses => p \in DOMAIN known
             /\ call' = [call EXCEPT ![t] = [ep |-> c.ep, ptr |-> p, size |-> (c.size * n) % SizeT,
                                             want |-> c.size * n, align |-> c.align]]
             /\ todo' = [todo EXCEPT ![t] = Program([c EXCEPT !.ptr = p])]
             /\ result' = [result EXCEPT ![t] = p]
    /\ outcome' = [outcome EXCEPT ![t] = "returned"]
    /\ UNCHANGED <<memory, handlers>>

-----------------------------------------------------------------------------
(* Allocating.                                                             *)

\* What an allocation of the requested size may give, external to this module.
Grants(t, size, a) ==
    \/ a = NULL
    \/ a \in Addresses \ DOMAIN block /\ size <= Biggest
Allocated(t, size, a) ==
    /\ block' = IF a = NULL THEN block ELSE (a :> size) @@ block
    /\ result' = [result EXCEPT ![t] = a]

\* do_malloc and do_memalign (which gives at least one byte, and nothing when the
\* sum of size and alignment wraps).
Size(t) == call[t].size
Allocate(t) ==
    /\ At(t, "do_malloc")
    /\ \E a \in {NULL} \cup Addresses : Grants(t, Size(t), a) /\ Allocated(t, Size(t), a)
    /\ Proceed(t)
    /\ UNCHANGED <<known, bad, handlers, call, outcome, calls>>
MemAlign(t) ==
    /\ At(t, "do_memalign")
    /\ LET size == IF Size(t) = 0 THEN 1 ELSE Size(t)
       IN \E a \in {NULL} \cup Addresses :
             /\ Size(t) + call[t].align >= SizeT => a = NULL
             /\ Grants(t, size, a) /\ Allocated(t, size, a)
    /\ Proceed(t)
    /\ UNCHANGED <<known, bad, handlers, call, outcome, calls>>

\* Mutant: the product is not checked.
CallocUnchecked(t) == Becomes(t, <<"do_malloc_or_cpp_alloc">>) /\ UNCHANGED result
\* do_calloc: size / elem_size differs from n exactly when the product wrapped.
do_calloc(t) ==
    IF call[t].want >= SizeT
    THEN Proceed(t) /\ result' = [result EXCEPT ![t] = NULL]
    ELSE Becomes(t, <<"do_malloc_or_cpp_alloc">>) /\ UNCHANGED result
Calloc(t) == At(t, "do_calloc") /\ do_calloc(t) /\ UNCHANGED <<memory, handlers, call, outcome, calls>>

\* do_malloc_or_cpp_alloc and do_memalign_or_cpp_memalign: in new mode the new
\* handler is called, and a failure is still a NULL.
ByNewMode(t) ==
    /\ \/ At(t, "do_malloc_or_cpp_alloc")
          /\ Becomes(t, IF tc_new_mode THEN <<"cpp_alloc nothrow">> ELSE <<"do_malloc">>)
       \/ At(t, "do_memalign_or_cpp_memalign")
          /\ Becomes(t, IF tc_new_mode THEN <<"cpp_memalign">> ELSE <<"do_memalign">>)
    /\ UNCHANGED <<memory, handlers, call, result, outcome, calls>>

\* cpp_alloc and cpp_memalign: one round of the loop.
CppAlloc(t) ==
    /\ \/ At(t, "cpp_alloc") /\ Becomes(t, <<"do_malloc", "if NULL", "fail: throw">>)
       \/ At(t, "cpp_alloc nothrow") /\ Becomes(t, <<"do_malloc", "if NULL", "fail: NULL">>)
       \/ At(t, "cpp_memalign") /\ Becomes(t, <<"do_memalign", "if NULL", "fail: align">>)
    /\ UNCHANGED <<memory, handlers, call, result, outcome, calls>>

IfNull(t) ==
    /\ At(t, "if NULL")
    /\ IF result[t] # NULL THEN todo' = [todo EXCEPT ![t] = Tail(Tail(@))]
       ELSE Becomes(t, <<"lock", "read", "restore", "handle">>)
    /\ UNCHANGED <<memory, handlers, call, result, outcome, calls>>

LockHandler(t) == hlock = "none" /\ hlock' = t
ReadHandler(t) ==
    /\ \/ At(t, "lock") /\ LockHandler(t) /\ UNCHANGED <<nh, handler>>
       \/ /\ At(t, "read")
          /\ nh' = [nh EXCEPT ![t] = handler] /\ handler' = "none" /\ UNCHANGED hlock
       \/ /\ At(t, "restore")
          /\ handler' = nh[t] /\ hlock' = "none" /\ UNCHANGED nh
    /\ Proceed(t)
    /\ UNCHANGED <<memory, tc_new_mode, installed, call, result, outcome, calls>>

\* Without a handler the allocation fails; with one it is called and either
\* returns, and the allocation is tried again, or throws bad_alloc.
Handle(t) ==
    LET failure == todo[t][2]
        again == CASE failure = "fail: throw" -> "cpp_alloc" [] failure = "fail: NULL" -> "cpp_alloc nothrow"
                   [] OTHER -> "cpp_memalign"
        rest == Tail(Tail(todo[t]))
        fails == IF failure = "fail: throw" THEN Ends(t, "bad_alloc")
                 ELSE todo' = [todo EXCEPT ![t] = rest] /\ UNCHANGED outcome
    IN /\ At(t, "handle")
       /\ \/ fails
          \/ nh[t] = "handler" /\ todo' = [todo EXCEPT ![t] = <<again>> \o rest] /\ UNCHANGED outcome
       /\ UNCHANGED <<memory, handlers, call, result, calls>>

\* tc_posix_memalign's EINVAL, tc_valloc's and tc_pvalloc's arguments.
InvalidAlignment(align) == align % SizeOfPointer # 0 \/ align \notin {1, 2, 4, 8}
RoundUpToPage(size) ==
    LET s == IF size = 0 THEN pagesize ELSE size
        sum == (s + pagesize - 1) % SizeT
    IN sum - (sum % pagesize)
Arguments(t) ==
    /\ \/ /\ At(t, "check alignment")
          /\ IF InvalidAlignment(call[t].align) THEN Ends(t, "returned") ELSE Proceed(t) /\ UNCHANGED outcome
          /\ UNCHANGED call
       \/ /\ At(t, "align to page") /\ call' = [call EXCEPT ![t].align = pagesize]
          /\ Proceed(t) /\ UNCHANGED outcome
       \/ /\ At(t, "round up to page") /\ call' = [call EXCEPT ![t].size = RoundUpToPage(@)]
          /\ Proceed(t) /\ UNCHANGED outcome
    /\ UNCHANGED <<memory, handlers, result, calls>>

-----------------------------------------------------------------------------
(* Hooks and freeing.                                                      *)

InvokeNewHook(t) ==
    /\ At(t, "InvokeNewHook")
    /\ LET p == result[t]
       IN /\ known' = IF p = NULL THEN known ELSE (p :> call[t].size) @@ known
          /\ bad' = (bad \/ p \in DOMAIN known)
    /\ Proceed(t)
    /\ UNCHANGED <<block, handlers, call, result, outcome, calls>>

\* A block from before tcmalloc was never announced.
InvokeDeleteHook(t) ==
    /\ At(t, "InvokeDeleteHook")
    /\ LET p == call[t].ptr
       IN /\ known' = [a \in DOMAIN known \ {p} |-> known[a]]
          /\ bad' = (bad \/ p \in Addresses \ DOMAIN known)
    /\ Proceed(t)
    /\ UNCHANGED <<block, handlers, call, result, outcome, calls>>

\* do_free crashes on a block it does not know, do_free_with_callback and the
\* originals give it to its own allocator; all ignore NULL.
Free(t) ==
    LET p == call[t].ptr
    IN /\ \E step \in {"do_free", "do_free_with_callback", "origstub free"} : At(t, step)
       /\ IF p \in Foreign /\ At(t, "do_free") THEN Ends(t, "crash") /\ UNCHANGED block
          ELSE /\ block' = [a \in DOMAIN block \ {p} |-> block[a]]
               /\ Proceed(t) /\ UNCHANGED outcome
       /\ UNCHANGED <<known, bad, handlers, call, result, calls>>

Rest(t) ==
    /\ \/ At(t, "return NULL") /\ result' = [result EXCEPT ![t] = NULL] /\ Proceed(t)
          /\ UNCHANGED <<call, outcome>>
       \/ /\ At(t, "ask more") /\ call' = [call EXCEPT ![t].size = OldSize(call[t].ptr) + OldSize(call[t].ptr) \div 4]
          /\ Proceed(t) /\ UNCHANGED <<result, outcome>>
       \/ /\ At(t, "ask less if NULL") /\ call' = [call EXCEPT ![t].size = call[t].want]
          /\ IF result[t] = NULL THEN Becomes(t, <<"do_malloc_or_cpp_alloc">>) ELSE Proceed(t)
          /\ UNCHANGED <<result, outcome>>
       \/ /\ At(t, "stop if NULL") /\ UNCHANGED <<call, result>>
          /\ IF result[t] = NULL THEN Ends(t, "returned") ELSE Proceed(t) /\ UNCHANGED outcome
       \/ At(t, "origstub alloc") /\ Becomes(t, <<"do_malloc">>) /\ UNCHANGED <<call, result, outcome>>
    /\ UNCHANGED <<memory, handlers, calls>>

Step(t) == \/ Allocate(t) \/ MemAlign(t) \/ Calloc(t) \/ ByNewMode(t) \/ CppAlloc(t) \/ IfNull(t)
           \/ ReadHandler(t) \/ Handle(t) \/ Arguments(t) \/ InvokeNewHook(t) \/ InvokeDeleteHook(t)
           \/ Free(t) \/ Rest(t)

Next == \E t \in Threads : Call(t) \/ Step(t)
Spec == Init /\ [][Next]_vars

-----------------------------------------------------------------------------
(* Properties.                                                             *)

TypeOK ==
    /\ DOMAIN block \subseteq Addresses \cup Foreign /\ DOMAIN known \subseteq Addresses
    /\ \A a \in DOMAIN block : block[a] \in 0..Biggest
    /\ handler \in {"none", "handler"} /\ hlock \in Threads \cup {"none"}
    /\ \A t \in Threads : Size(t) \in 0..(SizeT - 1) /\ result[t] \in {NULL} \cup Addresses \cup Foreign

\* The hooks of one address alternate: a profiler never sees an address allocated
\* twice or freed when it is not allocated, although the address may be handed
\* to another thread as soon as it is free.
HooksAlternate == ~bad

\* When no call is under way the profiler's table has exactly the live blocks.
HooksSeeEverything ==
    (\A t \in Threads : todo[t] = << >>) => DOMAIN known = DOMAIN block \ Foreign

\* A size that tc_pvalloc cannot round up to a page: the sum wraps, and the block it
\* returns is of the smallest size (tcmalloc.cc:1628).
PvallocWraps(c) == c.ep = "tc_pvalloc" /\ c.want + pagesize - 1 >= SizeT

\* The block that a call is about to return has room for what the program asked for,
\* whatever the size, unless PvallocWraps.
ResultHasRoom ==
    \A t \in Threads :
        At(t, "InvokeNewHook") /\ result[t] # NULL /\ ~PvallocWraps(call[t])
            => block[result[t]] >= call[t].want

\* A thread that read the new handler got the one the program installed: another
\* thread's reading never makes an allocation fail early.
HandlerIsRead == \A t \in Threads : At(t, "handle") => nh[t] = installed

\* Only the throwing operators throw: malloc in new mode, the aligned functions
\* and the nothrow operators return NULL.
OnlyNewThrows ==
    \A t \in Threads : outcome[t] = "bad_alloc" => call[t].ep \in {"tc_new", "tc_newarray", "new", "newarray"}

\* Freeing a block of another allocator through the functions of a patched
\* library never ends the process.
NoCrash == \A t \in Threads : outcome[t] # "crash"
=============================================================================
