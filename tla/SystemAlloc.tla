----------------------------- MODULE SystemAlloc -----------------------------
(* Memory from the system (system-alloc.cc) and from a huge page file       *)
(* system (memfs_malloc.cc).  One call runs at a time, under spinlock, but  *)
(* the program calls sbrk on its own between the steps of a call.           *)
EXTENDS Integers, Sequences, FiniteSets

CONSTANTS
  W,             \* addresses and sizes are unsigned numbers below W
  BrkStart, BrkLimit,   \* the first break and the largest the kernel allows
  MmapLo, MmapHi,       \* the pages mmap chooses from
  MinAlign,      \* sizeof(MemoryAligner)
  pagesize, BigPage,
  Limit,         \* memfs_malloc_limit_mb in the same unit; 0 is no limit
  Requests,      \* the <<size, alignment, wants actual_size>> of callers
  MaxRegions,    \* bound on regions handed out
  MaxForeign     \* bound on the program's own sbrk calls

SystemAllocConstants ==
  /\ \A n \in {W, BrkStart, BrkLimit, MmapLo, MmapHi, Limit} : n \in Nat
  /\ BrkStart <= BrkLimit /\ BrkLimit < W \div 2
  /\ BrkLimit <= MmapLo /\ MmapLo <= MmapHi /\ MmapHi <= W
  /\ \A n \in {MinAlign, pagesize, BigPage} : n \in Nat \ {0}
  /\ Requests \subseteq (0 .. W - 1) \X (0 .. W - 1) \X BOOLEAN

VARIABLES
  brk,         \* the program break
  mapped,      \* addresses mapped by mmap
  foreign,     \* history: addresses the program's own sbrk calls took
  allocs,      \* allocs_: the order of the two child allocators
  failed,      \* failed_ of the default allocator
  huge,        \* the hugetlb allocator: installed, failed_, hugetlb_base_
  files,       \* history: the file ranges that were mapped
  call,        \* the running call
  given,       \* history: the regions handed out
  released     \* history: the last release, asked for and done

vars == <<brk, mapped, foreign, allocs, failed, huge, files, call, given, released>>

NULL == -1
U(n) == n % W
Negative(n) == U(n) >= W \div 2

RoundUp(n, a) == U((U(n + a - 1) \div a) * a)

Area(start, n) == start .. start + n - 1

Idle == [pc |-> "idle", req |-> <<0, 0, FALSE>>, size |-> 0, align |-> 0, i |-> 0,
         ptr |-> NULL, len |-> 0]

-----------------------------------------------------------------------------
Init ==
  /\ brk = BrkStart /\ mapped = {} /\ foreign = {}
  /\ allocs \in {<<"mmap", "sbrk">>, <<"sbrk", "mmap">>}    \* kDebugMode
  /\ failed = <<FALSE, FALSE>>
  /\ huge = [installed |-> FALSE, failed |-> TRUE, base |-> 0]
  /\ files = {}
  /\ call = Idle
  /\ given = {}
  /\ released = [asked |-> {}, done |-> {}]

(* TCMalloc_SystemAlloc: the test for overflow comes before the alignment   *)
(* is raised to the minimum.                                                *)
SystemAlloc(req) ==
  /\ call.pc = "idle" /\ Cardinality(given) < MaxRegions
  /\ LET size == req[1]
         align == IF req[2] < MinAlign THEN MinAlign ELSE req[2]
     IN call' = IF U(size + req[2]) < size
                  THEN [Idle EXCEPT !.pc = "done", !.req = req]
                  ELSE [Idle EXCEPT !.pc = IF huge.installed THEN "huge" ELSE "default",
                                    !.req = req, !.size = size, !.align = align, !.i = 1]
  /\ released' = [asked |-> {}, done |-> {}]
  /\ UNCHANGED <<brk, mapped, foreign, allocs, failed, huge, files, given>>

(* Return to the caller, who owns the region from then on.                  *)
Return ==
  /\ call.pc = "done"
  /\ given' = IF call.ptr = NULL THEN given ELSE given \cup {<<call.ptr, call.len>>}
  /\ call' = Idle
  /\ UNCHANGED <<brk, mapped, foreign, allocs, failed, huge, files, released>>

Result(ptr, len) == [call EXCEPT !.pc = "done", !.ptr = ptr, !.len = len]

-----------------------------------------------------------------------------
(* The child allocator in turn failed: on to the next one.                  *)
ChildFails == [call EXCEPT !.pc = "childfailed"]

(* Mutant: the flags stay set when both have failed.                        *)
ChildFailedNoReset ==
  /\ call.pc = "childfailed"
  /\ failed' = [failed EXCEPT ![call.i] = TRUE]
  /\ call' = IF call.i < 2 THEN [call EXCEPT !.pc = "default", !.i = @ + 1]
             ELSE Result(NULL, 0)
  /\ UNCHANGED <<brk, mapped, foreign, allocs, huge, files, given, released>>

(* failed_[i] = true, and after the last one all flags are reset.           *)
ChildFailed ==
  /\ call.pc = "childfailed"
  /\ IF call.i < 2
       THEN /\ failed' = [failed EXCEPT ![call.i] = TRUE]
            /\ call' = [call EXCEPT !.pc = "default", !.i = @ + 1]
       ELSE failed' = <<FALSE, FALSE>> /\ call' = Result(NULL, 0)
  /\ UNCHANGED <<brk, mapped, foreign, allocs, huge, files, given, released>>

(* DefaultSysAllocator::Alloc: the first child that has not failed.         *)
Default ==
  /\ call.pc = "default"
  /\ IF ~failed[call.i]
       THEN call' = [call EXCEPT !.pc = allocs[call.i]] /\ UNCHANGED failed
     ELSE IF call.i < 2
       THEN call' = [call EXCEPT !.i = @ + 1] /\ UNCHANGED failed
       ELSE failed' = <<FALSE, FALSE>> /\ call' = Result(NULL, 0)
  /\ UNCHANGED <<brk, mapped, foreign, allocs, huge, files, given, released>>

-----------------------------------------------------------------------------
(* sbrk: the old break, or failure; the kernel may refuse at any time.      *)
SbrkMoves(n) == brk + n <= BrkLimit /\ brk' = brk + n

SbrkUnchanged == UNCHANGED <<mapped, foreign, allocs, failed, huge, files, given, released>>

(* The strict check against a negative size, the rounding, the first call.  *)
SbrkFirst ==
  /\ call.pc = "sbrk"
  /\ LET size == RoundUp(call.size, call.align)
         taken == [call EXCEPT !.size = size, !.ptr = brk, !.len = size]
     IN \/ /\ ~Negative(call.size + call.align) /\ U(brk + size) >= size
           /\ SbrkMoves(size)
           /\ call' = IF brk % call.align = 0 THEN Result(brk, size)
                      ELSE [taken EXCEPT !.pc = "sbrk2"]
        \/ call' = ChildFails /\ UNCHANGED brk
  /\ SbrkUnchanged

Extra == call.align - (call.ptr % call.align)

(* More memory for the alignment: good only if it follows the first piece.  *)
SbrkSecond ==
  /\ call.pc = "sbrk2"
  /\ \/ /\ SbrkMoves(Extra)
        /\ call' = IF brk = call.ptr + call.size THEN Result(call.ptr + Extra, call.len)
                   ELSE [call EXCEPT !.pc = "sbrk3"]
     \/ call' = [call EXCEPT !.pc = "sbrk3"] /\ UNCHANGED brk
  /\ SbrkUnchanged

(* The last resort: enough to find an aligned part.                         *)
SbrkThird ==
  /\ call.pc = "sbrk3"
  /\ \/ /\ SbrkMoves(call.size + call.align - 1)
        /\ call' = Result(RoundUp(brk, call.align), call.len)
     \/ call' = ChildFails /\ UNCHANGED brk
  /\ SbrkUnchanged

(* The program moves the break itself, at any time.                         *)
ForeignSbrk ==
  /\ Cardinality(foreign) < MaxForeign
  /\ SbrkMoves(1)
  /\ foreign' = foreign \cup {brk}
  /\ UNCHANGED <<mapped, allocs, failed, huge, files, call, given, released>>

-----------------------------------------------------------------------------
(* mmap: any free place, a multiple of the page.                            *)
FreePlaces(n, page) ==
  {p \in MmapLo .. MmapHi - n : p % page = 0 /\ Area(p, n) \cap mapped = {}}

Adjusted(p, align) == RoundUp(p, align)

(* MmapSysAllocator::Alloc: maps more than needed for a larger alignment    *)
(* and gives back what stands before and behind the aligned part.           *)
Mmap ==
  /\ call.pc = "mmap"
  /\ LET align == IF call.align < pagesize THEN pagesize ELSE call.align
         size == RoundUp(call.size, align)
         n == size + align - pagesize
     IN \/ /\ size >= call.size
           /\ \E p \in FreePlaces(n, pagesize) :
                /\ mapped' = mapped \cup Area(Adjusted(p, align), size)
                /\ call' = Result(Adjusted(p, align), size)
        \/ call' = ChildFails /\ UNCHANGED mapped
  /\ UNCHANGED <<brk, foreign, allocs, failed, huge, files, given, released>>

-----------------------------------------------------------------------------
(* The module initialiser: Initialize may fail, then nothing is installed.  *)
HugeInitialize ==
  /\ ~huge.installed /\ call.pc = "idle"
  /\ huge' = [installed |-> TRUE, failed |-> FALSE, base |-> 0]
  /\ UNCHANGED <<brk, mapped, foreign, allocs, failed, files, call, given, released>>

(* The huge page allocator does not serve a request and asks the fallback   *)
(* with the caller's own size and alignment.                                *)
Fallback == [call EXCEPT !.pc = "default"]

HugeAlign == IF call.align < BigPage THEN BigPage ELSE call.align
HugeSize == RoundUp(call.size, HugeAlign)
HugeBytes == HugeSize + HugeAlign - BigPage

OverLimit == Limit > 0 /\ huge.base + HugeBytes > Limit

HugeServes ==
  /\ ~huge.failed
  /\ ~(~call.req[3] /\ call.size < BigPage)
  /\ HugeSize >= call.size

(* Alloc and AllocInternal: failed_ is set when less than a page is left    *)
(* or a system call fails; every failure goes to the fallback.              *)
HugeAlloc ==
  /\ call.pc = "huge"
  /\ \/ ~HugeServes /\ call' = Fallback /\ UNCHANGED <<huge, mapped, files>>
     \/ /\ HugeServes /\ OverLimit
        /\ huge' = [huge EXCEPT !.failed = Limit - huge.base < BigPage]
        /\ call' = Fallback /\ UNCHANGED <<mapped, files>>
     \/ /\ HugeServes /\ ~OverLimit          \* ftruncate or mmap fails
        /\ huge' = [huge EXCEPT !.failed = TRUE]
        /\ call' = Fallback /\ UNCHANGED <<mapped, files>>
     \/ /\ HugeServes /\ ~OverLimit
        /\ \E p \in FreePlaces(HugeBytes, BigPage) :
             LET ptr == Adjusted(p, HugeAlign)
                 len == HugeBytes - (ptr - p)
             IN /\ call' = Result(ptr, IF call.req[3] THEN len ELSE HugeSize)
                /\ mapped' = mapped \cup Area(p, HugeBytes)
        /\ huge' = [huge EXCEPT !.base = @ + HugeBytes]
        /\ files' = files \cup {<<huge.base, HugeBytes>>}
  /\ UNCHANGED <<brk, foreign, allocs, failed, given, released>>

-----------------------------------------------------------------------------

(* The addresses of the pages that lie inside the range.                    *)
WholePages(start, length) ==
  RoundUp(start, pagesize) .. ((start + length) \div pagesize) * pagesize - 1

(* TCMalloc_SystemRelease of the upper or lower part of a region.           *)
SystemRelease(region, from) ==
  /\ call.pc = "idle" /\ from \in Area(region[1], region[2])
  /\ LET n == region[1] + region[2] - from
     IN released' = [asked |-> Area(from, n), done |-> WholePages(from, n)]
  /\ UNCHANGED <<brk, mapped, foreign, allocs, failed, huge, files, call, given>>

Next ==
  \/ \E req \in Requests : SystemAlloc(req)
  \/ Default \/ ChildFailed \/ SbrkFirst \/ SbrkSecond \/ SbrkThird \/ Mmap
  \/ HugeAlloc \/ HugeInitialize \/ Return \/ ForeignSbrk
  \/ \E region \in given, k \in {1, 3} : SystemRelease(region, region[1] + k)

Spec == Init /\ [][Next]_vars

-----------------------------------------------------------------------------
(* The alignment is raised to the minimum after the test for overflow       *)
(* (system-alloc.cc:471, 481): such a size may still wrap to 0 when sbrk    *)
(* rounds it (215).                                                         *)
RaisedWraps(req) == req[2] < MinAlign /\ U(req[1] + MinAlign) < req[1]

(* The region a call is about to return is aligned as asked and, unless the *)
(* raised alignment wraps, large enough, on every path, the retried sbrk    *)
(* included.                                                                *)
ResultServes ==
  call.pc = "done" /\ call.ptr # NULL =>
    /\ call.ptr % call.align = 0
    /\ ~RaisedWraps(call.req) => call.len >= call.req[1]

(* Regions never overlap each other or the program's own sbrk memory and    *)
(* lie in memory the kernel really gave, although the program moves the     *)
(* break between the sbrk calls of one allocation.                          *)
RegionsAreOurs ==
  LET all == given \cup (IF call.pc = "done" /\ call.ptr # NULL
                           THEN {<<call.ptr, call.len>>} ELSE {})
      A(r) == Area(r[1], r[2])
  IN \A r \in all :
       /\ A(r) \subseteq (BrkStart .. brk - 1) \cup mapped
       /\ A(r) \cap foreign = {}
       /\ \A q \in all : q # r => A(r) \cap A(q) = {}

(* No request is refused forever because of earlier failures: between calls *)
(* one of the child allocators is still in use.                             *)
SomeChildUsable == call.pc = "idle" => ~(failed[1] /\ failed[2])

(* The huge page file never grows over its limit and no two allocations     *)
(* share a part of it.                                                      *)
HugeFileDisjoint ==
  /\ Limit > 0 => huge.base <= Limit
  /\ \A f \in files, g \in files : f # g => Area(f[1], f[2]) \cap Area(g[1], g[2]) = {}

(* A release drops only whole pages inside the range it was asked for.      *)
ReleaseStaysInside == released.done \subseteq released.asked

=============================================================================
