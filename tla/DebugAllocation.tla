--------------------------- MODULE DebugAllocation ---------------------------
(* The debugging allocator (debugallocation.cc): every block carries a header *)
(* and a trailer of known words, a map remembers how each address was         *)
(* allocated, and freed blocks are filled with a known word and kept in a     *)
(* queue, so that misuse is found when the block is freed or released.        *)
(* Memory is an array of words, one for each field; sizes are in words.       *)
EXTENDS Integers, Sequences, SequencesExt, FiniteSets

CONSTANTS Threads,
          Words,          \* addresses 0..Words-1
          Starts,         \* where the base allocator may place a block
          pagesize,
          FLAGS_malloc_page_fence, FLAGS_malloc_reclaim_memory,
          FLAGS_max_free_queue_size,
          Sizes, Alignments, Types,
          MaxOps,
          MayMisuse,      \* does the program make mistakes?
          ReallocAligned  \* does it resize aligned objects?

(* The words of the code, as numbers that are no sizes.                       *)
kMagicUninitialized == -1
kMagicDeleted == -2
Unknown == -3
kMagicMalloc == -4
kMagicMMap == -5
kMallocType == -10
kNewType == -11
kArrayNewType == -12
Written == 50     \* what the program writes
Stomp == 60       \* what it writes by mistake

VARIABLES mem,           \* the words
          regions,       \* blocks of the base allocator: [start, len]
          fenced,        \* pages the program cannot touch
          alloc_map,     \* data address -> [type, freed]
          free_queue,    \* blocks kept back: [block, size]
          objects,       \* what the program holds: pointer -> record
          freed,         \* pointers it has freed
          pc,            \* thread -> its step in Deallocate
          fatal,         \* what RAW_LOG(FATAL) said
          ops

vars == <<mem, regions, fenced, alloc_map, free_queue, objects, freed, pc, fatal, ops>>

data_offset == 4          \* size1_, offset_, magic1_, alloc_type_
SizeofMallocBlock == 6    \* and size2_, magic2_

Idle == [step |-> "idle"]

Init == /\ mem = [a \in 0..(Words - 1) |-> Unknown]
        /\ regions = {}
        /\ fenced = {}
        /\ alloc_map = [a \in {} |-> 0]
        /\ free_queue = <<>>
        /\ objects = [a \in {} |-> 0]
        /\ freed = {}
        /\ pc = [t \in Threads |-> Idle]
        /\ fatal = "none"
        /\ ops = 0

(* Fields of the block at b, and where its data begins and ends.              *)
size1(m, b) == m[b]
offset(m, b) == m[b + 1]
magic1(m, b) == m[b + 2]
alloc_type(m, b) == m[b + 3]
data_addr(b) == b + data_offset
size2_addr(m, b) == data_addr(b) + size1(m, b)
magic2_addr(m, b) == size2_addr(m, b) + 1

IsMMapped(m, b) == magic1(m, b) = kMagicMMap
IsValidMagicValue(v) == v \in {kMagicMMap, kMagicMalloc}

real_malloced_size(size) == size + SizeofMallocBlock
real_mmapped_size(size) == size + data_offset

real_size(m, b) == IF IsMMapped(m, b) THEN real_mmapped_size(size1(m, b))
                   ELSE real_malloced_size(size1(m, b))

Fill(m, a, n, w) == [i \in DOMAIN m |-> IF a <= i /\ i < a + n THEN w ELSE m[i]]
With(f, a, v) == [i \in DOMAIN f \cup {a} |-> IF i = a THEN v ELSE f[i]]
Without(f, a) == [i \in DOMAIN f \ {a} |-> f[i]]
-----------------------------------------------------------------------------
(* Allocation.                                                                *)
Disjoint(s, n) == /\ s + n <= Words
                  /\ \A r \in regions : s + n <= r.start \/ r.start + r.len <= s

(* Initialize: header, trailer unless a page follows, and the filled data.    *)
Header(b, size, type, magic) ==
    LET head == [mem EXCEPT ![b] = size, ![b + 1] = 0, ![b + 2] = magic, ![b + 3] = type]
        tail == IF magic = kMagicMMap THEN head
                ELSE [head EXCEPT ![data_addr(b) + size] = size,
                                  ![data_addr(b) + size + 1] = magic]
    IN Fill(tail, data_addr(b), size, kMagicUninitialized)

(* Mutant: no page for the fence.                                             *)
PagesOfBlock(sz) == (sz + pagesize - 1) \div pagesize

NumPages(sz) == (sz + pagesize - 1) \div pagesize + 1

(* MallocBlock::Allocate: a block of the base allocator, or a mapping that    *)
(* ends, after the block, in an inaccessible page.  None if there is no room. *)
Placements(size) ==
    IF FLAGS_malloc_page_fence
    THEN LET n == NumPages(real_mmapped_size(size)) * pagesize
         IN {[block |-> s + n - pagesize - real_mmapped_size(size), start |-> s, len |-> n,
              fence |-> {(s + n) \div pagesize - 1}, magic |-> kMagicMMap] :
                s \in {x \in Starts : x % pagesize = 0 /\ Disjoint(x, n)}}
    ELSE {[block |-> s, start |-> s, len |-> real_malloced_size(size),
           fence |-> {}, magic |-> kMagicMalloc] :
             s \in {x \in Starts : Disjoint(x, real_malloced_size(size))}}

(* What is left to the caller: the pointer it hands out and its memory.       *)
Allocate(p, type) ==
    /\ regions' = regions \cup {[start |-> p.start, len |-> p.len]}
    /\ fenced' = fenced \cup p.fence
    /\ alloc_map' = With(alloc_map, data_addr(p.block), [type |-> type, freed |-> FALSE])

Object(size, type, w, aligned) ==
    [size |-> size, type |-> type, words |-> [i \in 0..(size - 1) |-> w],
     aligned |-> aligned, before |-> FALSE, after |-> FALSE]

HandOut(ptr, object, m) ==
    /\ objects' = With(objects, ptr, object)
    /\ freed' = freed \ {ptr}
    /\ mem' = m

Running(t) == fatal = "none" /\ pc[t] = Idle /\ ops < MaxOps /\ ops' = ops + 1

DebugAllocate(size, type) ==
    \E p \in Placements(size) :
       /\ Allocate(p, type)
       /\ HandOut(data_addr(p.block), Object(size, type, kMagicUninitialized, FALSE),
                  Header(p.block, size, type, p.magic))

tc_malloc(size) == DebugAllocate(size, kMallocType)
tc_new(size) == DebugAllocate(size, kNewType)
tc_newarray(size) == DebugAllocate(size, kArrayNewType)

(* calloc clears the data.                                                    *)
tc_calloc(size) ==
    \E p \in Placements(size) :
       LET ptr == data_addr(p.block)
       IN /\ Allocate(p, kMallocType)
          /\ HandOut(ptr, Object(size, kMallocType, 0, FALSE),
                     Fill(Header(p.block, size, kMallocType, p.magic), ptr, size, 0))

RoundUp(v, alignment) == ((v + alignment - 1) \div alignment) * alignment

ExtraBytes(alignment) == data_offset + alignment - 1

(* memalign puts a second header before the aligned data, of which only the   *)
(* offset back to the first one is set.                                       *)
tc_memalign(alignment, size) ==
    LET whole == size + ExtraBytes(alignment)
    IN \E pl \in Placements(whole) :
         LET orig_p == data_addr(pl.block)
             p == RoundUp(orig_p + data_offset, alignment)
         IN /\ Allocate(pl, kMallocType)
            /\ HandOut(p, Object(size, kMallocType, kMagicUninitialized, TRUE),
                       [Header(pl.block, whole, kMallocType, pl.magic) EXCEPT
                          ![p - data_offset + 1] = p - orig_p])

AllocateAny(t) ==
    /\ Running(t)
    /\ \E size \in Sizes :
         \/ kMallocType \in Types /\ (tc_malloc(size) \/ tc_calloc(size))
         \/ kNewType \in Types /\ tc_new(size)
         \/ kArrayNewType \in Types /\ tc_newarray(size)
         \/ \E al \in Alignments : tc_memalign(al, size)
    /\ UNCHANGED <<free_queue, pc, fatal>>
-----------------------------------------------------------------------------

FromRawPointer(m, p) == p - data_offset - offset(m, p - data_offset)

(* FromRawPointer refuses a header that was overwritten when it was freed.    *)
RawPointerFault(m, p) ==
    IF alloc_type(m, p - data_offset) = kMagicDeleted THEN "deallocated or stomped"
    ELSE "none"

TrailerFault(m, b) ==
    ~IsMMapped(m, b) /\ (\/ size1(m, b) # m[size2_addr(m, b)]
                         \/ ~IsValidMagicValue(m[magic2_addr(m, b)]))

(* Mutant: whether the block was freed before is not asked.                   *)
CheckLockedNoFreed(m, b, type) ==
    LET found == data_addr(b) \in DOMAIN alloc_map
    IN IF ~found THEN "never allocated"
       ELSE IF alloc_type(m, b) = kMagicDeleted THEN "word before"
       ELSE IF ~IsValidMagicValue(magic1(m, b)) THEN "word before"
       ELSE IF TrailerFault(m, b) THEN "word after"
       ELSE IF alloc_type(m, b) # type
       THEN IF alloc_type(m, b) \notin {kMallocType, kNewType, kArrayNewType}
            THEN "word before" ELSE "mismatch"
       ELSE "none"

CheckLocked(m, b, type) ==
    LET found == data_addr(b) \in DOMAIN alloc_map
    IN IF ~found THEN "never allocated"
       ELSE IF alloc_map[data_addr(b)].freed THEN "already deallocated"
       ELSE IF alloc_type(m, b) = kMagicDeleted THEN "word before"
       ELSE IF ~IsValidMagicValue(magic1(m, b)) THEN "word before"
       ELSE IF TrailerFault(m, b) THEN "word after"
       ELSE IF alloc_type(m, b) # type
       THEN IF alloc_type(m, b) \notin {kMallocType, kNewType, kArrayNewType}
            THEN "word before" ELSE "mismatch"
       ELSE IF alloc_type(m, b) # alloc_map[data_addr(b)].type THEN "map corrupted"
       ELSE "none"

Die(why) == /\ fatal' = why
            /\ UNCHANGED <<mem, regions, fenced, alloc_map, free_queue>>
-----------------------------------------------------------------------------

(* The program may free what it holds and, by mistake, what it freed and is   *)
(* still in the queue.                                                        *)
Quarantined(ptr) ==
    /\ ptr \in freed
    /\ \E i \in DOMAIN free_queue :
         /\ free_queue[i].block < ptr
         /\ ptr < free_queue[i].block + free_queue[i].size
Types_of(ptr) == IF MayMisuse THEN Types \cup {objects[ptr].type} ELSE {objects[ptr].type}

FreeBegin(t) ==
    /\ Running(t)
    /\ \/ \E ptr \in DOMAIN objects : \E type \in Types_of(ptr) :
            /\ pc' = [pc EXCEPT ![t] = [step |-> "check", ptr |-> ptr, type |-> type,
                                        object |-> objects[ptr],
                                        block |-> FromRawPointer(mem, ptr)]]
            /\ objects' = Without(objects, ptr)
            /\ freed' = freed \cup {ptr}
            /\ UNCHANGED <<mem, regions, fenced, alloc_map, free_queue, fatal>>
       \/ \E ptr \in {p \in freed : MayMisuse /\ Quarantined(p)} :
            /\ RawPointerFault(mem, ptr) # "none"
            /\ Die(RawPointerFault(mem, ptr))
            /\ UNCHANGED <<objects, freed, pc>>
       \/ \E ptr \in {p \in freed : \E u \in Threads \ {t} : pc[u] # Idle /\ pc[u].ptr = p} :
            /\ MayMisuse
            /\ RawPointerFault(mem, ptr) = "none"
            /\ \E u \in Threads \ {t} : pc[u] # Idle /\ pc[u].ptr = ptr /\
                 pc' = [pc EXCEPT ![t] = [pc[u] EXCEPT !.step = "check",
                            !.block = FromRawPointer(mem, ptr)]]
            /\ UNCHANGED <<mem, regions, fenced, alloc_map, free_queue, fatal, objects, freed>>

CheckAndClear(t) ==
    /\ fatal = "none" /\ pc[t].step = "check"
    /\ LET b == pc[t].block
           why == CheckLocked(mem, b, pc[t].type)
       IN IF why # "none" THEN Die(why) /\ UNCHANGED pc
          ELSE /\ alloc_map' = [alloc_map EXCEPT ![data_addr(b)].freed = TRUE]
               /\ pc' = [pc EXCEPT ![t].step = "fill"]
               /\ UNCHANGED <<mem, regions, fenced, free_queue, fatal>>
    /\ UNCHANGED <<objects, freed, ops>>

(* The blocks the queue gives up when one more comes in (FreeQueue checks the *)
(* bookkeeping of ProcessFreeQueue).                                          *)
Overflow(q) == SubSeq(q, 1, Len(q) - FLAGS_max_free_queue_size)

CheckForDanglingWrites(entry, m) ==
    \E a \in entry.block..(entry.block + entry.size - 1) : m[a] # kMagicDeleted

(* Every region but the ones the base allocator gets back.                    *)
Released(starts) == {r \in regions : r.start \notin starts}

(* What Deallocate gives back of a fenced block.                              *)
Unmap(b, size) == [start |-> b - (NumPages(size) - 1) * pagesize + size,
                   len |-> NumPages(size) * pagesize]

(* munmap and mprotect work on pages; the fence goes with the mapping.        *)
PagesOf(r) == {x \div pagesize : x \in r.start..(r.start + r.len - 1)}

Deallocate(t) ==
    /\ fatal = "none" /\ pc[t].step = "fill"
    /\ LET b == pc[t].block
           size == real_size(mem, b)
           m == Fill(mem, b, size, kMagicDeleted)
           q == Append(free_queue, [block |-> b, size |-> size])
           out == Overflow(q)
       IN IF IsMMapped(mem, b)
          THEN /\ mem' = m
               /\ IF FLAGS_malloc_reclaim_memory
                  THEN /\ regions' = regions \ {Unmap(b, size)}
                       /\ fenced' = fenced \ PagesOf(Unmap(b, size))
                  ELSE /\ regions' = regions
                       /\ fenced' = fenced \cup PagesOf(Unmap(b, size))
               /\ UNCHANGED <<free_queue, fatal>>
          ELSE IF ~FLAGS_malloc_reclaim_memory
          THEN mem' = m /\ UNCHANGED <<regions, fenced, free_queue, fatal>>
          ELSE IF \E i \in DOMAIN out : CheckForDanglingWrites(out[i], m)
          THEN fatal' = "dangling write" /\ UNCHANGED <<mem, regions, fenced, free_queue>>
          ELSE /\ mem' = m
               /\ free_queue' = SubSeq(q, Len(out) + 1, Len(q))
               /\ regions' = Released({out[i].block : i \in DOMAIN out})
               /\ UNCHANGED <<fenced, fatal>>
    /\ pc' = [pc EXCEPT ![t] = Idle]
    /\ UNCHANGED <<alloc_map, objects, freed, ops>>

LeastOf(a, b) == IF a < b THEN a ELSE b

Resizable == {p \in DOMAIN objects : /\ (ReallocAligned \/ ~objects[p].aligned)
                                     /\ (MayMisuse \/ objects[p].type = kMallocType)}

(* realloc of a live object: the old block is checked, its data is copied     *)
(* from the start of the block, and it is freed.  The allocation happens      *)
(* before anything is given up; if it fails nothing changes.                  *)
tc_realloc(t) ==
    /\ Running(t)
    /\ \E ptr \in Resizable, size \in Sizes \ {0} :
         LET old == FromRawPointer(mem, ptr)
             why == CheckLocked(mem, old, kMallocType)
             known == objects[ptr].words
         IN \/ /\ why # "none"
               /\ Die(why)
               /\ UNCHANGED <<objects, freed, pc>>
            \/ /\ why = "none"
               /\ \E p \in Placements(size) :
                    LET n == LeastOf(size1(mem, old), size)
                        new == data_addr(p.block)
                        m == Header(p.block, size, kMallocType, p.magic)
                    IN /\ Allocate(p, kMallocType)
                       /\ mem' = [i \in DOMAIN m |->
                                    IF new <= i /\ i < new + n
                                    THEN mem[data_addr(old) + i - new] ELSE m[i]]
                       /\ objects' = With(Without(objects, ptr), new,
                            [Object(size, kMallocType, kMagicUninitialized, FALSE) EXCEPT
                               !.words = [i \in 0..(size - 1) |->
                                 IF i \in DOMAIN known THEN known[i] ELSE kMagicUninitialized]])
               /\ freed' = freed \cup {ptr}
               /\ pc' = [pc EXCEPT ![t] = [step |-> "check", ptr |-> ptr, type |-> kMallocType,
                            object |-> objects[ptr], block |-> old]]
               /\ UNCHANGED <<free_queue, fatal>>
-----------------------------------------------------------------------------
(* The program: it writes its objects, and sometimes next to them or after    *)
(* it freed them.                                                             *)
Write(t) ==
    /\ Running(t)
    /\ \E ptr \in DOMAIN objects :
         /\ objects[ptr].size > 0
         /\ objects[ptr].words[0] # Written
         /\ mem' = Fill(mem, ptr, objects[ptr].size, Written)
         /\ objects' = [objects EXCEPT ![ptr].words = [i \in DOMAIN @ |-> Written]]
    /\ UNCHANGED <<regions, fenced, alloc_map, free_queue, freed, pc, fatal>>

(* A write into an inaccessible page stops the program at once.               *)
StompOutside(t) ==
    /\ MayMisuse /\ Running(t)
    /\ \E ptr \in DOMAIN objects, side \in {"before", "after"} :
         LET a == IF side = "before" THEN ptr - 1 ELSE ptr + objects[ptr].size
         IN IF a \div pagesize \in fenced
            THEN Die("access violation") /\ UNCHANGED objects
            ELSE /\ mem' = [mem EXCEPT ![a] = Stomp]
                 /\ objects' = IF side = "before" THEN [objects EXCEPT ![ptr].before = TRUE]
                               ELSE [objects EXCEPT ![ptr].after = TRUE]
                 /\ UNCHANGED <<regions, fenced, alloc_map, free_queue, fatal>>
    /\ UNCHANGED <<freed, pc>>

StompFreed(t) ==
    /\ MayMisuse /\ Running(t)
    /\ \E ptr \in {p \in freed : Quarantined(p)} : mem' = [mem EXCEPT ![ptr] = Stomp]
    /\ UNCHANGED <<regions, fenced, alloc_map, free_queue, objects, freed, pc, fatal>>

(* VerifyAllMemory: every block the map holds as allocated.                   *)
CheckEverything(t) ==
    /\ Running(t)
    /\ LET faults == {CheckLocked(mem, a - data_offset, alloc_map[a].type) :
                        a \in {x \in DOMAIN alloc_map : ~alloc_map[x].freed}} \ {"none"}
       IN \/ \E why \in faults : Die(why)
          \/ faults = {} /\ UNCHANGED <<mem, regions, fenced, alloc_map, free_queue, fatal>>
    /\ UNCHANGED <<objects, freed, pc>>

Next == \E t \in Threads :
          \/ AllocateAny(t) \/ FreeBegin(t) \/ CheckAndClear(t) \/ Deallocate(t)
          \/ tc_realloc(t) \/ Write(t) \/ StompOutside(t) \/ StompFreed(t)
          \/ CheckEverything(t)

Spec == Init /\ [][Next]_vars
-----------------------------------------------------------------------------

(* The map and the queue speak of blocks the base allocator has handed out,   *)
(* and objects of the program lie in accessible memory.                       *)
TypeOK ==
    /\ \A a \in DOMAIN mem : mem[a] \in -12..100
    /\ \A i \in DOMAIN free_queue : \E r \in regions :
          r.start = free_queue[i].block /\ r.len = free_queue[i].size
    /\ \A ptr \in DOMAIN objects : \E r \in regions :
          r.start <= ptr - data_offset /\ ptr + objects[ptr].size <= r.start + r.len
    /\ \A t \in Threads : pc[t].step \in {"idle", "check", "fill"}

(* What the program wrote into an object stays there until it is freed, and   *)
(* what it did not write is filled as promised: no header, trailer, second    *)
(* header, fill of a freed block or copy reaches into a live object.          *)
ContentsIntact ==
    \A ptr \in DOMAIN objects : \A i \in DOMAIN objects[ptr].words :
        mem[ptr + i] = objects[ptr].words[i]

(* A program that makes no mistake is never stopped, whatever it allocates,   *)
(* aligns, resizes and frees and whatever addresses come back.                *)
NoFalseAlarm == fatal # "none" => MayMisuse

(* MemoryStats counts the objects the program holds, those it is about to     *)
(* give up included, each once whatever header it was found through.          *)
StatsBlocks == {a \in DOMAIN alloc_map : ~alloc_map[a].freed}
StatsExact ==
    Cardinality(StatsBlocks) = Cardinality(DOMAIN objects)
                               + Cardinality({t \in Threads : pc[t].step = "check"})

(* A block that is freed the wrong way, or whose neighbouring word was        *)
(* overwritten, is not passed on: the program is stopped first.  An aligned   *)
(* object is only known to be guarded by its kind: the words around it belong *)
(* to its own block.                                                          *)
MisuseCaught ==
    \A t \in Threads : pc[t].step = "fill" =>
        /\ pc[t].type = pc[t].object.type
        /\ ~pc[t].object.aligned =>
              ~pc[t].object.before /\ (FLAGS_malloc_page_fence \/ ~pc[t].object.after)

(* A block is given up once: two threads that free the same pointer do not    *)
(* both get to queue it.                                                      *)
QueuedOnce ==
    /\ \A i, j \in DOMAIN free_queue :
          free_queue[i].block = free_queue[j].block => i = j
    /\ \A t \in Threads : pc[t].step = "fill" =>
          /\ \A u \in Threads \ {t} : pc[u].step = "fill" => pc[u].block # pc[t].block
          /\ \A i \in DOMAIN free_queue : free_queue[i].block # pc[t].block

(* A fenced block gives back exactly the mapping it came in.                  *)
FenceGivenBack ==
    (FLAGS_malloc_page_fence /\ FLAGS_malloc_reclaim_memory) =>
        /\ \A p \in fenced : \E r \in regions : (r.start + r.len) \div pagesize - 1 = p
        /\ \A r \in regions :
              \/ \E ptr \in DOMAIN objects : ptr \in r.start..(r.start + r.len)
              \/ \E t \in Threads : pc[t] # Idle /\ pc[t].block \in r.start..(r.start + r.len)

(* No object lies in an inaccessible page, and an object that is not aligned  *)
(* ends where one begins.                                                     *)
FenceBehind ==
    FLAGS_malloc_page_fence => \A ptr \in DOMAIN objects :
        /\ \A i \in DOMAIN objects[ptr].words : (ptr + i) \div pagesize \notin fenced
        /\ ~objects[ptr].aligned => (ptr + objects[ptr].size) \div pagesize \in fenced

=============================================================================
