--------------------------- MODULE HeapProfileTable ---------------------------
(* HeapProfileTable of heap-profile-table.{h,cc}: the objects recorded, their *)
(* buckets (one per allocation stack), the buckets of the mapped regions,     *)
(* the snapshots of the leak checker, and the profile written to a buffer.    *)
(* A call stack is a sequence of frames; two stacks share a bucket when they  *)
(* are equal, whatever their hash.                                            *)
EXTENDS Integers, SequencesExt, FiniteSets

CONSTANTS Ptrs, Stacks,
          Sizes,            \* the sizes of an object at each address
          AllRegions,       \* what MemoryRegionMap may hold: start, size, stack
          BufSizes,         \* sizes of the buffers for a profile
          ProfileHeader, MapsHeader, BucketWidth, FrameWidth,  \* widths printed
          MapLines,         \* widths of the lines of /proc/self/maps
          heap_check_max_leaks,
          Clients,          \* which clients run: "marks", "mmap", "files"
          NULL,
          MaxAllocs         \* bound: allocations recorded

VARIABLES alloc_table_, alloc_address_map_, total_,
          mmap_table_, mmap_address_map_, num_available_mmap_buckets_,
          base, leaks,      \* the snapshots a checker holds
          regions,          \* the regions of MemoryRegionMap
          file, report,     \* the last profile filled, the last leak report
          destroyed,        \* the maps the destructor has run for
          marked,           \* objects marked live since the last NonLiveSnapshot
          renewed           \* addresses allocated after base was taken

table == <<alloc_table_, alloc_address_map_, total_>>
mmaps == <<mmap_table_, mmap_address_map_, num_available_mmap_buckets_>>
outputs == <<file, report>>
vars == <<table, mmaps, base, leaks, regions, outputs, destroyed, marked, renewed>>

NoStats == [allocs |-> 0, frees |-> 0, alloc_size |-> 0, free_size |-> 0]

NoFile == [size |-> 0, length |-> 0, lines |-> <<>>, maps |-> 0]
NoReport == [entries |-> <<>>, skipped |-> 0, written |-> {}]

num_alloc_buckets_ == Cardinality(DOMAIN alloc_table_)

Put(map, k, v) == [x \in DOMAIN map \cup {k} |-> IF x = k THEN v ELSE map[x]]
Without(map, k) == [x \in DOMAIN map \ {k} |-> map[x]]
Empty == [x \in {} |-> NoStats]

Init == /\ alloc_table_ = Empty /\ alloc_address_map_ = Empty /\ total_ = NoStats
        /\ mmap_table_ = NULL /\ mmap_address_map_ = NULL
        /\ num_available_mmap_buckets_ = 0
        /\ base = NULL /\ leaks = NULL /\ regions = {}
        /\ file = NoFile /\ report = NoReport /\ destroyed = <<>>
        /\ marked = {} /\ renewed = {}

(* The statistics of the bucket of a stack, a new bucket when there is none. *)
GetBucket(key, buckets) == IF key \in DOMAIN buckets THEN buckets[key] ELSE NoStats

CountAlloc(s, bytes) == [s EXCEPT !.allocs = @ + 1, !.alloc_size = @ + bytes]
CountFree(s, bytes) == [s EXCEPT !.frees = @ + 1, !.free_size = @ + bytes]

Value(stack, bytes) ==
    [bucket |-> stack, bytes |-> bytes, live |-> FALSE, ignore |-> FALSE]

ClearOutputs == file' = NoFile /\ report' = NoReport

RecordAlloc(ptr, bytes, stack) ==
    /\ ptr \notin DOMAIN alloc_address_map_
    /\ total_.allocs < MaxAllocs
    /\ alloc_table_' = Put(alloc_table_, stack,
                           CountAlloc(GetBucket(stack, alloc_table_), bytes))
    /\ total_' = CountAlloc(total_, bytes)
    /\ alloc_address_map_' = Put(alloc_address_map_, ptr, Value(stack, bytes))
    /\ renewed' = IF base = NULL THEN {} ELSE renewed \cup {ptr}
    /\ ClearOutputs
    /\ UNCHANGED <<mmaps, base, leaks, regions, destroyed, marked>>

(* An address that is not recorded changes nothing.                          *)
RecordFree(ptr) ==
    /\ ptr \in DOMAIN alloc_address_map_
    /\ LET v == alloc_address_map_[ptr]
       IN  /\ alloc_table_' = [alloc_table_ EXCEPT ![v.bucket] = CountFree(@, v.bytes)]
           /\ total_' = CountFree(total_, v.bytes)
    /\ alloc_address_map_' = Without(alloc_address_map_, ptr)
    /\ marked' = marked \ {ptr}
    /\ renewed' = renewed \ {ptr}
    /\ ClearOutputs
    /\ UNCHANGED <<mmaps, base, leaks, regions, destroyed>>

MarkAsLive(ptr) ==
    /\ ptr \in DOMAIN alloc_address_map_ /\ ~alloc_address_map_[ptr].live
    /\ alloc_address_map_' = [alloc_address_map_ EXCEPT ![ptr].live = TRUE]
    /\ marked' = marked \cup {ptr}
    /\ ClearOutputs
    /\ UNCHANGED <<alloc_table_, total_, mmaps, base, leaks, regions, destroyed, renewed>>

MarkAsIgnored(ptr) ==
    /\ ptr \in DOMAIN alloc_address_map_
    /\ alloc_address_map_' = [alloc_address_map_ EXCEPT ![ptr].ignore = TRUE]
    /\ ClearOutputs
    /\ UNCHANGED <<alloc_table_, total_, mmaps, base, leaks, regions, destroyed,
                   marked, renewed>>

(* A snapshot: the objects, their number and their bytes.                    *)
Snapshot(map) ==
    [map |-> map, total |-> [NoStats EXCEPT !.allocs = Cardinality(DOMAIN map),
                                 !.alloc_size = MapThenSumSet(LAMBDA p : map[p].bytes, DOMAIN map)]]

TakeSnapshot ==
    /\ base = NULL
    /\ base' = Snapshot(alloc_address_map_)
    /\ renewed' = {}
    /\ ClearOutputs
    /\ UNCHANGED <<table, mmaps, leaks, regions, destroyed, marked>>

ReleaseSnapshot ==
    /\ \/ base # NULL /\ base' = NULL /\ renewed' = {} /\ UNCHANGED leaks
       \/ leaks # NULL /\ leaks' = NULL /\ UNCHANGED <<base, renewed>>
    /\ ClearOutputs
    /\ UNCHANGED <<table, mmaps, regions, destroyed, marked>>

(* Is the object to be added to the snapshot of objects that are not live?   *)
AddIfNonLive(ptr) ==
    /\ ~alloc_address_map_[ptr].live
    /\ base = NULL \/ ptr \notin DOMAIN base.map

(* Mutant: the live bit of an object that is live stays set.                 *)
LiveBitsKept == alloc_address_map_' = alloc_address_map_

LiveBitsCleared ==
    alloc_address_map_' = [p \in DOMAIN alloc_address_map_ |->
                              [alloc_address_map_[p] EXCEPT !.live = FALSE]]

NonLiveSnapshot ==
    /\ leaks = NULL
    /\ LET dest == {p \in DOMAIN alloc_address_map_ : AddIfNonLive(p)}
       IN  leaks' = Snapshot([p \in dest |-> alloc_address_map_[p]])
    /\ LiveBitsCleared
    /\ marked' = {}
    /\ ClearOutputs
    /\ UNCHANGED <<alloc_table_, total_, mmaps, base, regions, destroyed, renewed>>

(* The leaks of a bucket in the report.                                      *)
ReportCallback(stack) ==
    LET ptrs == {p \in DOMAIN leaks.map : leaks.map[p].bucket = stack}
    IN  [bucket |-> stack, count |-> Cardinality(ptrs),
         bytes |-> MapThenSumSet(LAMBDA p : leaks.map[p].bytes, ptrs)]

MoreBytes(e, f) == e.bytes >= f.bytes

(* The objects with a line in the file of the leaks: DumpNonLiveIterator      *)
(* leaves out the ignored ones, which the total of the file counts.          *)
WriteProfile == {p \in DOMAIN leaks.map : ~leaks.map[p].live /\ ~leaks.map[p].ignore}

(* The leaks, grouped by bucket, the largest first and at most               *)
(* heap_check_max_leaks of them when that is positive.                       *)
ReportLeaks ==
    /\ leaks # NULL /\ DOMAIN leaks.map # {}
    /\ LET entries == {ReportCallback(s) : s \in {leaks.map[p].bucket : p \in DOMAIN leaks.map}}
           n == Cardinality(entries)
           to_report == IF heap_check_max_leaks > 0 /\ n > heap_check_max_leaks
                        THEN heap_check_max_leaks ELSE n
       IN  \E order \in SetToSeqs(entries) :
             /\ \A i \in 1..(n - 1) : MoreBytes(order[i], order[i + 1])
             /\ report' = [entries |-> SubSeq(order, 1, to_report), skipped |-> n - to_report,
                           written |-> WriteProfile]
    /\ file' = NoFile
    /\ UNCHANGED <<table, mmaps, base, leaks, regions, destroyed, marked, renewed>>

-------------------------------------------------------------------------------
(* MemoryRegionMap, outside this class.                                      *)
MapRegion(r) ==
    /\ r \notin regions
    /\ regions' = regions \cup {r}
    /\ ClearOutputs
    /\ UNCHANGED <<table, mmaps, base, leaks, destroyed, marked, renewed>>

UnmapRegion(r) ==
    /\ r \in regions
    /\ regions' = regions \ {r}
    /\ ClearOutputs
    /\ UNCHANGED <<table, mmaps, base, leaks, destroyed, marked, renewed>>

(* The buckets with the counts of the mapped regions set to zero.            *)
ZeroBucketCounts ==
    IF mmap_table_ = NULL \/ mmap_address_map_ = NULL THEN mmap_table_
    ELSE LET mapped == {mmap_address_map_[a].bucket : a \in DOMAIN mmap_address_map_}
         IN  [s \in DOMAIN mmap_table_ |-> IF s \in mapped THEN NoStats ELSE mmap_table_[s]]

(* Every region counts in the bucket of its stack.  A bucket is available    *)
(* when a region was counted in it.                                          *)
RefreshMMapData ==
    LET old == IF ZeroBucketCounts = NULL THEN Empty ELSE ZeroBucketCounts
        used == {r.stack : r \in regions}
        of(s) == {r \in regions : r.stack = s}
        counted(s) == [GetBucket(s, old) EXCEPT
                         !.allocs = @ + Cardinality(of(s)),
                         !.alloc_size = @ + MapThenSumSet(LAMBDA r : r.size, of(s))]
    IN  /\ mmap_table_' = [s \in DOMAIN old \cup used |->
                              IF s \in used THEN counted(s) ELSE old[s]]
        /\ num_available_mmap_buckets_' =
              Cardinality({s \in used : GetBucket(s, old).alloc_size = 0})
        /\ mmap_address_map_' =
              [a \in {r.start : r \in regions} |->
                 LET r == CHOOSE q \in regions : q.start = a IN Value(r.stack, r.size)]
        /\ ClearOutputs
        /\ UNCHANGED <<table, base, leaks, regions, destroyed, marked, renewed>>

ClearMMapData ==
    /\ mmap_address_map_ # NULL
    /\ mmap_table_' = ZeroBucketCounts
    /\ mmap_address_map_' = NULL
    /\ ClearOutputs
    /\ UNCHANGED <<table, num_available_mmap_buckets_, base, leaks, regions,
                   destroyed, marked, renewed>>

-------------------------------------------------------------------------------
Buckets ==
    {[kind |-> "malloc", stack |-> s] : s \in DOMAIN alloc_table_}
      \cup (IF mmap_table_ = NULL THEN {}
            ELSE {[kind |-> "mmap", stack |-> s] : s \in DOMAIN mmap_table_})

StatsOf(b) == IF b.kind = "malloc" THEN alloc_table_[b.stack] ELSE mmap_table_[b.stack]

InUse(b) == StatsOf(b).alloc_size - StatsOf(b).free_size

(* No bucket comes after one with less space in use.                         *)
ByAllocatedSpace(a, b) == InUse(a) >= InUse(b)

(* The malloc buckets and then the mmap buckets, in the order of the tables, *)
(* of which the number that is expected is sorted: any order of equals.      *)
MakeSortedBucketList ==
    LET expected == num_alloc_buckets_ + num_available_mmap_buckets_
    IN  {list \in SetToSeqs(Buckets) :
           /\ \A i \in DOMAIN list : i > expected => list[i].kind = "mmap"
           /\ \A i \in 1..(expected - 1) : ByAllocatedSpace(list[i], list[i + 1])}

(* snprintf also writes a NUL: one byte more than it returns.                *)
Fits(length, width, size) == length + width < size

(* A line of the buffer, a piece at a time: the counts, the frames and the   *)
(* end of the line.  A piece that does not fit ends it; the ones before stay.*)
UnparseBucket(acc, name, depth, size) ==
    LET widths == <<BucketWidth>> \o [d \in 1..depth |-> FrameWidth] \o <<1>>
        upto[k \in 0..Len(widths)] == IF k = 0 THEN acc.length ELSE upto[k - 1] + widths[k]
        fits == {k \in DOMAIN widths :
                   \A j \in 1..k : Fits(upto[j - 1], widths[j], size)}
        printed == Cardinality(fits)
    IN  [length |-> upto[printed],
         lines |-> IF printed = 0 THEN acc.lines
                   ELSE Append(acc.lines, [name |-> name, whole |-> printed = Len(widths)])]

(* FillProcSelfMaps: the width of the lines that fit, each tried in turn.    *)
FillProcSelfMaps(size) ==
    FoldLeft(LAMBDA acc, w : IF Fits(acc, w, size) THEN acc + w ELSE acc, 0, MapLines)

(* The buffer of the buckets, when the maps are at the end of it.            *)
Room(size, map_length) == size - map_length

(* The maps are printed first and moved to the end, the buckets go into the  *)
(* rest, and the maps are moved to close the gap.                            *)
FillOrderedProfile(size) ==
    /\ \E list \in MakeSortedBucketList :
         LET map_length == MapsHeader + FillProcSelfMaps(size - MapsHeader)
             room == Room(size, map_length)
             top == UnparseBucket([length |-> ProfileHeader, lines |-> <<>>],
                                  [kind |-> "total", stack |-> <<>>], 0, room)
             filled == FoldLeft(LAMBDA acc, b : UnparseBucket(acc, b, Len(b.stack), room),
                                top, SubSeq(list, 1, num_alloc_buckets_))
         IN  file' = IF MapsHeader >= size \/ ProfileHeader >= room
                     THEN [NoFile EXCEPT !.size = size]
                     ELSE [size |-> size, length |-> filled.length + map_length,
                           lines |-> filled.lines, maps |-> map_length]
    /\ report' = NoReport
    /\ UNCHANGED <<table, mmaps, base, leaks, regions, destroyed, marked, renewed>>

(* The contexts handed to the callback, as lines that are all whole.         *)
IterateOrderedAllocContexts ==
    /\ \E list \in MakeSortedBucketList :
         file' = [NoFile EXCEPT !.lines =
                    [i \in 1..num_alloc_buckets_ |-> [name |-> list[i], whole |-> TRUE]]]
    /\ report' = NoReport
    /\ UNCHANGED <<table, mmaps, base, leaks, regions, destroyed, marked, renewed>>

-------------------------------------------------------------------------------
(* DeallocateAllocationMap runs the destructor of the malloc map, whichever  *)
(* map it is given, and that one is NULL once the first call is over.        *)
DeallocateAllocationMap(map, alloc_map) == IF map = NULL THEN <<>> ELSE <<alloc_map>>

Destroy ==
    /\ "mmap" \in Clients /\ destroyed = <<>> /\ base = NULL /\ leaks = NULL
    /\ destroyed' = DeallocateAllocationMap("alloc", "alloc")
                      \o DeallocateAllocationMap(
                           IF mmap_address_map_ = NULL THEN NULL ELSE "mmap", NULL)
    /\ ClearOutputs
    /\ UNCHANGED <<table, mmaps, base, leaks, regions, marked, renewed>>

Marks == \/ \E p \in Ptrs : MarkAsLive(p) \/ MarkAsIgnored(p)
         \/ TakeSnapshot \/ ReleaseSnapshot \/ NonLiveSnapshot \/ ReportLeaks

Mmaps == \/ \E r \in AllRegions : MapRegion(r) \/ UnmapRegion(r)
         \/ RefreshMMapData \/ ClearMMapData

Files == \/ \E size \in BufSizes : FillOrderedProfile(size)
         \/ IterateOrderedAllocContexts

Next == \/ /\ destroyed = <<>>
           /\ \/ \E p \in Ptrs : \E n \in Sizes[p], s \in Stacks : RecordAlloc(p, n, s)
              \/ \E p \in Ptrs : RecordFree(p)
              \/ "marks" \in Clients /\ Marks
              \/ "mmap" \in Clients /\ Mmaps
              \/ "files" \in Clients /\ Files
        \/ Destroy

Spec == Init /\ [][Next]_vars

-------------------------------------------------------------------------------
(* An object is in a bucket of the table, and a mapped region in a bucket of *)
(* the other table.                                                          *)
TypeOK ==
    /\ \A p \in DOMAIN alloc_address_map_ : alloc_address_map_[p].bucket \in DOMAIN alloc_table_
    /\ mmap_address_map_ # NULL =>
         /\ mmap_table_ # NULL
         /\ \A a \in DOMAIN mmap_address_map_ : mmap_address_map_[a].bucket \in DOMAIN mmap_table_

(* heap-profile-table.h:61 Stats: what a bucket has allocated and not freed  *)
(* is what the objects recorded with its stack take, and the total is the    *)
(* sum over the buckets.                                                     *)
StatsBalance ==
    /\ \A s \in DOMAIN alloc_table_ :
         LET ptrs == {p \in DOMAIN alloc_address_map_ : alloc_address_map_[p].bucket = s}
         IN  /\ alloc_table_[s].allocs - alloc_table_[s].frees = Cardinality(ptrs)
             /\ alloc_table_[s].alloc_size - alloc_table_[s].free_size =
                  MapThenSumSet(LAMBDA p : alloc_address_map_[p].bytes, ptrs)
    /\ \A f \in DOMAIN NoStats :
         total_[f] = MapThenSumSet(LAMBDA s : alloc_table_[s][f], DOMAIN alloc_table_)

(* RefreshMMapData counts every region once, those of an earlier refresh not *)
(* again, and no bucket of a region that has gone.                           *)
MmapBucketsFresh ==
    mmap_address_map_' # mmap_address_map_ =>
         \A s \in DOMAIN mmap_table_' :
            LET now == IF mmap_address_map_' = NULL THEN {}
                       ELSE {r \in regions : r.stack = s}
            IN  /\ mmap_table_'[s].allocs = Cardinality(now)
                /\ mmap_table_'[s].alloc_size = MapThenSumSet(LAMBDA r : r.size, now)

(* FillOrderedProfile stays in the buffer (heap-profile-table.h:261), and    *)
(* keeps the lines of the maps that fit in an empty buffer.                  *)
FileFits ==
    /\ file.length <= file.size
    /\ file.length > 0 => file.maps = MapsHeader + FillProcSelfMaps(file.size - MapsHeader)

(* heap-profile-table.h:165: the buckets are dumped in the decreasing order  *)
(* of the bytes in use, and only the last one is cut short.                  *)
FileOrdered ==
    \A i \in DOMAIN file.lines : \A j \in (i + 1)..Len(file.lines) :
       /\ file.lines[i].whole
       /\ file.lines[i].name.kind # "total" =>
            InUse(file.lines[i].name) >= InUse(file.lines[j].name)

(* heap-profile-table.h:184: the snapshot has every object not marked live   *)
(* since the one before and not in base; no mark is left for the next check. *)
LeaksExact ==
    leaks' # leaks /\ leaks' # NULL =>
         /\ DOMAIN leaks'.map = (DOMAIN alloc_address_map_ \ marked)
                                   \ (IF base = NULL THEN {} ELSE DOMAIN base.map)
         /\ \A p \in DOMAIN leaks'.map : leaks'.map[p].bytes = alloc_address_map_[p].bytes

(* heap-profile-table.cc:640: the buckets reported are those that leak most, *)
(* and what they leak is what the snapshot counts unless some are skipped;   *)
(* the file has a line for every object but the ignored ones.                *)
ReportLargest ==
    LET n == Len(report.entries)
        shown == {report.entries[i].bucket : i \in 1..n}
    IN  n > 0 =>
          /\ \A p \in DOMAIN leaks.map :
               leaks.map[p].bucket \notin shown =>
                 \A i \in 1..n : report.entries[i].bytes >= ReportCallback(leaks.map[p].bucket).bytes
          /\ DOMAIN leaks.map \ report.written = {p \in DOMAIN leaks.map : leaks.map[p].ignore}
          /\ report.skipped = 0 =>
               /\ MapThenSumSet(LAMBDA i : report.entries[i].bytes, 1..n) = leaks.total.alloc_size
               /\ MapThenSumSet(LAMBDA i : report.entries[i].count, 1..n) = leaks.total.allocs

=============================================================================
