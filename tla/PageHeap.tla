------------------------------ MODULE PageHeap ------------------------------
(* The page level of the allocator (page_heap.cc, span.cc): spans of pages, *)
(* their two free lists per length, the map from pages to spans, coalescing *)
(* and the return of memory to the system.  Every operation runs under      *)
(* pageheap_lock, so it is one step; the state is the record heap, and each *)
(* member function is an operator from heaps to heaps.                      *)
EXTENDS Integers, Sequences, FiniteSets, SequencesExt

CONSTANTS
  NPages,          \* pages 1..NPages can be obtained from the system
  kMaxPages,       \* lengths from here on share the large_ lists
  kMaxValidPages,  \* a longer request is refused at once
  MaxSlack,        \* what the system may give beyond the request
  kDefaultReleaseDelay, kMaxReleaseDelay,
  ReleaseMult,     \* 1000 / tcmalloc_release_rate
  ReleaseAsks      \* the numbers of pages callers ask to have released

PageHeapConstants ==
  /\ NPages \in Nat \ {0}
  /\ kMaxPages \in Nat \ {0, 1}
  /\ kMaxValidPages \in Nat
  /\ MaxSlack \in Nat
  /\ kDefaultReleaseDelay \in Nat
  /\ kMaxReleaseDelay \in Nat
  /\ ReleaseMult \in Nat
  /\ ReleaseAsks \subseteq Nat

VARIABLES
  heap,      \* the PageHeap object with the span allocator
  rate       \* tcmalloc_release_rate > 1e-6

vars == <<heap, rate>>

Pages == 1 .. NPages
NULL == 0
Stale == NPages + 2
Lists == {"normal", "returned"}
SizeClasses == 0 .. 1

-----------------------------------------------------------------------------
(* Span: the descriptor, named by the first page of its span while it is in *)
(* use.  NoSpan: no descriptor of that name.                                *)
NoSpan == [length |-> 0, location |-> "deleted", sizeclass |-> 0]
Span == [length : Pages, location : {"in_use"} \cup Lists, sizeclass : SizeClasses]

(* NewSpan(p, len).                                                         *)
NewSpan(h, p, len) ==
  [h EXCEPT !.span[p] = [length |-> len, location |-> "in_use", sizeclass |-> 0]]

(* DeleteSpan: the entries of the page map that name the descriptor stay,   *)
(* and what they name may become the descriptor of any other span.          *)
DeleteSpan(h, s) ==
  [h EXCEPT !.span[s] = NoSpan,
            !.pagemap = [p \in DOMAIN @ |-> IF @[p] = s THEN Stale ELSE @[p]]]

(* The descriptor's first page becomes p: the same object, a new name.      *)
MoveStart(h, s, p, len) ==
  [h EXCEPT !.span[p] = [h.span[s] EXCEPT !.length = len], !.span[s] = NoSpan,
            !.pagemap = [q \in DOMAIN @ |-> IF @[q] = s THEN p ELSE @[q]]]

(* pagemap_.set for the pages in ps.                                        *)
SetPages(h, ps, s) ==
  [h EXCEPT !.pagemap = [p \in DOMAIN @ |-> IF p \in ps THEN s ELSE @[p]]]

(* RecordSpan: only the first and the last page are entered.                *)
RecordSpan(h, s) == SetPages(h, {s, s + h.span[s].length - 1}, s)

GetDescriptor(h, p) == h.pagemap[p]

(* Which list a length belongs on: exact, or large_ as index kMaxPages.     *)
ListIndex(len) == IF len < kMaxPages THEN len ELSE kMaxPages

(* PrependToFreeList: DLL_Prepend and the byte counts, in pages.            *)
PrependToFreeList(h, s) ==
  LET sp == h.span[s] IN
  [h EXCEPT !.free[ListIndex(sp.length)][sp.location] = <<s>> \o @,
            !.bytes[sp.location] = @ + sp.length]

(* RemoveFromFreeList: DLL_Remove, wherever in the list the span is.        *)
RemoveFromFreeList(h, s) ==
  LET sp == h.span[s] IN
  [h EXCEPT !.free[ListIndex(sp.length)][sp.location] =
              SelectSeq(@, LAMBDA t : t # s),
            !.bytes[sp.location] = @ - sp.length]

-----------------------------------------------------------------------------
(* MergeIntoFreeList.  The neighbour on each side of the span, if it is on  *)
(* the same kind of list, is taken off it, deleted and absorbed; the entry  *)
(* of the new boundary page is set, those inside are left as they are.  The *)
(* two sides do not touch each other's entries.                             *)
SameList(h, n, s) == n # NULL /\ h.span[n].location = h.span[s].location

Absorb(h, n) == DeleteSpan(RemoveFromFreeList(h, n), n)

(* Mutant: the entry of the last page still names the absorbed span.        *)
MergeNextStale(h, s, next) ==
  [Absorb(h, next) EXCEPT !.span[s].length = @ + h.span[next].length]

MergeNext(h, s, next) ==
  SetPages([Absorb(h, next) EXCEPT !.span[s].length = @ + h.span[next].length],
           {next + h.span[next].length - 1}, s)

MergePrev(h, s, prev) ==
  SetPages(MoveStart(Absorb(h, prev), s, prev, h.span[prev].length + h.span[s].length),
           {prev}, prev)

MergeIntoFreeList(h, s) ==
  LET next == GetDescriptor(h, s + h.span[s].length)
      prev == GetDescriptor(h, s - 1)
      h1 == IF SameList(h, next, s) THEN MergeNext(h, s, next) ELSE h
      h2 == IF SameList(h, prev, s) THEN MergePrev(h1, s, prev) ELSE h1
  IN PrependToFreeList(h2, IF SameList(h, prev, s) THEN prev ELSE s)

(* ReleaseLastNormalSpan: TCMalloc_SystemRelease is a hint to the system.   *)
ReleaseLastNormalSpan(h, l) ==
  LET s == Last(h.free[l]["normal"]) IN
  MergeIntoFreeList([RemoveFromFreeList(h, s) EXCEPT !.span[s].location = "returned"], s)

-----------------------------------------------------------------------------
(* ReleaseAtLeastNPages: rounds over the lists from release_index_ on, the  *)
(* last span of each, until enough is released or a round releases nothing. *)
(* State of the loops: the heap and released_pages.                         *)
ReleaseVisit(st, want) ==
  IF st.released >= want THEN st
  ELSE LET i == IF st.h.release_index > kMaxPages THEN 0 ELSE st.h.release_index
           some == i > 0 /\ st.h.free[i]["normal"] # <<>>
           n == IF some THEN st.h.span[Last(st.h.free[i]["normal"])].length ELSE 0
           h1 == IF some THEN ReleaseLastNormalSpan(st.h, i) ELSE st.h
       IN [h |-> [h1 EXCEPT !.release_index = i + 1], released |-> st.released + n]

ReleaseRound(st, want) ==
  FoldLeft(LAMBDA acc, i : ReleaseVisit(acc, want), st, [i \in 1 .. kMaxPages + 1 |-> i])

(* At most want rounds make progress; in the others every list is empty.    *)
ReleaseAtLeastNPages(h, want) ==
  LET Round(acc) == IF acc.done THEN acc
        ELSE LET nxt == ReleaseRound([h |-> acc.h, released |-> acc.released], want)
             IN [h |-> nxt.h, released |-> nxt.released,
                 done |-> nxt.released >= want \/ nxt.released = acc.released]
  IN FoldLeft(LAMBDA acc, i : Round(acc),
              [h |-> h, released |-> 0, done |-> want = 0],
              [i \in 1 .. want + 1 |-> i])

(* IncrementalScavenge: at most once per so many pages freed.               *)
IncrementalScavenge(h, n, on) ==
  LET left == h.scavenge_counter - n IN
  IF left >= 0 THEN [h EXCEPT !.scavenge_counter = left]
  ELSE IF ~on THEN [h EXCEPT !.scavenge_counter = kDefaultReleaseDelay]
  ELSE LET r == ReleaseAtLeastNPages(h, 1)
           wait == ReleaseMult * r.released
       IN [r.h EXCEPT !.scavenge_counter =
             IF r.released = 0 THEN kDefaultReleaseDelay
             ELSE IF wait > kMaxReleaseDelay THEN kMaxReleaseDelay ELSE wait]

(* Delete: back to the free lists, then a step of the scavenger.            *)
Delete(h, s, on) ==
  LET n == h.span[s].length IN
  IncrementalScavenge(
    MergeIntoFreeList([h EXCEPT !.span[s].sizeclass = 0,
                                !.span[s].location = "normal"], s), n, on)

-----------------------------------------------------------------------------
(* Carve: take n pages off the front of a free span; the rest goes back on  *)
(* the kind of list the span was on, without looking for a neighbour.       *)
Carve(h, s, n) ==
  LET sp == h.span[s]
      extra == sp.length - n
      h1 == [RemoveFromFreeList(h, s) EXCEPT !.span[s].location = "in_use"]
      h2 == [NewSpan(h1, s + n, extra) EXCEPT !.span[s + n].location = sp.location]
      h3 == PrependToFreeList(RecordSpan(h2, s + n), s + n)
  IN IF extra = 0 THEN h1
     ELSE SetPages([h3 EXCEPT !.span[s].length = n], {s + n - 1}, s)

(* AllocLarge: address-ordered best fit over both lists, or NULL.           *)
BetterFit(h, a, b) ==
  \/ h.span[a].length < h.span[b].length
  \/ h.span[a].length = h.span[b].length /\ a < b

AllocLarge(h, n) ==
  LET fits == {s \in ToSet(h.free[kMaxPages]["normal"])
                     \cup ToSet(h.free[kMaxPages]["returned"]) :
                 h.span[s].length >= n}
  IN IF fits = {} THEN NULL
     ELSE CHOOSE b \in fits : \A s \in fits : b = s \/ BetterFit(h, b, s)

(* SearchFreeAndLargeLists: the shortest list that has a span, normal       *)
(* before returned, and then the large lists; NULL when nothing fits.       *)
SearchFreeAndLargeLists(h, n) ==
  LET sizes == {s \in n .. kMaxPages - 1 : \E l \in Lists : h.free[s][l] # <<>>} IN
  IF sizes = {} THEN AllocLarge(h, n)
  ELSE LET s == CHOOSE x \in sizes : \A y \in sizes : x <= y
       IN Head(h.free[s][IF h.free[s]["normal"] # <<>> THEN "normal" ELSE "returned"])

(* Split an in-use span in two; both stay in use.                           *)
SplitSpan(h, s, n) ==
  LET h1 == RecordSpan(NewSpan(h, s + n, h.span[s].length - n), s + n)
  IN [SetPages(h1, {s + n - 1}, s) EXCEPT !.span[s].length = n]

(* RegisterSizeClass: now the pages inside are entered too.                 *)
RegisterSizeClass(h, s, sc) ==
  SetPages([h EXCEPT !.span[s].sizeclass = sc],
           (s + 1) .. (s + h.span[s].length - 2), s)

(* GrowHeap with the pages the system gave at p: RecordGrowth and           *)
(* system_bytes come first; if the page map cannot cover them the pages     *)
(* are lost.                                                                *)
GrowHeap(h, p, len, ensured, on) ==
  LET h1 == [h EXCEPT !.growth = <<len>> \o @, !.system = @ + len,
                      !.obtained = @ \cup (p .. p + len - 1)]
  IN IF ensured THEN Delete(RecordSpan(NewSpan(h1, p, len), p), p, on)
     ELSE [h1 EXCEPT !.lost = @ \cup (p .. p + len - 1)]

-----------------------------------------------------------------------------
(* The statistics that other components read.                               *)
GetSmallSpanStats(h) ==
  [l \in Lists |-> [s \in 1 .. kMaxPages - 1 |-> Len(h.free[s][l])]]

GetLargeSpanStats(h) ==
  [spans |-> Len(h.free[kMaxPages]["normal"]) + Len(h.free[kMaxPages]["returned"]),
   pages |-> [l \in Lists |->
     FoldLeft(LAMBDA acc, s : acc + h.span[s].length, 0, h.free[kMaxPages][l])]]

(* GetNextRange: the span the page map names for the first page from start  *)
(* on that it names any for.                                                *)
GetNextRange(h, start) ==
  LET ps == {p \in DOMAIN h.pagemap : p >= start /\ h.pagemap[p] # NULL} IN
  IF ps = {} THEN NULL ELSE h.pagemap[CHOOSE p \in ps : \A q \in ps : p <= q]

-----------------------------------------------------------------------------
(* PageHeap::PageHeap.                                                      *)
Init ==
  /\ heap = [span |-> [s \in Pages |-> NoSpan],
             pagemap |-> [p \in 0 .. NPages + 1 |-> NULL],
             free |-> [l \in 1 .. kMaxPages |-> [k \in Lists |-> <<>>]],
             bytes |-> [k \in Lists |-> 0], system |-> 0, growth |-> <<>>,
             scavenge_counter |-> 0, release_index |-> kMaxPages,
             obtained |-> {}, lost |-> {}]
  /\ rate \in BOOLEAN

InUse == {s \in Pages : heap.span[s].location = "in_use"}

(* New(n) when the lists have a span.                                       *)
NewFromLists(n) ==
  /\ SearchFreeAndLargeLists(heap, n) # NULL
  /\ heap' = Carve(heap, SearchFreeAndLargeLists(heap, n), n)
  /\ UNCHANGED rate

(* New(n) when the heap has to grow: at least kMaxPages are asked for, then *)
(* n; the memory may lie anywhere and be more than asked for; the search is *)
(* repeated.  Without memory, or without room in the page map, New is NULL. *)
NewAfterGrow(n) ==
  /\ SearchFreeAndLargeLists(heap, n) = NULL
  /\ n <= kMaxValidPages
  /\ \E ask \in {IF n > kMaxPages THEN n ELSE kMaxPages, n}, slack \in 0 .. MaxSlack,
        p \in Pages, ensured \in BOOLEAN :
       LET len == ask + slack
           h1 == GrowHeap(heap, p, len, ensured, rate)
           s == SearchFreeAndLargeLists(h1, n)
       IN /\ p + len - 1 <= NPages
          /\ heap.obtained \cap (p .. p + len - 1) = {}
          /\ heap' = IF ensured /\ s # NULL THEN Carve(h1, s, n) ELSE h1
  /\ UNCHANGED rate

DeleteInUse(s) == s \in InUse /\ heap' = Delete(heap, s, rate) /\ UNCHANGED rate

Split(s, n) ==
  /\ s \in InUse /\ heap.span[s].sizeclass = 0 /\ n < heap.span[s].length
  /\ heap' = SplitSpan(heap, s, n)
  /\ UNCHANGED rate

Register(s, sc) ==
  /\ s \in InUse /\ heap.span[s].sizeclass = 0
  /\ heap' = RegisterSizeClass(heap, s, sc)
  /\ UNCHANGED rate

(* MallocExtension's ReleaseToSystem.                                       *)
Release(n) == heap' = ReleaseAtLeastNPages(heap, n).h /\ UNCHANGED rate

Next ==
  \/ \E n \in Pages : NewFromLists(n) \/ NewAfterGrow(n)
  \/ \E n \in ReleaseAsks : Release(n)
  \/ \E s \in Pages :
       \/ DeleteInUse(s)
       \/ \E n \in Pages : Split(s, n)
       \/ Register(s, 1)

Spec == Init /\ [][Next]_vars

-----------------------------------------------------------------------------
Live == {s \in Pages : heap.span[s] # NoSpan}

(* The page after the span.                                                 *)
End(s) == s + heap.span[s].length

(* The shape of the heap object.                                            *)
TypeOK ==
  /\ \A s \in Pages : heap.span[s] \in Span \cup {NoSpan}
  /\ \A p \in 0 .. NPages + 1 : heap.pagemap[p] \in Pages \cup {NULL, Stale}
  /\ heap.scavenge_counter \in 0 .. (kMaxReleaseDelay + kDefaultReleaseDelay)
  /\ heap.release_index \in 0 .. kMaxPages + 1
  /\ \A l \in 1 .. kMaxPages, k \in Lists : heap.free[l][k] \in Seq(Pages)
  /\ rate \in BOOLEAN

(* The spans tile the pages obtained from the system: no page belongs to    *)
(* two spans and none is forgotten, except the ones the page map could not  *)
(* cover, in spite of carving, splitting and merging.                       *)
SpansTileMemory ==
  /\ UNION {s .. End(s) - 1 : s \in Live} = heap.obtained \ heap.lost
  /\ \A s, t \in Live : s < t => End(s) <= t

(* MergeIntoFreeList reads the descriptors of the pages next to a span      *)
(* without checking them.  Whatever stale entries lie inside spans, the     *)
(* entries it reads name a live span that ends or starts exactly there.     *)
NeighboursAreLive ==
  \A s \in Live :
    /\ heap.pagemap[s] = s /\ heap.pagemap[End(s) - 1] = s
    /\ LET prev == heap.pagemap[s - 1] IN prev # NULL => prev \in Live /\ End(prev) = s
    /\ heap.pagemap[End(s)] # NULL => heap.pagemap[End(s)] = End(s) /\ End(s) \in Live

(* Eager coalescing: two free spans of one kind never lie side by side.     *)
(* Carve relies on it when it puts the rest of a span back unmerged.        *)
NoAdjacentFreeSpans ==
  \A s, t \in Live :
    /\ heap.span[s].location \in Lists
    /\ End(s) = t
    => heap.span[s].location # heap.span[t].location

(* CheckExpensive and the byte counts: each list holds exactly the free     *)
(* spans of its kind and length, once, and free_bytes, unmapped_bytes and   *)
(* the statistics for the large lists are the sums over them.               *)
ListsAndCountsAgree ==
  /\ \A l \in 1 .. kMaxPages, k \in Lists :
       /\ ToSet(heap.free[l][k]) =
            {s \in Live : heap.span[s].location = k /\ ListIndex(heap.span[s].length) = l}
       /\ IsInjective(heap.free[l][k])
  /\ \A k \in Lists :
       LET small == GetSmallSpanStats(heap)[k]
           large == GetLargeSpanStats(heap).pages[k]
       IN heap.bytes[k] = large + FoldLeft(LAMBDA acc, l : acc + l * small[l], 0,
                                           [l \in 1 .. kMaxPages - 1 |-> l])
  /\ heap.system = FoldLeft(LAMBDA acc, g : acc + g, 0, heap.growth)

(* A walk with GetNextRange from the end of one span finds the next one     *)
(* in address order, skips nothing and never meets a deleted span.          *)
RangesWalkable ==
  \A s \in Live :
    LET later == {t \in Live : t >= End(s)} IN
    GetNextRange(heap, End(s)) =
      IF later = {} THEN NULL ELSE CHOOSE t \in later : \A u \in later : t <= u

=============================================================================
