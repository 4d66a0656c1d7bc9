------------------------------- MODULE SizeMap -------------------------------
(* The table of size classes (common.cc, common.h), built at start-up: one  *)
(* step per candidate size, one step per class of the index array, for both *)
(* page sizes of the build.  The constants are the code's own.              *)
EXTENDS Integers, Sequences, FiniteSetsExt

VARIABLES
  kPageShift,      \* 13, or 15 with TCMALLOC_LARGE_PAGES
  pc,              \* "sizes", "index", "done", or "crash" after a failed check
  size,            \* the next candidate size; in "index" the next class
  class_to_size,   \* class_to_size_[1..], as far as it is assigned
  class_to_pages,
  class_array      \* class_array_; 0 where nothing is assigned

vars == <<kPageShift, pc, size, class_to_size, class_to_pages, class_array>>

kPageSize == 2^kPageShift
kNumClasses == IF kPageShift = 15 THEN 78 ELSE 86
kMaxSize == 256 * 1024
kAlignment == 8
kMaxSmallSize == 1024
kClassArraySize == ((kMaxSize + 127 + 120 * 128) \div 128) + 1

-----------------------------------------------------------------------------
(* The position of the highest one bit of an n below 2^32.                  *)
LgFloor(n) == CHOOSE log \in 0 .. 30 : 2^log <= n /\ n < 2^(log + 1)

(* AlignmentForSize: an eighth of the power of two below the size, capped.  *)
AlignmentForSize(s) ==
  Min({kPageSize,
       IF s > kMaxSize THEN kPageSize
       ELSE IF s >= 128 THEN 2^LgFloor(s) \div 8
       ELSE IF s >= 16 THEN 16 ELSE kAlignment})

(* Objects moved in one transfer: about 64K, at least 2, at most 32.        *)
NumMoveSize(s) == IF s = 0 THEN 0 ELSE Min({32, Max({2, 65536 \div s})})

ClassIndex(s) ==
  IF s > kMaxSmallSize THEN (s + 127 + 120 * 128) \div 128 ELSE (s + 7) \div 8

SizeClass(s) == class_array[ClassIndex(s)]

(* The nested loops over psize: the fewest pages that waste at most an      *)
(* eighth and hold a quarter of a transfer.                                 *)
PagesForSize(s) ==
  Min({p \in 1 .. 128 : /\ (p * kPageSize) % s <= (p * kPageSize) \div 8
                        /\ (p * kPageSize) \div s >= NumMoveSize(s) \div 4})

Objects(pages, s) == (pages * kPageSize) \div s

(* This size replaces the previous class: as many pages, as many objects.   *)
CanMerge(pages, s) ==
  LET sc == Len(class_to_size)
  IN /\ sc > 0
     /\ pages = class_to_pages[sc]
     /\ Objects(pages, s) = Objects(class_to_pages[sc], class_to_size[sc])

-----------------------------------------------------------------------------
Init ==
  /\ kPageShift \in {13, 15}
  /\ pc = IF ClassIndex(kMaxSize) >= kClassArraySize THEN "crash" ELSE "sizes"
  /\ size = kAlignment
  /\ class_to_size = <<>>
  /\ class_to_pages = <<>>
  /\ class_array = [i \in 0 .. kClassArraySize - 1 |-> 0]

(* One round of the loop over sizes.                                        *)
AddSize ==
  /\ pc = "sizes" /\ size <= kMaxSize
  /\ IF size % AlignmentForSize(size) # 0
       THEN pc' = "crash" /\ UNCHANGED <<size, class_to_size, class_to_pages>>
       ELSE LET pages == PagesForSize(size)
                sc == Len(class_to_size)
            IN /\ IF CanMerge(pages, size)
                    THEN /\ class_to_size' = [class_to_size EXCEPT ![sc] = size]
                         /\ UNCHANGED class_to_pages
                    ELSE /\ class_to_size' = Append(class_to_size, size)
                         /\ class_to_pages' = Append(class_to_pages, pages)
               /\ size' = size + AlignmentForSize(size)
               /\ UNCHANGED pc
  /\ UNCHANGED <<kPageShift, class_array>>

(* The number of classes is checked against the constant of the build.      *)
SizesDone ==
  /\ pc = "sizes" /\ size > kMaxSize
  /\ pc' = IF Len(class_to_size) + 1 # kNumClasses THEN "crash" ELSE "index"
  /\ size' = 1
  /\ UNCHANGED <<kPageShift, class_to_size, class_to_pages, class_array>>

(* The index entries of the sizes between the previous class and this one.  *)
IndexClass ==
  /\ pc = "index" /\ size < kNumClasses
  /\ LET first == IF size = 1 THEN 0 ELSE class_to_size[size - 1] + kAlignment
         steps == (class_to_size[size] - first) \div kAlignment
     IN \E written \in {{ClassIndex(first + i * kAlignment) : i \in 0 .. steps}} :
          class_array' = [i \in DOMAIN class_array |->
                            IF i \in written THEN size ELSE class_array[i]]
  /\ size' = size + 1
  /\ UNCHANGED <<kPageShift, pc, class_to_size, class_to_pages>>

(* What the double check of the code accepts for one size.                  *)
GoodSizeClass(s) ==
  LET sc == SizeClass(s)
  IN /\ sc > 0 /\ sc < kNumClasses
     /\ sc > 1 => s > class_to_size[sc - 1]
     /\ s <= class_to_size[sc]

DoubleCheck ==
  /\ pc = "index" /\ size = kNumClasses
  /\ pc' = IF \A s \in 0 .. kMaxSize : GoodSizeClass(s) THEN "done" ELSE "crash"
  /\ UNCHANGED <<kPageShift, size, class_to_size, class_to_pages, class_array>>

num_objects_to_move(cl) == NumMoveSize(class_to_size[cl])

(* The program goes on to serve allocations from the finished table.        *)
Serve == pc = "done" /\ UNCHANGED vars

Next == AddSize \/ SizesDone \/ IndexClass \/ DoubleCheck \/ Serve

Spec == Init /\ [][Next]_vars /\ WF_vars(Next)

-----------------------------------------------------------------------------
(* No check of Init fails, with either page size: the constants, the        *)
(* alignment rule, the merge rule and the two-part index fit together.      *)
InitNeverCrashes == pc # "crash"

(* No span of a class wastes more than an eighth of its pages and  *)
(* neighbouring classes beyond 1K are at most a quarter apart: merging      *)
(* sizes into a class keeps both bounds.                                    *)
WasteBounded ==
  \A c \in DOMAIN class_to_size :
    LET span == class_to_pages[c] * kPageSize
    IN /\ span % class_to_size[c] <= span \div 8
       /\ class_to_size[c] > 1024 =>
            8 * (class_to_size[c] - class_to_size[c - 1]) <= 2 * class_to_size[c]

(* Every class from 16 bytes on holds 16-byte aligned objects and every     *)
(* class holds 8-byte aligned ones, after merging too.                      *)
ClassesAligned ==
  \A c \in DOMAIN class_to_size :
    /\ class_to_size[c] % kAlignment = 0
    /\ class_to_size[c] >= 16 => class_to_size[c] % 16 = 0

(* One transfer between the caches moves 2 to 32 objects and a span holds   *)
(* at least one object and a quarter of a transfer, so a central list never *)
(* needs more than a few spans for one, in merged classes too.              *)
TransfersFit ==
  \A c \in DOMAIN class_to_size :
    /\ num_objects_to_move(c) \in 2 .. 32
    /\ Objects(class_to_pages[c], class_to_size[c]) >= num_objects_to_move(c) \div 4
    /\ Objects(class_to_pages[c], class_to_size[c]) >= 1

=============================================================================
