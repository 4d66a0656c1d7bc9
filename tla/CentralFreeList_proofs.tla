------------------------ MODULE CentralFreeList_proofs -----------------------
(* The central lists for every number of threads, classes, spans and         *)
(* objects: the locks are never nested, every object is in one place, the    *)
(* counts of the spans and of the classes are right, and the transfer caches *)
(* stay within their sizes.                                                  *)
EXTENDS CentralFreeList, FiniteSetTheorems, TLAPS

(* Who holds the lock of a class: the thread that looks for space, or that    *)
(* releases objects of it.                                                    *)
Holds(t, c) == \/ th[t].pc = "evict" /\ th[t].cl = c
               \/ th[t].pc = "release" /\ th[t].rc = c
LocksHeld == \A c \in Classes, t \in Threads : central[c].lock = t <=> Holds(t, c)

(* What a call carries at each of its steps.  The list of an insertion is     *)
(* either still the caller's or what is released, never both.                 *)
Releasing == {"release", "delete", "relock"}
Inserting == {"insert", "evict", "shrink", "evicted", "notevicted"}

CallOK(t) ==
  /\ th[t].pc # "idle" => th[t].cl \in Classes
  /\ th[t].pc \in Releasing \cup {"shrink"} => th[t].rc \in Classes
  /\ th[t].pc = "shrink" => th[t].rc # th[t].cl
  /\ th[t].pc \notin Releasing => th[t].rel = {}
  /\ th[t].pc \notin Inserting \cup Releasing => th[t].chain = {}
  /\ th[t].pc \in Releasing /\ th[t].rc = th[t].cl => th[t].chain = {}
  /\ th[t].pc = "delete" => th[t].span \in Spans /\ span[th[t].span].list = "dead"
  /\ th[t].pc = "populated" /\ th[t].span # NoSpan =>
       span[th[t].span].list = "new" /\ span[th[t].span].cl = th[t].cl
  /\ th[t].pc \notin {"delete", "populated"} => th[t].span = NoSpan
CallsOK == /\ \A t \in Threads : CallOK(t)
           /\ \A t, u \in Threads : th[t].span = th[u].span /\ th[t].span # NoSpan => t = u

(* A span by the list it is in.                                               *)
SpanOK(s) ==
  /\ span[s].free \subseteq ObjectsOf(s)
  /\ span[s].list \in {"heap", "dead"} => span[s].free = {}
  /\ span[s].list = "new" => span[s].free = ObjectsOf(s) /\ span[s].refcount = 0
  /\ span[s].list \in {"nonempty", "empty"} =>
       /\ span[s].refcount = ObjectsPerSpan - Cardinality(span[s].free)
       /\ span[s].list = "nonempty" <=> span[s].free # {}
SpansOK == \A s \in Spans : SpanOK(s)

(* Objects outside their spans belong to spans that are listed, of the class  *)
(* of the list they are in.                                                   *)
Of(objs, c) == \A o \in objs : o[1] \in LiveSpans /\ span[o[1]].cl = c
InClass ==
  /\ \A t \in Threads : /\ \A o \in owned[t] : o[1] \in LiveSpans
                        /\ Of(th[t].chain, th[t].cl)
                        /\ Of(th[t].rel, th[t].rc)
  /\ \A c \in Classes : \A i \in 1 .. used_slots(c) : Of(central[c].slots[i], c)

(* No two places share an object, and an object is somewhere exactly when its *)
(* span is listed or about to be.                                             *)
Disjoint == \A p, q \in Place : p # q => Contents(p) \cap Contents(q) = {}
Somewhere(o) == \E p \in Place : o \in Contents(p)
Covered == \A o \in Objects :
             Somewhere(o) <=> span[o[1]].list \in {"nonempty", "empty", "new"}

(* The counters of a class, also while its lock is held.                      *)
Counted ==
  \A c \in Classes :
    /\ central[c].counter = Cardinality(FreeObjects(span, c))
    /\ central[c].num_spans = Cardinality({s \in LiveSpans : span[s].cl = c})

IndInv == /\ TypeOK /\ LocksHeld /\ CallsOK /\ SpansOK /\ InClass
          /\ Disjoint /\ Covered /\ Counted /\ SlotsBounded

-----------------------------------------------------------------------------
LEMMA ObjectFacts ==
  ASSUME CentralConstants
  PROVE  /\ IsFiniteSet(Objects)
         /\ \A s \in Spans : /\ ObjectsOf(s) \subseteq Objects /\ IsFiniteSet(ObjectsOf(s))
                             /\ Cardinality(ObjectsOf(s)) = ObjectsPerSpan
         /\ \A o \in Objects : o[1] \in Spans
         /\ \A o \in Objects, s \in Spans : o \in ObjectsOf(s) <=> o[1] = s
         /\ ObjectsPerSpan \in Nat \ {0} /\ Batch \in Nat \ {0}
<1>1. /\ ObjectsPerSpan \in Nat \ {0} /\ IsFiniteSet(Spans) /\ Batch \in Nat \ {0}
  BY DEF CentralConstants
<1>2. /\ IsFiniteSet(1 .. ObjectsPerSpan)
      /\ Cardinality(1 .. ObjectsPerSpan) = ObjectsPerSpan
  BY <1>1, FS_Interval
<1>3. IsFiniteSet(Objects)
  BY <1>1, <1>2, FS_Product DEF Objects
<1>4. ASSUME NEW s \in Spans
      PROVE  /\ ObjectsOf(s) \subseteq Objects /\ IsFiniteSet(ObjectsOf(s))
             /\ Cardinality(ObjectsOf(s)) = ObjectsPerSpan
  <2>1. IsFiniteSet({s}) /\ Cardinality({s}) = 1
    BY FS_Singleton
  <2>2. /\ IsFiniteSet(ObjectsOf(s))
        /\ Cardinality(ObjectsOf(s)) = 1 * ObjectsPerSpan
    BY <1>2, <2>1, FS_Product DEF ObjectsOf
  <2>3. ObjectsOf(s) \subseteq Objects
    BY DEF ObjectsOf, Objects
  <2>4. QED
    BY <1>1, <2>2, <2>3
<1>5. \A o \in Objects : o[1] \in Spans
  BY DEF Objects
<1>6. \A o \in Objects, s \in Spans : o \in ObjectsOf(s) <=> o[1] = s
  BY DEF Objects, ObjectsOf
<1>7. QED
  BY <1>1, <1>3, <1>4, <1>5, <1>6

LEMMA IdleTyped == CentralConstants => Idle \in Calls
BY ObjectFacts DEF Idle, Calls, Labels

LEMMA PlaceForms ==
  \A p \in Place :
    \/ p[1] = "free" /\ p[2] \in Spans /\ p[3] = 0
    \/ p[1] \in {"owned", "chain", "rel"} /\ p[2] \in Threads /\ p[3] = 0
    \/ p[1] = "slot" /\ p[2] \in Classes /\ p[3] \in 1 .. max_cache_size
BY DEF Place

LEMMA ContentsOf ==
  ASSUME NEW x, NEW i
  PROVE  /\ Contents(<<"owned", x, 0>>) = owned[x] /\ Contents(<<"owned", x, 0>>)' = owned'[x]
         /\ Contents(<<"slot", x, i>>) = IF i <= used_slots(x) THEN central[x].slots[i] ELSE {}
         /\ Contents(<<"slot", x, i>>)' = (IF i <= used_slots(x) THEN central[x].slots[i] ELSE {})'
         /\ Contents(<<"chain", x, 0>>) = th[x].chain /\ Contents(<<"chain", x, 0>>)' = th'[x].chain
         /\ Contents(<<"rel", x, 0>>) = th[x].rel /\ Contents(<<"rel", x, 0>>)' = th'[x].rel
         /\ Contents(<<"free", x, 0>>) = span[x].free /\ Contents(<<"free", x, 0>>)' = span'[x].free
BY DEF Contents

LEMMA PlaceEqual ==
  \A p, q \in Place : p[1] = q[1] /\ p[2] = q[2] /\ p[3] = q[3] => p = q
BY DEF Place

(* A set of objects that moves to one place: whatever else holds one of them  *)
(* loses it.                                                                  *)
LEMMA MoveKeeps ==
  ASSUME Disjoint, NEW q \in Place, NEW X,
         \A p \in Place \ {q} : Contents(p)' = Contents(p) \ X,
         Contents(q)' = Contents(q) \cup X,
         \A o \in X : Somewhere(o)
  PROVE  Disjoint' /\ \A o \in Objects : Somewhere(o)' <=> Somewhere(o)
<1>1. Disjoint'
  BY DEF Disjoint
<1>2. \A o \in Objects : Somewhere(o)' <=> Somewhere(o)
  BY DEF Somewhere
<1>3. QED
  BY <1>1, <1>2

LEMMA MoveOne ==
  ASSUME Disjoint, NEW p \in Place, NEW q \in Place, p # q, NEW X \in SUBSET Contents(p),
         Contents(p)' = Contents(p) \ X,
         Contents(q)' = Contents(q) \cup X,
         \A r \in Place \ {p, q} : Contents(r)' = Contents(r)
  PROVE  Disjoint' /\ \A o \in Objects : Somewhere(o)' <=> Somewhere(o)
<1>1. \A r \in Place \ {p, q} : Contents(r) \cap X = {}
  BY DEF Disjoint
<1>2. \A r \in Place \ {q} : Contents(r)' = Contents(r) \ X
  BY <1>1
<1>3. \A o \in X : Somewhere(o)
  BY DEF Somewhere
<1>4. QED
  BY <1>2, <1>3, MoveKeeps

-----------------------------------------------------------------------------
(* The two parts of the invariant that only look at the calls and the locks,  *)
(* after a step of one thread.                                                *)
LEMMA LocksFrame ==
  ASSUME IndInv, NEW t \in Threads,
         \A u \in Threads \ {t} : th'[u] = th[u],
         \A c \in Classes : /\ central'[c].lock = t <=> Holds(t, c)'
                            /\ \A u \in Threads \ {t} : central'[c].lock = u <=> central[c].lock = u
  PROVE  LocksHeld'
<1>1. ASSUME NEW c \in Classes, NEW u \in Threads \ {t} PROVE central'[c].lock = u <=> Holds(u, c)'
  BY <1>1 DEF IndInv, LocksHeld, Holds
<1>2. QED
  BY <1>1 DEF LocksHeld

LEMMA CallsFrame ==
  ASSUME CentralConstants, IndInv, NEW t \in Threads,
         \A u \in Threads \ {t} : th'[u] = th[u],
         \A s \in Spans : s # th[t].span /\ span[s].list \in {"dead", "new"}
                            => span'[s].list = span[s].list /\ span'[s].cl = span[s].cl,
         CallOK(t)',
         th'[t].span # NoSpan => \A u \in Threads \ {t} : th[u].span # th'[t].span
  PROVE  CallsOK'
<1>1. ASSUME NEW u \in Threads \ {t} PROVE CallOK(u)'
  <2>1. th'[u] = th[u] /\ CallOK(u)
    BY DEF IndInv, CallsOK
  <2>2. th[u].span # NoSpan => th[u].span \in Spans /\ th[u].span # th[t].span
    BY DEF IndInv, TypeOK, Calls, CallsOK
  <2>3. th[u].pc = "delete" \/ (th[u].pc = "populated" /\ th[u].span # NoSpan)
          => /\ th[u].span # NoSpan /\ span[th[u].span].list \in {"dead", "new"}
             /\ span'[th[u].span].list = span[th[u].span].list
             /\ span'[th[u].span].cl = span[th[u].span].cl
    BY <2>1, <2>2 DEF CallOK, CentralConstants
  <2>4. QED
    BY <2>1, <2>3 DEF CallOK
<1>2. QED
  BY <1>1 DEF IndInv, CallsOK

(* Steps that leave the spans and the counters alone.                         *)
LEMMA SpansFrame ==
  ASSUME IndInv, UNCHANGED span,
         \A c \in Classes : /\ central'[c].counter = central[c].counter
                            /\ central'[c].num_spans = central[c].num_spans
  PROVE  SpansOK' /\ Counted' /\ LiveSpans' = LiveSpans
<1>1. SpansOK'
  BY DEF IndInv, SpansOK, SpanOK, ObjectsOf
<1>2. LiveSpans' = LiveSpans
  BY DEF LiveSpans
<1>3. Counted'
  <2>1. \A c \in Classes : /\ FreeObjects(span, c)' = FreeObjects(span, c)
                           /\ {s \in LiveSpans : span[s].cl = c}' = {s \in LiveSpans : span[s].cl = c}
    BY <1>2 DEF FreeObjects
  <2>2. QED
    BY <2>1 DEF IndInv, Counted
<1>4. QED
  BY <1>1, <1>2, <1>3

-----------------------------------------------------------------------------
(* The caller's objects become the list of the call.                          *)
LEMMA InsertRangeKeeps ==
  ASSUME CentralConstants, IndInv, NEW t \in Threads, NEW objs \in SUBSET owned[t],
         InsertRange(t, objs)
  PROVE  IndInv'
<1>1. PICK c \in Classes :
        /\ \A o \in objs : span[o[1]].cl = c
        /\ th' = [th EXCEPT ![t] = [Idle EXCEPT !.pc = "insert", !.cl = c, !.chain = objs]]
  BY DEF InsertRange
<1>2. /\ th[t].pc = "idle" /\ owned' = [owned EXCEPT ![t] = @ \ objs] /\ UNCHANGED <<central, span>>
      /\ th[t].chain = {} /\ th[t].rel = {}
  BY DEF InsertRange, IndInv, CallsOK, CallOK, Releasing, Inserting
<1>3. /\ th'[t] = [Idle EXCEPT !.pc = "insert", !.cl = c, !.chain = objs]
      /\ owned'[t] = owned[t] \ objs
      /\ \A u \in Threads \ {t} : th'[u] = th[u] /\ owned'[u] = owned[u]
  BY <1>1, <1>2 DEF IndInv, TypeOK
<1>4. /\ th'[t].pc = "insert" /\ th'[t].cl = c /\ th'[t].chain = objs /\ th'[t].rel = {}
      /\ th'[t].span = NoSpan /\ th'[t].rc = NONE
  BY <1>3 DEF Idle
<1>5. TypeOK'
  <2>1. objs \subseteq Objects
    BY DEF IndInv, TypeOK
  <2>2. [Idle EXCEPT !.pc = "insert", !.cl = c, !.chain = objs] \in Calls
    BY <2>1, IdleTyped DEF Labels, Calls
  <2>3. QED
    BY <1>1, <1>2, <2>1, <2>2 DEF IndInv, TypeOK
<1>6. LocksHeld'
  <2>1. \A d \in Classes : /\ central'[d].lock = t <=> Holds(t, d)'
                           /\ \A u \in Threads \ {t} : central'[d].lock = u <=> central[d].lock = u
    BY <1>2, <1>4 DEF IndInv, LocksHeld, Holds
  <2>2. QED
    BY <1>3, <2>1, LocksFrame
<1>7. CallsOK'
  <2>1. CallOK(t)'
    BY <1>4 DEF CallOK, Inserting, Releasing
  <2>2. QED
    BY <1>2, <1>3, <1>4, <2>1, CallsFrame
<1>8. SpansOK' /\ Counted' /\ LiveSpans' = LiveSpans
  BY <1>2, SpansFrame
<1>9. InClass'
  <2>1. \A u \in Threads : \A o \in owned'[u] : o \in owned[u]
    BY <1>3
  <2>2. Of(th[t].chain, th[t].cl)' /\ Of(th[t].rel, th[t].rc)'
    BY <1>1, <1>2, <1>4, <1>8 DEF Of, IndInv, InClass
  <2>3. \A u \in Threads \ {t} : Of(th[u].chain, th[u].cl)' /\ Of(th[u].rel, th[u].rc)'
    BY <1>2, <1>3, <1>8 DEF Of, IndInv, InClass
  <2>4. \A d \in Classes : \A i \in 1 .. used_slots(d)' : Of(central[d].slots[i], d)'
    BY <1>2, <1>8 DEF Of, IndInv, InClass, used_slots
  <2>5. QED
    BY <1>8, <2>1, <2>2, <2>3, <2>4 DEF IndInv, InClass
<1>10. Disjoint' /\ Covered'
  <2> DEFINE p == <<"owned", t, 0>>
             q == <<"chain", t, 0>>
  <2>1. p \in Place /\ q \in Place /\ p # q
    BY DEF Place
  <2>2. Contents(p) = owned[t] /\ Contents(p)' = Contents(p) \ objs /\ Contents(q)' = Contents(q) \cup objs
    BY <1>2, <1>3, <1>4 DEF Contents
  <2>3. \A r \in Place \ {p, q} : Contents(r)' = Contents(r)
    BY <1>2, <1>3, <1>4, PlaceForms, PlaceEqual DEF Contents, used_slots
  <2>4. QED
    BY <1>2, <2>1, <2>2, <2>3, MoveOne DEF IndInv, Covered
<1>11. SlotsBounded'
  BY <1>2 DEF IndInv, SlotsBounded, used_slots
<1>12. QED
  BY <1>5, <1>6, <1>7, <1>8, <1>9, <1>10, <1>11 DEF IndInv

(* Steps that move no object and leave the spans alone.                       *)
Quiet(t) ==
  /\ UNCHANGED <<span, owned>>
  /\ \A u \in Threads \ {t} : th'[u] = th[u]
  /\ th'[t].chain = th[t].chain /\ (th[t].chain # {} => th'[t].cl = th[t].cl)
  /\ th'[t].rel = th[t].rel /\ (th[t].rel # {} => th'[t].rc = th[t].rc)
  /\ th'[t].span \in {th[t].span, NoSpan}
  /\ \A c \in Classes :
       /\ central'[c].slots = central[c].slots
       /\ central'[c].counter = central[c].counter
       /\ central'[c].num_spans = central[c].num_spans
       /\ central'[c].lock = t <=> Holds(t, c)'
       /\ \A u \in Threads \ {t} : central'[c].lock = u <=> central[c].lock = u

LEMMA QuietStep ==
  ASSUME CentralConstants, IndInv, NEW t \in Threads, Quiet(t), TypeOK', CallOK(t)', SlotsBounded'
  PROVE  IndInv'
<1> USE DEF Quiet
<1>1. LocksHeld'
  BY LocksFrame
<1>2. CallsOK'
  <2>1. th'[t].span # NoSpan => \A u \in Threads \ {t} : th[u].span # th'[t].span
    BY DEF IndInv, CallsOK
  <2>2. QED
    BY <2>1, CallsFrame
<1>3. SpansOK' /\ Counted' /\ LiveSpans' = LiveSpans
  BY SpansFrame
<1>4. InClass'
  <2>1. Of(th[t].chain, th[t].cl)' /\ Of(th[t].rel, th[t].rc)'
    BY <1>3 DEF Of, IndInv, InClass
  <2>2. \A u \in Threads \ {t} : Of(th[u].chain, th[u].cl)' /\ Of(th[u].rel, th[u].rc)'
    BY <1>3 DEF Of, IndInv, InClass
  <2>3. \A d \in Classes : \A i \in 1 .. used_slots(d)' : Of(central[d].slots[i], d)'
    BY <1>3 DEF Of, IndInv, InClass, used_slots
  <2>4. QED
    BY <1>3, <2>1, <2>2, <2>3 DEF IndInv, InClass
<1>5. Disjoint' /\ Covered'
  <2>1. \A p \in Place : Contents(p)' = Contents(p)
    BY PlaceForms DEF Contents, used_slots
  <2>2. QED
    BY <2>1 DEF IndInv, Disjoint, Covered, Somewhere
<1>6. QED
  BY <1>1, <1>2, <1>3, <1>4, <1>5 DEF IndInv

LEMMA RemoveRangeKeeps ==
  ASSUME CentralConstants, IndInv, NEW t \in Threads, NEW c \in Classes, NEW n \in 1 .. Batch,
         RemoveRange(t, c, n)
  PROVE  IndInv'
<1>1. /\ th[t].pc = "idle" /\ UNCHANGED <<central, span, owned>>
      /\ th' = [th EXCEPT ![t] = [Idle EXCEPT !.pc = "remove", !.cl = c, !.n = n]]
      /\ th[t].chain = {} /\ th[t].rel = {}
  BY DEF RemoveRange, IndInv, CallsOK, CallOK, Releasing, Inserting
<1>2. /\ th'[t] = [Idle EXCEPT !.pc = "remove", !.cl = c, !.n = n]
      /\ \A u \in Threads \ {t} : th'[u] = th[u]
  BY <1>1 DEF IndInv, TypeOK
<1>3. /\ th'[t].pc = "remove" /\ th'[t].cl = c /\ th'[t].chain = {} /\ th'[t].rel = {}
      /\ th'[t].span = NoSpan
  BY <1>2 DEF Idle
<1>4. TypeOK'
  <2>1. n \in 0 .. Batch
    BY ObjectFacts
  <2>2. [Idle EXCEPT !.pc = "remove", !.cl = c, !.n = n] \in Calls
    BY <2>1, IdleTyped DEF Labels, Calls
  <2>3. QED
    BY <1>1, <2>2 DEF IndInv, TypeOK
<1>5. CallOK(t)'
  BY <1>3 DEF CallOK, Inserting, Releasing
<1>6. \A d \in Classes : central'[d].lock = t <=> Holds(t, d)'
  BY <1>1, <1>3 DEF IndInv, LocksHeld, Holds
<1>7. SlotsBounded'
  BY <1>1 DEF IndInv, SlotsBounded, used_slots
<1>8. Quiet(t)
  BY <1>1, <1>2, <1>3, <1>6 DEF Quiet
<1>9. QED
  BY <1>4, <1>5, <1>7, <1>8, QuietStep

(* ReleaseOwn: the list of the call becomes the list being released.  The     *)
(* lock of its class is held, or taken by the same step.                      *)
LEMMA ReleaseOwnKeeps ==
  ASSUME CentralConstants, IndInv, NEW t \in Threads, ReleaseOwn(t), UNCHANGED <<span, owned>>,
         th[t].pc \in Inserting, th[t].cl \in Classes,
         central[th[t].cl].lock \in {t, NONE}, \A c \in Classes \ {th[t].cl} : central[c].lock # t,
         central' = [central EXCEPT ![th[t].cl].lock = t]
  PROVE  IndInv'
<1>1. /\ th[t] \in Calls /\ th[t].rel = {} /\ th[t].chain \subseteq Objects
      /\ th[t].span = NoSpan
  BY DEF IndInv, TypeOK, Calls, CallsOK, CallOK, Releasing, Inserting
<1>2. /\ th'[t] = [th[t] EXCEPT !.pc = "release", !.rc = th[t].cl, !.rel = th[t].chain, !.chain = {}]
      /\ \A u \in Threads \ {t} : th'[u] = th[u]
  BY DEF ReleaseOwn, IndInv, TypeOK
<1>3. /\ th'[t].pc = "release" /\ th'[t].rc = th[t].cl /\ th'[t].cl = th[t].cl
      /\ th'[t].rel = th[t].chain /\ th'[t].chain = {} /\ th'[t].span = NoSpan
  BY <1>1, <1>2 DEF Calls
<1>4. /\ \A d \in Classes : /\ central'[d].slots = central[d].slots
                            /\ central'[d].counter = central[d].counter
                            /\ central'[d].num_spans = central[d].num_spans
                            /\ central'[d].cache_size = central[d].cache_size
                            /\ d # th[t].cl => central'[d].lock = central[d].lock
      /\ central'[th[t].cl].lock = t
  BY DEF IndInv, TypeOK, Lists
<1>5. TypeOK'
  <2>1. th'[t] \in Calls
    BY <1>1, <1>2 DEF Calls, Labels
  <2>2. th' \in [Threads -> Calls]
    BY <2>1, <1>2 DEF ReleaseOwn, IndInv, TypeOK
  <2>3. central' \in [Classes -> Lists]
    BY DEF IndInv, TypeOK, Lists
  <2>4. QED
    BY <2>2, <2>3 DEF IndInv, TypeOK
<1>6. LocksHeld'
  <2>1. \A d \in Classes : /\ central'[d].lock = t <=> Holds(t, d)'
                           /\ \A u \in Threads \ {t} : central'[d].lock = u <=> central[d].lock = u
    BY <1>3, <1>4 DEF Holds, CentralConstants
  <2>2. QED
    BY <1>2, <2>1, LocksFrame
<1>7. CallsOK'
  <2>1. CallOK(t)'
    BY <1>3 DEF CallOK, Inserting, Releasing
  <2>2. QED
    BY <1>2, <1>3, <2>1, CallsFrame
<1>8. SpansOK' /\ Counted' /\ LiveSpans' = LiveSpans
  BY <1>4, SpansFrame
<1>9. InClass'
  <2>1. Of(th[t].chain, th[t].cl)' /\ Of(th[t].rel, th[t].rc)'
    BY <1>3, <1>8 DEF Of, IndInv, InClass
  <2>2. \A u \in Threads \ {t} : Of(th[u].chain, th[u].cl)' /\ Of(th[u].rel, th[u].rc)'
    BY <1>2, <1>8 DEF Of, IndInv, InClass
  <2>3. \A d \in Classes : \A i \in 1 .. used_slots(d)' : Of(central[d].slots[i], d)'
    BY <1>4, <1>8 DEF Of, IndInv, InClass, used_slots
  <2>4. QED
    BY <1>8, <2>1, <2>2, <2>3 DEF IndInv, InClass
<1>10. Disjoint' /\ Covered'
  <2> DEFINE p == <<"chain", t, 0>>
             q == <<"rel", t, 0>>
             X == th[t].chain
  <2>1. p \in Place /\ q \in Place /\ p # q
    BY DEF Place
  <2>2. Contents(p) = X /\ Contents(p)' = Contents(p) \ X /\ Contents(q)' = Contents(q) \cup X
    BY <1>1, <1>3 DEF Contents
  <2>3. \A r \in Place \ {p, q} : Contents(r)' = Contents(r)
    BY <1>2, <1>3, <1>4, PlaceForms, PlaceEqual DEF Contents, used_slots
  <2>4. QED
    BY <2>1, <2>2, <2>3, MoveOne DEF IndInv, Covered
<1>11. SlotsBounded'
  BY <1>4 DEF IndInv, SlotsBounded, used_slots
<1>12. QED
  BY <1>5, <1>6, <1>7, <1>8, <1>9, <1>10, <1>11 DEF IndInv

(* The list of the call goes into a new slot, and the call returns.           *)
Put(t, c) ==
  /\ UNCHANGED <<span, owned>> /\ th' = [th EXCEPT ![t] = Idle]
  /\ th[t].pc \in Inserting /\ th[t].cl = c /\ central[c].lock = NONE
  /\ \A d \in Classes : central[d].lock # t
  /\ central' \in [Classes -> Lists] /\ \A d \in Classes \ {c} : central'[d] = central[d]
  /\ used_slots(c) < central'[c].cache_size
  /\ central'[c].slots = Append(central[c].slots, th[t].chain)
  /\ central'[c].lock = NONE
  /\ central'[c].counter = central[c].counter
  /\ central'[c].num_spans = central[c].num_spans

LEMMA PutKeeps ==
  ASSUME CentralConstants, IndInv, NEW t \in Threads, NEW c \in Classes, Put(t, c)
  PROVE  IndInv'
<1> USE DEF Put
<1>0. PICK n \in 0 .. max_cache_size : n = central'[c].cache_size
  BY DEF Lists
<1>1. /\ th[t] \in Calls /\ th[t].rel = {} /\ th[t].chain \in SUBSET Objects
      /\ central[c].slots \in Seq(SUBSET Objects) /\ max_cache_size \in Nat
  BY DEF IndInv, TypeOK, Calls, Lists, CallsOK, CallOK, Releasing, Inserting, CentralConstants
<1>2. th'[t] = Idle /\ \A u \in Threads \ {t} : th'[u] = th[u]
  BY DEF IndInv, TypeOK
<1>3. /\ th'[t].pc = "idle" /\ th'[t].chain = {} /\ th'[t].rel = {} /\ th'[t].span = NoSpan
      /\ th'[t].cl = NONE /\ th'[t].rc = NONE
  BY <1>2 DEF Idle
<1>4. \A d \in Classes : /\ central'[d].counter = central[d].counter
                         /\ central'[d].num_spans = central[d].num_spans
  OBVIOUS
<1>5. /\ used_slots(c)' = used_slots(c) + 1 /\ used_slots(c) \in Nat
      /\ used_slots(c) + 1 \in 1 .. max_cache_size
      /\ central'[c].slots[used_slots(c) + 1] = th[t].chain
      /\ \A i \in 1 .. used_slots(c) : central'[c].slots[i] = central[c].slots[i]
      /\ central'[c].slots \in Seq(SUBSET Objects)
  BY <1>0, <1>1, <1>4 DEF used_slots
<1>6. TypeOK'
  <2>1. th' \in [Threads -> Calls]
    BY IdleTyped DEF IndInv, TypeOK
  <2>2. central' \in [Classes -> Lists]
    BY <1>5, <1>4 DEF IndInv, TypeOK, Lists
  <2>3. QED
    BY <2>1, <2>2 DEF IndInv, TypeOK
<1>7. LocksHeld'
  <2>1. \A d \in Classes : /\ central'[d].lock = t <=> Holds(t, d)'
                           /\ \A u \in Threads \ {t} : central'[d].lock = u <=> central[d].lock = u
    BY <1>3, <1>4 DEF Holds, CentralConstants
  <2>2. QED
    BY <1>2, <2>1, LocksFrame
<1>8. CallsOK'
  <2>1. CallOK(t)'
    BY <1>3 DEF CallOK, Inserting, Releasing
  <2>2. QED
    BY <1>2, <1>3, <2>1, CallsFrame
<1>9. SpansOK' /\ Counted' /\ LiveSpans' = LiveSpans
  BY <1>4, SpansFrame
<1>10. InClass'
  <2>1. \A u \in Threads : Of(th[u].chain, th[u].cl)' /\ Of(th[u].rel, th[u].rc)'
    BY <1>2, <1>3, <1>9 DEF Of, IndInv, InClass
  <2>2. \A d \in Classes \ {c} : \A i \in 1 .. used_slots(d)' : Of(central[d].slots[i], d)'
    BY <1>4, <1>9 DEF Of, IndInv, InClass, used_slots
  <2>3. \A i \in 1 .. used_slots(c)' : Of(central[c].slots[i], c)'
    <3>1. \A i \in 1 .. used_slots(c)' : i = used_slots(c) + 1 \/ i \in 1 .. used_slots(c)
      BY <1>5
    <3>2. Of(th[t].chain, c) /\ \A i \in 1 .. used_slots(c) : Of(central[c].slots[i], c)
      BY DEF IndInv, InClass
    <3>3. ASSUME NEW i \in 1 .. used_slots(c)' PROVE Of(central'[c].slots[i], c)
      BY <1>5, <3>1, <3>2
    <3>4. QED
      BY <1>9, <3>3 DEF Of
  <2>4. QED
    BY <1>9, <2>1, <2>2, <2>3 DEF IndInv, InClass
<1>11. Disjoint' /\ Covered'
  <2>0. PICK k \in 1 .. max_cache_size : k = used_slots(c) + 1
    BY <1>5
  <2> DEFINE p == <<"chain", t, 0>>
             q == <<"slot", c, k>>
             X == th[t].chain
  <2>1. p \in Place /\ q \in Place /\ p # q
    BY <2>0 DEF Place
  <2>2. Contents(p) = X /\ Contents(p)' = {}
    BY <1>3, ContentsOf
  <2>3. Contents(q) = {} /\ Contents(q)' = X
    <3>1. /\ Contents(q) = IF k <= used_slots(c) THEN central[c].slots[k] ELSE {}
          /\ Contents(q)' = IF k <= used_slots(c)' THEN central'[c].slots[k] ELSE {}
      BY ContentsOf
    <3>2. ~(k <= used_slots(c)) /\ k <= used_slots(c)'
      BY <1>5, <2>0
    <3>3. central'[c].slots[k] = th[t].chain
      BY <1>5, <2>0
    <3>4. QED
      BY <3>1, <3>2, <3>3
  <2>4. \A r \in Place \ {p, q} : Contents(r)' = Contents(r)
    <3>1. ASSUME NEW r \in Place \ {p, q}, r[1] = "slot", r[2] = c PROVE Contents(r)' = Contents(r)
      <4>1. r[3] \in Nat /\ r[3] # k /\ r[3] >= 1
        BY <2>1, <3>1, PlaceForms, PlaceEqual
      <4>2. QED
        BY <1>5, <2>0, <3>1, <4>1 DEF Contents
    <3>2. ASSUME NEW r \in Place \ {p, q}, r[1] = "slot", r[2] # c PROVE Contents(r)' = Contents(r)
      BY <1>4, <3>2, PlaceForms DEF Contents, used_slots
    <3>3. ASSUME NEW r \in Place \ {p, q}, r[1] # "slot" PROVE Contents(r)' = Contents(r)
      BY <1>1, <1>2, <1>3, <3>3, <2>1, PlaceForms, PlaceEqual DEF Contents
    <3>4. QED
      BY <3>1, <3>2, <3>3
  <2>5. /\ X \in SUBSET Contents(p) /\ Contents(p)' = Contents(p) \ X
        /\ Contents(q)' = Contents(q) \cup X
    BY <2>2, <2>3
  <2>6. QED
    BY <2>1, <2>4, <2>5, MoveOne DEF IndInv, Covered
<1>12. SlotsBounded'
  <2>1. \A d \in Classes \ {c} : used_slots(d)' = used_slots(d)
    BY <1>4 DEF used_slots
  <2>2. QED
    BY <1>0, <1>4, <1>5, <2>1 DEF IndInv, SlotsBounded
<1>13. QED
  BY <1>6, <1>7, <1>8, <1>9, <1>10, <1>11, <1>12 DEF IndInv

(* The last list of a cache is taken out, by a call that frees its objects or *)
(* gives them to the caller.                                                  *)
LEMMA LastSlot ==
  ASSUME CentralConstants, IndInv, NEW c \in Classes, used_slots(c) > 0,
         central'[c].slots = SubSeq(central[c].slots, 1, used_slots(c) - 1)
  PROVE  /\ used_slots(c) \in 1 .. max_cache_size
         /\ used_slots(c)' = used_slots(c) - 1
         /\ central'[c].slots \in Seq(SUBSET Objects)
         /\ \A i \in 1 .. used_slots(c)' : central'[c].slots[i] = central[c].slots[i]
         /\ central[c].slots[used_slots(c)] \in SUBSET Objects
<1>1. /\ central[c].slots \in Seq(SUBSET Objects) /\ used_slots(c) \in Nat
      /\ used_slots(c) <= max_cache_size /\ max_cache_size \in Nat
  BY DEF IndInv, TypeOK, Lists, SlotsBounded, used_slots, CentralConstants
<1>2. QED
  BY <1>1 DEF used_slots

(* The lock of a class is taken, or kept, by a thread that then holds it.     *)
LEMMA TakesLock ==
  ASSUME CentralConstants, NEW t \in Threads, NEW c \in Classes,
         central[c].lock \in {t, NONE}, central'[c].lock = t,
         \A d \in Classes \ {c} : central[d].lock # t /\ central'[d].lock = central[d].lock,
         \A d \in Classes : Holds(t, d)' <=> d = c
  PROVE  \A d \in Classes : /\ central'[d].lock = t <=> Holds(t, d)'
                            /\ \A u \in Threads \ {t} : central'[d].lock = u <=> central[d].lock = u
<1>1. t # NONE /\ NONE \notin Threads
  BY DEF CentralConstants
<1>2. \A d \in Classes : central'[d].lock = t <=> Holds(t, d)'
  OBVIOUS
<1>3. ASSUME NEW d \in Classes, NEW u \in Threads \ {t}
      PROVE  central'[d].lock = u <=> central[d].lock = u
  BY <1>1
<1>4. QED
  BY <1>2, <1>3

(* What the invariant says of one call and of one class.                      *)
LEMMA CallFacts ==
  ASSUME CentralConstants, IndInv, NEW t \in Threads
  PROVE  /\ th[t] \in Calls /\ t # NONE /\ CallOK(t)
         /\ \A d \in Classes : central[d].lock = t <=> Holds(t, d)
BY DEF CentralConstants, IndInv, TypeOK, CallsOK, LocksHeld

LEMMA ClassFacts ==
  ASSUME CentralConstants, IndInv, NEW c \in Classes
  PROVE  /\ central[c] \in Lists /\ central[c].slots \in Seq(SUBSET Objects)
         /\ max_cache_size \in Nat /\ central[c].cache_size \in 0 .. max_cache_size
         /\ used_slots(c) \in Nat /\ used_slots(c) <= central[c].cache_size
<1>1. central[c] \in Lists /\ max_cache_size \in Nat
  BY DEF CentralConstants, IndInv, TypeOK
<1>2. central[c].slots \in Seq(SUBSET Objects)
  BY <1>1 DEF Lists
<1>3. QED
  BY <1>1, <1>2 DEF IndInv, SlotsBounded, used_slots

(* What a step says when it changes one call, or only the lock of a class.    *)
LEMMA CallStep ==
  ASSUME IndInv, NEW t \in Threads, NEW k \in Calls, th' = [th EXCEPT ![t] = k]
  PROVE  th' \in [Threads -> Calls] /\ th'[t] = k /\ \A u \in Threads \ {t} : th'[u] = th[u]
BY DEF IndInv, TypeOK

LEMMA ListStep ==
  ASSUME IndInv, NEW c \in Classes, NEW l \in Lists, central' = [central EXCEPT ![c] = l]
  PROVE  /\ central' \in [Classes -> Lists] /\ central'[c] = l
         /\ \A d \in Classes \ {c} : central'[d] = central[d]
BY DEF IndInv, TypeOK

LEMMA LockStep ==
  ASSUME IndInv, NEW c \in Classes, NEW l \in Threads \cup {NONE},
         central' = [central EXCEPT ![c].lock = l]
  PROVE  /\ central' \in [Classes -> Lists] /\ SlotsBounded' /\ central'[c].lock = l
         /\ \A d \in Classes : /\ central'[d].slots = central[d].slots
                               /\ central'[d].counter = central[d].counter
                               /\ central'[d].num_spans = central[d].num_spans
                               /\ central'[d].cache_size = central[d].cache_size
                               /\ d # c => central'[d].lock = central[d].lock
<1>1. central \in [Classes -> Lists]
  BY DEF IndInv, TypeOK
<1>2. /\ central' \in [Classes -> Lists] /\ central'[c].lock = l
      /\ \A d \in Classes : /\ central'[d].slots = central[d].slots
                            /\ central'[d].counter = central[d].counter
                            /\ central'[d].num_spans = central[d].num_spans
                            /\ central'[d].cache_size = central[d].cache_size
                            /\ d # c => central'[d].lock = central[d].lock
  BY <1>1 DEF Lists
<1>3. SlotsBounded'
  BY <1>2 DEF IndInv, SlotsBounded, used_slots
<1>4. QED
  BY <1>2, <1>3

LEMMA InsertLockedKeeps ==
  ASSUME CentralConstants, IndInv, NEW t \in Threads, InsertLocked(t)
  PROVE  IndInv'
<1>1. PICK c \in Classes : c = th[t].cl
  BY DEF InsertLocked, IndInv, CallsOK, CallOK
<1>2. /\ th[t].pc = "insert" /\ central[c].lock = NONE /\ UNCHANGED <<span, owned>>
      /\ th[t] \in Calls /\ th[t].span = NoSpan /\ th[t].rel = {}
      /\ \A d \in Classes : central[d].lock # t
      /\ central \in [Classes -> Lists]
  BY <1>1 DEF InsertLocked, CanLock, IndInv, TypeOK, CallsOK, CallOK, Releasing, LocksHeld, Holds
<1>3. CASE PutSlot(t, c) /\ used_slots(c) < central[c].cache_size
  <2> DEFINE l == [central[c] EXCEPT !.slots = Append(central[c].slots, th[t].chain), !.lock = NONE]
  <2>1. central[c] \in Lists /\ Append(central[c].slots, th[t].chain) \in Seq(SUBSET Objects)
    BY <1>2 DEF Calls, Lists
  <2>2. l \in Lists
    BY <2>1 DEF Lists
  <2>3. central' = [central EXCEPT ![c] = l] /\ th' = [th EXCEPT ![t] = Idle]
    BY <1>3 DEF PutSlot
  <2>4. /\ central' \in [Classes -> Lists] /\ central'[c] = l
        /\ \A d \in Classes \ {c} : central'[d] = central[d]
    BY <2>2, <2>3, ListStep
  <2>5. /\ l.slots = Append(central[c].slots, th[t].chain)
        /\ l.cache_size = central[c].cache_size /\ l.lock = NONE
        /\ l.counter = central[c].counter /\ l.num_spans = central[c].num_spans
    BY <2>1 DEF Lists
  <2>6. Put(t, c)
    BY <1>1, <1>2, <1>3, <2>3, <2>4, <2>5 DEF Put, Inserting
  <2>7. QED
    BY <2>6, PutKeeps
<1>4. CASE central' = [central EXCEPT ![c].lock = t] /\ th' = [th EXCEPT ![t].pc = "evict"]
  <2>1. [th[t] EXCEPT !.pc = "evict"] \in Calls
    BY <1>2 DEF Calls, Labels
  <2>2. th' = [th EXCEPT ![t] = [th[t] EXCEPT !.pc = "evict"]]
    BY <1>4
  <2>3. /\ th' \in [Threads -> Calls] /\ \A u \in Threads \ {t} : th'[u] = th[u]
        /\ th'[t] = [th[t] EXCEPT !.pc = "evict"]
    BY <2>1, <2>2, CallStep
  <2>4. /\ th'[t].pc = "evict" /\ th'[t].cl = c /\ th'[t].chain = th[t].chain
        /\ th'[t].rel = {} /\ th'[t].rc = th[t].rc /\ th'[t].span = NoSpan
    BY <1>1, <1>2, <2>3 DEF Calls
  <2>5. CallOK(t)'
    BY <2>4 DEF CallOK, Inserting, Releasing
  <2>6. /\ central' \in [Classes -> Lists] /\ SlotsBounded' /\ central'[c].lock = t
        /\ \A d \in Classes : /\ central'[d].slots = central[d].slots
                              /\ central'[d].counter = central[d].counter
                              /\ central'[d].num_spans = central[d].num_spans
                              /\ d # c => central'[d].lock = central[d].lock
    BY <1>4, LockStep
  <2>7. TypeOK'
    BY <1>2, <2>3, <2>6 DEF IndInv, TypeOK
  <2>8. \A d \in Classes : /\ central'[d].lock = t <=> Holds(t, d)'
                           /\ \A u \in Threads \ {t} : central'[d].lock = u <=> central[d].lock = u
    BY <1>2, <2>4, <2>6 DEF Holds, CentralConstants
  <2>9. Quiet(t)
    BY <1>1, <1>2, <2>3, <2>4, <2>6, <2>8 DEF Quiet
  <2>10. QED
    BY <2>5, <2>6, <2>7, <2>9, QuietStep
<1>5. CASE central' = [central EXCEPT ![c].lock = t] /\ ReleaseOwn(t)
  BY <1>1, <1>2, <1>5, ReleaseOwnKeeps DEF Inserting
<1>6. QED
  BY <1>1, <1>3, <1>4, <1>5 DEF InsertLocked

(* A failed eviction: again with force, or on to the release of the list.     *)
LEMMA EvictFailsKeeps ==
  ASSUME CentralConstants, IndInv, NEW t \in Threads, EvictFails(t), UNCHANGED <<span, owned>>,
         th[t].pc \in {"evict", "notevicted"},
         central[th[t].cl].lock \in {t, NONE}, \A d \in Classes \ {th[t].cl} : central[d].lock # t,
         central' = [central EXCEPT ![th[t].cl].lock = t]
  PROVE  IndInv'
<1>1. PICK c \in Classes : c = th[t].cl
  BY DEF IndInv, CallsOK, CallOK
<1>2. /\ th[t] \in Calls /\ th[t].span = NoSpan /\ th[t].rel = {} /\ t # NONE
  BY DEF IndInv, TypeOK, CallsOK, CallOK, Releasing, CentralConstants
<1>3. CASE ReleaseOwn(t)
  BY <1>1, <1>3, ReleaseOwnKeeps DEF Inserting
<1>4. CASE th' = [th EXCEPT ![t].pc = "evict", ![t].force = TRUE]
  <2>1. [th[t] EXCEPT !.pc = "evict", !.force = TRUE] \in Calls
    BY <1>2 DEF Calls, Labels
  <2>2. th' = [th EXCEPT ![t] = [th[t] EXCEPT !.pc = "evict", !.force = TRUE]]
    BY <1>4
  <2>3. /\ th' \in [Threads -> Calls] /\ \A u \in Threads \ {t} : th'[u] = th[u]
        /\ th'[t] = [th[t] EXCEPT !.pc = "evict", !.force = TRUE]
    BY <2>1, <2>2, CallStep
  <2>4. /\ th'[t].pc = "evict" /\ th'[t].cl = c /\ th'[t].chain = th[t].chain
        /\ th'[t].rel = {} /\ th'[t].rc = th[t].rc /\ th'[t].span = NoSpan
    BY <1>1, <1>2, <2>3 DEF Calls
  <2>5. CallOK(t)'
    BY <2>4 DEF CallOK, Inserting, Releasing
  <2>6. /\ central' \in [Classes -> Lists] /\ SlotsBounded' /\ central'[c].lock = t
        /\ \A d \in Classes : /\ central'[d].slots = central[d].slots
                              /\ central'[d].counter = central[d].counter
                              /\ central'[d].num_spans = central[d].num_spans
                              /\ d # c => central'[d].lock = central[d].lock
    BY <1>1, LockStep
  <2>7. TypeOK'
    BY <2>3, <2>6 DEF IndInv, TypeOK
  <2>8. \A d \in Classes : /\ central'[d].lock = t <=> Holds(t, d)'
                           /\ \A u \in Threads \ {t} : central'[d].lock = u <=> central[d].lock = u
    <3>1. \A d \in Classes : Holds(t, d)' <=> d = c
      BY <2>4 DEF Holds
    <3>2. QED
      BY <1>1, <2>6, <3>1, TakesLock
  <2>9. Quiet(t)
    BY <1>1, <1>2, <2>3, <2>4, <2>6, <2>8 DEF Quiet
  <2>10. QED
    BY <2>5, <2>6, <2>7, <2>9, QuietStep
<1>5. QED
  BY <1>3, <1>4 DEF EvictFails

LEMMA EvictRandomSizeClassKeeps ==
  ASSUME CentralConstants, IndInv, NEW t \in Threads, EvictRandomSizeClass(t)
  PROVE  IndInv'
<1>1. PICK b \in Classes : b = th[t].cl
  BY DEF EvictRandomSizeClass, IndInv, CallsOK, CallOK
<1>2. /\ th[t].pc = "evict" /\ UNCHANGED <<span, owned>> /\ central[b].lock = t
      /\ th[t] \in Calls /\ th[t].span = NoSpan /\ th[t].rel = {} /\ t # NONE
      /\ \A d \in Classes \ {b} : central[d].lock # t
      /\ central \in [Classes -> Lists]
  BY <1>1 DEF EvictRandomSizeClass, IndInv, TypeOK, CallsOK, CallOK, Releasing, LocksHeld, Holds,
     CentralConstants
<1>3. CASE EvictFails(t) /\ UNCHANGED central
  <2>1. central[b] \in Lists
    BY <1>2
  <2>2. [central[b] EXCEPT !.lock = t] = central[b]
    BY <1>2, <2>1 DEF Lists
  <2>3. central' = [central EXCEPT ![b].lock = t]
    BY <1>2, <1>3, <2>2
  <2>4. QED
    BY <1>1, <1>2, <1>3, <2>3, EvictFailsKeeps
<1>4. ASSUME NEW c \in Classes, c # b, central' = [central EXCEPT ![b].lock = NONE],
             th' = [th EXCEPT ![t].pc = "shrink", ![t].rc = c]
      PROVE  IndInv'
  <2>1. [th[t] EXCEPT !.pc = "shrink", !.rc = c] \in Calls
    BY <1>2 DEF Calls, Labels
  <2>2. th' = [th EXCEPT ![t] = [th[t] EXCEPT !.pc = "shrink", !.rc = c]]
    BY <1>4
  <2>3. /\ th' \in [Threads -> Calls] /\ \A u \in Threads \ {t} : th'[u] = th[u]
        /\ th'[t] = [th[t] EXCEPT !.pc = "shrink", !.rc = c]
    BY <2>1, <2>2, CallStep
  <2>4. /\ th'[t].pc = "shrink" /\ th'[t].cl = b /\ th'[t].chain = th[t].chain
        /\ th'[t].rel = {} /\ th'[t].rc = c /\ th'[t].span = NoSpan
    BY <1>1, <1>2, <2>3 DEF Calls
  <2>5. CallOK(t)'
    BY <1>4, <2>4 DEF CallOK, Inserting, Releasing
  <2>6. /\ central' \in [Classes -> Lists] /\ SlotsBounded' /\ central'[b].lock = NONE
        /\ \A d \in Classes : /\ central'[d].slots = central[d].slots
                              /\ central'[d].counter = central[d].counter
                              /\ central'[d].num_spans = central[d].num_spans
                              /\ d # b => central'[d].lock = central[d].lock
    BY <1>4, LockStep
  <2>7. TypeOK'
    BY <1>2, <2>3, <2>6 DEF IndInv, TypeOK
  <2>8. \A d \in Classes : /\ central'[d].lock = t <=> Holds(t, d)'
                           /\ \A u \in Threads \ {t} : central'[d].lock = u <=> central[d].lock = u
    BY <1>2, <2>4, <2>6 DEF Holds, CentralConstants
  <2>9. Quiet(t)
    BY <1>1, <1>2, <2>3, <2>4, <2>6, <2>8 DEF Quiet
  <2>10. QED
    BY <2>5, <2>6, <2>7, <2>9, QuietStep
<1>5. QED
  BY <1>1, <1>3, <1>4 DEF EvictRandomSizeClass

LEMMA NotEvictedKeeps ==
  ASSUME CentralConstants, IndInv, NEW t \in Threads, NotEvicted(t)
  PROVE  IndInv'
<1>1. \A d \in Classes : central[d].lock # t
  BY DEF NotEvicted, IndInv, LocksHeld, Holds
<1>2. QED
  BY <1>1, EvictFailsKeeps DEF NotEvicted, CanLock

LEMMA RelockKeeps ==
  ASSUME CentralConstants, IndInv, NEW t \in Threads, Relock(t)
  PROVE  IndInv'
<1>1. PICK c \in Classes : c = th[t].rc
  BY DEF Relock, IndInv, CallsOK, CallOK, Releasing
<1>2. /\ th[t].pc = "relock" /\ UNCHANGED <<span, owned>> /\ central[c].lock = NONE
      /\ th[t] \in Calls /\ th[t].span = NoSpan /\ t # NONE
      /\ th[t].cl \in Classes /\ (th[t].rc = th[t].cl => th[t].chain = {})
      /\ \A d \in Classes : central[d].lock # t
      /\ th' = [th EXCEPT ![t].pc = "release"] /\ central' = [central EXCEPT ![c].lock = t]
  BY <1>1 DEF Relock, CanLock, IndInv, TypeOK, CallsOK, CallOK, Releasing, LocksHeld, Holds,
     CentralConstants
<1>3. [th[t] EXCEPT !.pc = "release"] \in Calls
  BY <1>2 DEF Calls, Labels
<1>4. th' = [th EXCEPT ![t] = [th[t] EXCEPT !.pc = "release"]]
  BY <1>2
<1>5. /\ th' \in [Threads -> Calls] /\ \A u \in Threads \ {t} : th'[u] = th[u]
      /\ th'[t] = [th[t] EXCEPT !.pc = "release"]
  BY <1>3, <1>4, CallStep
<1>6. /\ th'[t].pc = "release" /\ th'[t].cl = th[t].cl /\ th'[t].chain = th[t].chain
      /\ th'[t].rel = th[t].rel /\ th'[t].rc = c /\ th'[t].span = NoSpan
  BY <1>1, <1>2, <1>5 DEF Calls
<1>7. CallOK(t)'
  BY <1>1, <1>2, <1>6 DEF CallOK, Inserting, Releasing
<1>8. /\ central' \in [Classes -> Lists] /\ SlotsBounded' /\ central'[c].lock = t
      /\ \A d \in Classes : /\ central'[d].slots = central[d].slots
                            /\ central'[d].counter = central[d].counter
                            /\ central'[d].num_spans = central[d].num_spans
                            /\ d # c => central'[d].lock = central[d].lock
  BY <1>2, LockStep
<1>9. TypeOK'
  BY <1>2, <1>5, <1>8 DEF IndInv, TypeOK
<1>10. \A d \in Classes : /\ central'[d].lock = t <=> Holds(t, d)'
                          /\ \A u \in Threads \ {t} : central'[d].lock = u <=> central[d].lock = u
  BY <1>2, <1>6, <1>8 DEF Holds, CentralConstants
<1>11. Quiet(t)
  BY <1>1, <1>2, <1>5, <1>6, <1>8, <1>10 DEF Quiet
<1>12. QED
  BY <1>7, <1>8, <1>9, <1>11, QuietStep

(* The last list of another cache is taken along for release.                 *)
Take(t, c) ==
  /\ UNCHANGED <<span, owned>>
  /\ th[t].pc = "shrink" /\ th[t].rc = c /\ central[c].lock = NONE
  /\ used_slots(c) > 0 /\ used_slots(c) = central[c].cache_size
  /\ central' = [central EXCEPT ![c].cache_size = @ - 1, ![c].lock = t,
                   ![c].slots = SubSeq(@, 1, Len(@) - 1)]
  /\ th' = [th EXCEPT ![t].pc = "release", ![t].rel = central[c].slots[used_slots(c)]]

LEMMA TakeSlotKeeps ==
  ASSUME CentralConstants, IndInv, NEW t \in Threads, NEW c \in Classes, Take(t, c)
  PROVE  IndInv'
<1> DEFINE X == central[c].slots[used_slots(c)]
           l == [central[c] EXCEPT !.cache_size = central[c].cache_size - 1, !.lock = t,
                   !.slots = SubSeq(central[c].slots, 1, Len(central[c].slots) - 1)]
           k == [th[t] EXCEPT !.pc = "release", !.rel = X]
<1>0. /\ th[t].pc = "shrink" /\ th[t].rc = c /\ central[c].lock = NONE /\ UNCHANGED <<span, owned>>
      /\ used_slots(c) > 0 /\ used_slots(c) = central[c].cache_size
  BY DEF Take
<1>1. /\ central[c] \in Lists /\ th[t] \in Calls /\ t # NONE /\ max_cache_size \in Nat
      /\ \A d \in Classes : central[d].lock # t
      /\ th[t].rel = {} /\ th[t].span = NoSpan /\ th[t].cl \in Classes /\ th[t].cl # c
      /\ Len(central[c].slots) = used_slots(c)
  BY <1>0, CallFacts, ClassFacts DEF CallOK, Holds, Releasing, used_slots
<1>2. /\ l.slots = SubSeq(central[c].slots, 1, used_slots(c) - 1) /\ l.lock = t
      /\ l.cache_size = central[c].cache_size - 1
      /\ l.counter = central[c].counter /\ l.num_spans = central[c].num_spans
  BY <1>1 DEF Lists
<1>3. central' = [central EXCEPT ![c] = l]
  BY DEF Take
<1>4. central'[c] = l /\ \A d \in Classes \ {c} : central'[d] = central[d]
  BY <1>3 DEF IndInv, TypeOK
<1>5. /\ used_slots(c) \in 1 .. max_cache_size /\ used_slots(c)' = used_slots(c) - 1
      /\ central'[c].slots \in Seq(SUBSET Objects)
      /\ \A i \in 1 .. used_slots(c)' : central'[c].slots[i] = central[c].slots[i]
      /\ X \in SUBSET Objects
  BY <1>0, <1>1, <1>2, <1>4, LastSlot
<1>6. /\ k \in Calls /\ k.pc = "release" /\ k.cl = th[t].cl /\ k.rc = c /\ k.chain = th[t].chain
      /\ k.rel = X /\ k.span = NoSpan
  BY <1>0, <1>1, <1>5 DEF Calls, Labels
<1>7. th' = [th EXCEPT ![t] = k]
  BY DEF Take
<1>8. th' \in [Threads -> Calls] /\ th'[t] = k /\ \A u \in Threads \ {t} : th'[u] = th[u]
  BY <1>6, <1>7, CallStep
<1> HIDE DEF l, k
<1>9. central' \in [Classes -> Lists]
  <2>1. central[c].cache_size - 1 \in 0 .. max_cache_size
    BY <1>0, <1>1, <1>5
  <2>2. l \in Lists
    BY <1>1, <1>2, <1>4, <1>5, <2>1 DEF Lists, l
  <2>3. QED
    BY <1>3, <2>2, ListStep
<1>10. TypeOK'
  BY <1>0, <1>8, <1>9 DEF IndInv, TypeOK
<1>11. LocksHeld'
  <2>1. \A d \in Classes : /\ central'[d].lock = t <=> Holds(t, d)'
                           /\ \A u \in Threads \ {t} : central'[d].lock = u <=> central[d].lock = u
    <3>1. \A d \in Classes : Holds(t, d)' <=> d = c
      BY <1>6, <1>8 DEF Holds
    <3>2. /\ central[c].lock \in {t, NONE} /\ central'[c].lock = t
          /\ \A d \in Classes \ {c} : central[d].lock # t /\ central'[d].lock = central[d].lock
      BY <1>0, <1>1, <1>2, <1>4
    <3>3. QED
      BY <3>1, <3>2, TakesLock
  <2>2. QED
    BY <1>8, <2>1, LocksFrame
<1>12. CallsOK'
  <2>1. CallOK(t)'
    BY <1>0, <1>1, <1>6, <1>8 DEF CallOK, Inserting, Releasing
  <2>2. QED
    BY <1>0, <1>6, <1>8, <2>1, CallsFrame
<1>13. SpansOK' /\ Counted' /\ LiveSpans' = LiveSpans
  BY <1>0, <1>2, <1>4, SpansFrame
<1>14. InClass'
  <2>1. Of(X, c)
    BY <1>0, <1>5 DEF IndInv, InClass
  <2>2. Of(th[t].chain, th[t].cl)' /\ Of(th[t].rel, th[t].rc)'
    BY <1>0, <1>6, <1>8, <1>13, <2>1 DEF Of, IndInv, InClass
  <2>3. \A u \in Threads \ {t} : Of(th[u].chain, th[u].cl)' /\ Of(th[u].rel, th[u].rc)'
    BY <1>0, <1>8, <1>13 DEF Of, IndInv, InClass
  <2>4. \A d \in Classes \ {c} : \A i \in 1 .. used_slots(d)' : Of(central[d].slots[i], d)'
    BY <1>0, <1>4, <1>13 DEF Of, IndInv, InClass, used_slots
  <2>5. \A i \in 1 .. used_slots(c)' : Of(central[c].slots[i], c)'
    <3>1. \A i \in 1 .. used_slots(c)' : i \in 1 .. used_slots(c)
      BY <1>5
    <3>2. \A i \in 1 .. used_slots(c) : Of(central[c].slots[i], c)
      BY DEF IndInv, InClass
    <3>3. \A i \in 1 .. used_slots(c)' : Of(central'[c].slots[i], c)
      BY <1>5, <3>1, <3>2
    <3>4. QED
      BY <1>0, <1>13, <3>3 DEF Of
  <2>6. QED
    BY <1>0, <1>13, <2>2, <2>3, <2>4, <2>5 DEF IndInv, InClass
<1>15. Disjoint' /\ Covered'
  <2>0. PICK i \in 1 .. max_cache_size : i = used_slots(c)
    BY <1>5
  <2> DEFINE p == <<"slot", c, i>>
             q == <<"rel", t, 0>>
  <2>1. p \in Place /\ q \in Place /\ p # q
    BY <2>0 DEF Place
  <2>2. Contents(q) = {} /\ Contents(q)' = th'[t].rel
    BY <1>1, ContentsOf
  <2>3. Contents(p) = central[c].slots[i] /\ Contents(p)' = {}
    <3>1. /\ Contents(p) = IF i <= used_slots(c) THEN central[c].slots[i] ELSE {}
          /\ Contents(p)' = IF i <= used_slots(c)' THEN central'[c].slots[i] ELSE {}
      BY ContentsOf
    <3>2. i <= used_slots(c) /\ ~(i <= used_slots(c)')
      BY <1>5, <2>0
    <3>3. QED
      BY <3>1, <3>2
  <2>4. \A r \in Place \ {p, q} : Contents(r)' = Contents(r)
    <3>1. ASSUME NEW r \in Place \ {p, q}, r[1] = "slot", r[2] = c PROVE Contents(r)' = Contents(r)
      <4>1. r[3] \in Nat /\ r[3] # i /\ r[3] >= 1
        BY <2>1, <3>1, PlaceForms, PlaceEqual
      <4>2. QED
        BY <1>5, <2>0, <3>1, <4>1 DEF Contents
    <3>2. ASSUME NEW r \in Place \ {p, q}, r[1] = "slot", r[2] # c PROVE Contents(r)' = Contents(r)
      BY <1>0, <1>4, <3>2, PlaceForms DEF Contents, used_slots
    <3>3. ASSUME NEW r \in Place \ {p, q}, r[1] # "slot" PROVE Contents(r)' = Contents(r)
      BY <1>0, <1>1, <1>6, <1>8, <3>3, <2>1, PlaceForms, PlaceEqual DEF Contents
    <3>4. QED
      BY <3>1, <3>2, <3>3
  <2>5. Contents(p) = th'[t].rel
    BY <1>6, <1>8, <2>0, <2>3
  <2>6. /\ Contents(p) \in SUBSET Contents(p) /\ Contents(p)' = Contents(p) \ Contents(p)
        /\ Contents(q)' = Contents(q) \cup Contents(p)
    BY <2>2, <2>3, <2>5
  <2>7. QED
    BY <2>1, <2>4, <2>6, MoveOne, <1>0, <1>13 DEF IndInv, Covered
<1>16. SlotsBounded'
  <2>1. \A d \in Classes \ {c} : used_slots(d)' = used_slots(d)
    BY <1>4 DEF used_slots
  <2>2. used_slots(c)' <= central'[c].cache_size /\ central'[c].cache_size \in 0 .. max_cache_size
    BY <1>0, <1>1, <1>2, <1>4, <1>5
  <2>3. QED
    BY <1>4, <2>1, <2>2 DEF IndInv, SlotsBounded
<1>17. QED
  BY <1>10, <1>11, <1>12, <1>13, <1>14, <1>15, <1>16 DEF IndInv

LEMMA ShrinkCacheKeeps ==
  ASSUME CentralConstants, IndInv, NEW t \in Threads, ShrinkCache(t)
  PROVE  IndInv'
<1>1. PICK c \in Classes : c = th[t].rc
  BY DEF ShrinkCache, IndInv, CallsOK, CallOK
<1>2. /\ th[t].pc = "shrink" /\ UNCHANGED <<span, owned>> /\ central[c].lock = NONE
      /\ th[t] \in Calls /\ th[t].span = NoSpan /\ th[t].rel = {} /\ th[t].cl \in Classes
      /\ \A d \in Classes : central[d].lock # t
      /\ central \in [Classes -> Lists] /\ central[c] \in Lists
      /\ max_cache_size \in Nat /\ used_slots(c) \in Nat /\ used_slots(c) <= central[c].cache_size
  <2>1. th[t].pc = "shrink" /\ UNCHANGED <<span, owned>> /\ central[c].lock = NONE
    BY <1>1 DEF ShrinkCache, CanLock
  <2>2. /\ th[t] \in Calls /\ th[t].span = NoSpan /\ th[t].rel = {} /\ th[t].cl \in Classes
        /\ \A d \in Classes : central[d].lock # t
    BY <2>1, CallFacts DEF CallOK, Releasing, Holds
  <2>3. central \in [Classes -> Lists]
    BY DEF IndInv, TypeOK
  <2>4. QED
    BY <2>1, <2>2, <2>3, ClassFacts
<1>3. ASSUME NEW pc \in {"notevicted", "evicted"}, th' = [th EXCEPT ![t].pc = pc],
             NEW n \in 0 .. max_cache_size, used_slots(c) <= n,
             central' = [central EXCEPT ![c].cache_size = n]
      PROVE  IndInv'
  <2> DEFINE k == [th[t] EXCEPT !.pc = pc]
             l == [central[c] EXCEPT !.cache_size = n]
  <2>1. k \in Calls /\ k.pc = pc /\ k.cl = th[t].cl /\ k.chain = th[t].chain
        /\ k.rel = {} /\ k.rc = th[t].rc /\ k.span = NoSpan
    BY <1>2, <1>3 DEF Calls, Labels
  <2>2. th' = [th EXCEPT ![t] = k]
    BY <1>3
  <2>3. /\ th' \in [Threads -> Calls] /\ \A u \in Threads \ {t} : th'[u] = th[u]
        /\ th'[t] = k
    BY <2>1, <2>2, CallStep
  <2>4. l \in Lists /\ l.slots = central[c].slots /\ l.lock = central[c].lock /\ l.cache_size = n
        /\ l.counter = central[c].counter /\ l.num_spans = central[c].num_spans
    BY <1>2, <1>3 DEF Lists
  <2>5. central' = [central EXCEPT ![c] = l]
    BY <1>3
  <2>6. /\ central' \in [Classes -> Lists] /\ central'[c] = l
        /\ \A d \in Classes \ {c} : central'[d] = central[d]
    BY <2>4, <2>5, ListStep
  <2> HIDE DEF k, l
  <2>7. CallOK(t)'
    BY <1>2, <1>3, <2>1, <2>3 DEF CallOK, Inserting, Releasing
  <2>8. TypeOK'
    BY <1>2, <2>3, <2>6 DEF IndInv, TypeOK
  <2>9. \A d \in Classes : /\ central'[d].slots = central[d].slots
                           /\ central'[d].counter = central[d].counter
                           /\ central'[d].num_spans = central[d].num_spans
                           /\ central'[d].lock = central[d].lock
    BY <2>4, <2>6
  <2>10. \A d \in Classes : ~Holds(t, d)'
    BY <1>3, <2>1, <2>3 DEF Holds
  <2>11. Quiet(t)
    BY <1>2, <2>1, <2>3, <2>9, <2>10 DEF Quiet
  <2>12. SlotsBounded'
    <3>1. used_slots(c)' <= central'[c].cache_size /\ central'[c].cache_size \in 0 .. max_cache_size
      BY <1>3, <2>4, <2>6 DEF used_slots
    <3>2. QED
      BY <2>6, <3>1 DEF IndInv, SlotsBounded, used_slots
  <2>13. QED
    BY <2>7, <2>8, <2>11, <2>12, QuietStep
<1>4. CASE th' = [th EXCEPT ![t].pc = "notevicted"] /\ UNCHANGED central
  <2>1. PICK n \in 0 .. max_cache_size : n = central[c].cache_size
    BY <1>2 DEF Lists
  <2>2. [central[c] EXCEPT !.cache_size = n] = central[c]
    BY <1>2, <2>1 DEF Lists
  <2>3. central' = [central EXCEPT ![c].cache_size = n]
    BY <1>2, <1>4, <2>2
  <2>4. QED
    BY <1>2, <1>3, <1>4, <2>1, <2>3
<1>5. CASE /\ central' = [central EXCEPT ![c].cache_size = @ - 1]
           /\ th' = [th EXCEPT ![t].pc = "evicted"]
           /\ central[c].cache_size # 0 /\ used_slots(c) # central[c].cache_size
  <2>1. /\ used_slots(c) <= central[c].cache_size - 1
        /\ central[c].cache_size - 1 \in 0 .. max_cache_size
    BY <1>2, <1>5 DEF Lists
  <2>2. QED
    BY <1>3, <1>5, <2>1
<1>6. CASE /\ central' = [central EXCEPT ![c].cache_size = @ - 1, ![c].lock = t,
                            ![c].slots = SubSeq(@, 1, Len(@) - 1)]
           /\ th' = [th EXCEPT ![t].pc = "release",
                               ![t].rel = central[c].slots[used_slots(c)]]
           /\ central[c].cache_size # 0 /\ used_slots(c) = central[c].cache_size
  <2>1. used_slots(c) > 0
    BY <1>2, <1>6
  <2>2. Take(t, c)
    BY <1>1, <1>2, <1>6, <2>1 DEF Take
  <2>3. QED
    BY <2>2, TakeSlotKeeps
<1>7. QED
  BY <1>1, <1>4, <1>5, <1>6 DEF ShrinkCache

LEMMA InverterBackKeeps ==
  ASSUME CentralConstants, IndInv, NEW t \in Threads, InverterBack(t)
  PROVE  IndInv'
<1>1. PICK c \in Classes : c = th[t].cl
  BY DEF InverterBack, IndInv, CallsOK, CallOK
<1>2. /\ th[t].pc = "evicted" /\ UNCHANGED <<span, owned>> /\ central[c].lock = NONE
      /\ th[t] \in Calls /\ \A d \in Classes : central[d].lock # t
      /\ central \in [Classes -> Lists] /\ central[c] \in Lists
      /\ max_cache_size \in Nat /\ used_slots(c) \in Nat /\ used_slots(c) <= central[c].cache_size
  <2>1. th[t].pc = "evicted" /\ UNCHANGED <<span, owned>> /\ central[c].lock = NONE
    BY <1>1 DEF InverterBack, CanLock
  <2>2. th[t] \in Calls /\ \A d \in Classes : central[d].lock # t
    BY <2>1, CallFacts DEF Holds
  <2>3. central \in [Classes -> Lists]
    BY DEF IndInv, TypeOK
  <2>4. QED
    BY <2>1, <2>2, <2>3, ClassFacts
<1>3. CASE /\ central[c].cache_size < max_cache_size
           /\ central' = [central EXCEPT ![c].cache_size = @ + 1,
                                         ![c].slots = Append(@, th[t].chain)]
           /\ th' = [th EXCEPT ![t] = Idle]
  <2> DEFINE l == [central[c] EXCEPT !.cache_size = central[c].cache_size + 1,
                                     !.slots = Append(central[c].slots, th[t].chain)]
  <2>1. /\ Append(central[c].slots, th[t].chain) \in Seq(SUBSET Objects)
        /\ central[c].cache_size + 1 \in 0 .. max_cache_size
    BY <1>2, <1>3 DEF Calls, Lists
  <2>2. /\ l \in Lists /\ l.slots = Append(central[c].slots, th[t].chain)
        /\ l.cache_size = central[c].cache_size + 1 /\ l.lock = central[c].lock
        /\ l.counter = central[c].counter /\ l.num_spans = central[c].num_spans
    BY <1>2, <2>1 DEF Lists
  <2>3. central' = [central EXCEPT ![c] = l]
    BY <1>3
  <2>4. /\ central' \in [Classes -> Lists] /\ central'[c] = l
        /\ \A d \in Classes \ {c} : central'[d] = central[d]
    BY <2>2, <2>3, ListStep
  <2>5. used_slots(c) < central[c].cache_size + 1
    BY <1>2 DEF Lists
  <2> HIDE DEF l
  <2>6. Put(t, c)
    BY <1>1, <1>2, <1>3, <2>2, <2>4, <2>5 DEF Put, Inserting
  <2>7. QED
    BY <2>6, PutKeeps
<1>4. CASE central' = [central EXCEPT ![c].lock = t] /\ ReleaseOwn(t)
  BY <1>1, <1>2, <1>4, ReleaseOwnKeeps DEF Inserting
<1>5. QED
  BY <1>1, <1>3, <1>4 DEF InverterBack

LEMMA ReleaseDoneKeeps ==
  ASSUME CentralConstants, IndInv, NEW t \in Threads, ReleaseDone(t)
  PROVE  IndInv'
<1>1. PICK c \in Classes : c = th[t].rc
  BY CallFacts DEF ReleaseDone, CallOK, Releasing
<1>2. /\ th[t].pc = "release" /\ th[t].rel = {} /\ UNCHANGED <<span, owned>>
      /\ central' = [central EXCEPT ![c].lock = NONE]
  BY <1>1 DEF ReleaseDone
<1>3. /\ th[t] \in Calls /\ th[t].span = NoSpan /\ t # NONE /\ th[t].cl \in Classes
      /\ (th[t].rc = th[t].cl => th[t].chain = {})
      /\ \A d \in Classes : central[d].lock = t <=> d = c
  BY <1>1, <1>2, CallFacts DEF CallOK, Releasing, Holds
<1>4. PICK k \in Calls :
        /\ th' = [th EXCEPT ![t] = k] /\ k.pc \in {"idle", "evicted"}
        /\ k.chain = th[t].chain /\ k.rel = {} /\ k.span = NoSpan
        /\ k.pc = "evicted" => k.cl = th[t].cl
        /\ k.pc = "idle" => k.chain = {}
  <2>1. CASE th[t].rc = th[t].cl
    <3>1. th' = [th EXCEPT ![t] = Idle]
      BY <2>1 DEF ReleaseDone
    <3>2. Idle.pc = "idle" /\ Idle.chain = {} /\ Idle.rel = {} /\ Idle.span = NoSpan
      BY DEF Idle
    <3>3. QED
      BY <1>3, <2>1, <3>1, <3>2, IdleTyped
  <2>2. CASE th[t].rc # th[t].cl
    <3> DEFINE k == [th[t] EXCEPT !.pc = "evicted"]
    <3>1. th' = [th EXCEPT ![t] = k]
      BY <2>2 DEF ReleaseDone
    <3>2. /\ k \in Calls /\ k.pc = "evicted" /\ k.chain = th[t].chain /\ k.rel = {}
          /\ k.span = NoSpan /\ k.cl = th[t].cl
      BY <1>2, <1>3 DEF Calls, Labels
    <3>3. QED
      BY <3>1, <3>2
  <2>3. QED
    BY <2>1, <2>2
<1>5. /\ th' \in [Threads -> Calls] /\ th'[t] = k /\ \A u \in Threads \ {t} : th'[u] = th[u]
  BY <1>4, CallStep
<1>6. CallOK(t)'
  BY <1>3, <1>4, <1>5 DEF CallOK, Inserting, Releasing
<1>7. /\ central' \in [Classes -> Lists] /\ SlotsBounded' /\ central'[c].lock = NONE
      /\ \A d \in Classes : /\ central'[d].slots = central[d].slots
                            /\ central'[d].counter = central[d].counter
                            /\ central'[d].num_spans = central[d].num_spans
                            /\ d # c => central'[d].lock = central[d].lock
  BY <1>2, LockStep
<1>8. TypeOK'
  BY <1>2, <1>5, <1>7 DEF IndInv, TypeOK
<1>9. \A d \in Classes : central'[d].lock # t /\ ~Holds(t, d)'
  BY <1>3, <1>4, <1>5, <1>7 DEF Holds
<1>10. \A d \in Classes, u \in Threads \ {t} : central'[d].lock = u <=> central[d].lock = u
  BY <1>3, <1>7 DEF CentralConstants
<1>11. Quiet(t)
  <2>1. th[t].chain # {} => th'[t].cl = th[t].cl
    BY <1>4, <1>5
  <2>2. QED
    BY <1>2, <1>3, <1>4, <1>5, <1>7, <1>9, <1>10, <2>1 DEF Quiet
<1>12. QED
  BY <1>6, <1>7, <1>8, <1>11, QuietStep

(* A whole list of the transfer cache goes to the caller.                     *)
Give(t, c) ==
  /\ th[t].pc = "remove" /\ th[t].cl = c /\ used_slots(c) > 0
  /\ owned' = [owned EXCEPT ![t] = @ \cup central[c].slots[used_slots(c)]]
  /\ central' = [central EXCEPT ![c].slots = SubSeq(@, 1, Len(@) - 1)]
  /\ th' = [th EXCEPT ![t] = Idle]
  /\ UNCHANGED span

LEMMA GiveSlotKeeps ==
  ASSUME CentralConstants, IndInv, NEW t \in Threads, NEW c \in Classes, Give(t, c)
  PROVE  IndInv'
<1> DEFINE X == central[c].slots[used_slots(c)]
           l == [central[c] EXCEPT !.slots = SubSeq(central[c].slots, 1, Len(central[c].slots) - 1)]
<1>0. th[t].pc = "remove" /\ th[t].cl = c /\ UNCHANGED span /\ used_slots(c) > 0
  BY DEF Give
<1>1. /\ central[c] \in Lists /\ th[t] \in Calls /\ t # NONE /\ max_cache_size \in Nat
      /\ \A d \in Classes : central[d].lock # t
      /\ th[t].rel = {} /\ th[t].chain = {} /\ th[t].span = NoSpan
      /\ Len(central[c].slots) = used_slots(c) /\ used_slots(c) <= central[c].cache_size
      /\ central[c].cache_size \in 0 .. max_cache_size
  BY <1>0, CallFacts, ClassFacts DEF CallOK, Holds, Releasing, Inserting, used_slots
<1>2. /\ l.slots = SubSeq(central[c].slots, 1, used_slots(c) - 1) /\ l.lock = central[c].lock
      /\ l.cache_size = central[c].cache_size
      /\ l.counter = central[c].counter /\ l.num_spans = central[c].num_spans
  BY <1>1 DEF Lists
<1>3. central' = [central EXCEPT ![c] = l]
  BY DEF Give
<1>4. central'[c] = l /\ \A d \in Classes \ {c} : central'[d] = central[d]
  BY <1>3 DEF IndInv, TypeOK
<1>5. /\ used_slots(c) \in 1 .. max_cache_size /\ used_slots(c)' = used_slots(c) - 1
      /\ central'[c].slots \in Seq(SUBSET Objects)
      /\ \A i \in 1 .. used_slots(c)' : central'[c].slots[i] = central[c].slots[i]
      /\ X \in SUBSET Objects
  BY <1>0, <1>1, <1>2, <1>4, LastSlot
<1>6. /\ Idle.pc = "idle" /\ Idle.chain = {} /\ Idle.rel = {} /\ Idle.span = NoSpan
  BY DEF Idle
<1>7. th' \in [Threads -> Calls] /\ th'[t] = Idle /\ \A u \in Threads \ {t} : th'[u] = th[u]
  BY IdleTyped, CallStep DEF Give
<1>8. /\ owned' \in [Threads -> SUBSET Objects] /\ owned'[t] = owned[t] \cup X
      /\ \A u \in Threads \ {t} : owned'[u] = owned[u]
  BY <1>5 DEF Give, IndInv, TypeOK
<1> HIDE DEF l
<1>9. central' \in [Classes -> Lists]
  <2>1. l \in Lists
    BY <1>1, <1>2, <1>4, <1>5 DEF Lists, l
  <2>2. QED
    BY <1>3, <2>1, ListStep
<1>10. TypeOK'
  BY <1>0, <1>7, <1>8, <1>9 DEF IndInv, TypeOK
<1>11. LocksHeld'
  <2>1. \A d \in Classes : central'[d].lock = central[d].lock /\ ~Holds(t, d)'
    BY <1>2, <1>4, <1>6, <1>7 DEF Holds
  <2>2. QED
    BY <1>1, <1>7, <2>1, LocksFrame
<1>12. CallsOK'
  <2>1. CallOK(t)'
    BY <1>6, <1>7 DEF CallOK, Inserting, Releasing
  <2>2. QED
    BY <1>0, <1>6, <1>7, <2>1, CallsFrame
<1>13. SpansOK' /\ Counted' /\ LiveSpans' = LiveSpans
  BY <1>0, <1>2, <1>4, SpansFrame
<1>14. InClass'
  <2>1. Of(X, c)
    BY <1>5 DEF IndInv, InClass
  <2>2. \A u \in Threads : \A o \in owned'[u] : o[1] \in LiveSpans
    BY <1>8, <2>1 DEF Of, IndInv, InClass
  <2>3. \A u \in Threads : Of(th[u].chain, th[u].cl)' /\ Of(th[u].rel, th[u].rc)'
    BY <1>0, <1>6, <1>7, <1>13 DEF Of, IndInv, InClass
  <2>4. \A d \in Classes \ {c} : \A i \in 1 .. used_slots(d)' : Of(central[d].slots[i], d)'
    BY <1>0, <1>4, <1>13 DEF Of, IndInv, InClass, used_slots
  <2>5. \A i \in 1 .. used_slots(c)' : Of(central[c].slots[i], c)'
    <3>1. \A i \in 1 .. used_slots(c)' : i \in 1 .. used_slots(c)
      BY <1>5
    <3>2. \A i \in 1 .. used_slots(c) : Of(central[c].slots[i], c)
      BY DEF IndInv, InClass
    <3>3. \A i \in 1 .. used_slots(c)' : Of(central'[c].slots[i], c)
      BY <1>5, <3>1, <3>2
    <3>4. QED
      BY <1>0, <1>13, <3>3 DEF Of
  <2>6. QED
    BY <1>0, <1>13, <2>2, <2>3, <2>4, <2>5 DEF IndInv, InClass
<1>15. Disjoint' /\ Covered'
  <2>0. PICK i \in 1 .. max_cache_size : i = used_slots(c)
    BY <1>5
  <2> DEFINE p == <<"slot", c, i>>
             q == <<"owned", t, 0>>
  <2>1. p \in Place /\ q \in Place /\ p # q
    BY <2>0 DEF Place
  <2>2. Contents(q) = owned[t] /\ Contents(q)' = owned'[t]
    BY ContentsOf
  <2>3. Contents(p) = central[c].slots[i] /\ Contents(p)' = {}
    <3>1. /\ Contents(p) = IF i <= used_slots(c) THEN central[c].slots[i] ELSE {}
          /\ Contents(p)' = IF i <= used_slots(c)' THEN central'[c].slots[i] ELSE {}
      BY ContentsOf
    <3>2. i <= used_slots(c) /\ ~(i <= used_slots(c)')
      BY <1>5, <2>0
    <3>3. QED
      BY <3>1, <3>2
  <2>4. \A r \in Place \ {p, q} : Contents(r)' = Contents(r)
    <3>1. ASSUME NEW r \in Place \ {p, q}, r[1] = "slot", r[2] = c PROVE Contents(r)' = Contents(r)
      <4>1. r[3] \in Nat /\ r[3] # i /\ r[3] >= 1
        BY <2>1, <3>1, PlaceForms, PlaceEqual
      <4>2. QED
        BY <1>5, <2>0, <3>1, <4>1 DEF Contents
    <3>2. ASSUME NEW r \in Place \ {p, q}, r[1] = "slot", r[2] # c PROVE Contents(r)' = Contents(r)
      BY <1>4, <3>2, PlaceForms DEF Contents, used_slots
    <3>3. ASSUME NEW r \in Place \ {p, q}, r[1] # "slot" PROVE Contents(r)' = Contents(r)
      BY <1>0, <1>1, <1>6, <1>7, <1>8, <3>3, <2>1, PlaceForms, PlaceEqual DEF Contents
    <3>4. QED
      BY <3>1, <3>2, <3>3
  <2>5. Contents(q)' = Contents(q) \cup Contents(p)
    BY <1>8, <2>0, <2>2, <2>3
  <2>6. Contents(p) \in SUBSET Contents(p) /\ Contents(p)' = Contents(p) \ Contents(p)
    BY <2>3
  <2>7. QED
    BY <2>1, <2>4, <2>5, <2>6, MoveOne, <1>0, <1>13 DEF IndInv, Covered
<1>16. SlotsBounded'
  <2>1. \A d \in Classes \ {c} : used_slots(d)' = used_slots(d)
    BY <1>4 DEF used_slots
  <2>2. used_slots(c)' <= central'[c].cache_size /\ central'[c].cache_size \in 0 .. max_cache_size
    BY <1>0, <1>1, <1>2, <1>4, <1>5
  <2>3. QED
    BY <1>4, <2>1, <2>2 DEF IndInv, SlotsBounded
<1>17. QED
  BY <1>10, <1>11, <1>12, <1>13, <1>14, <1>15, <1>16 DEF IndInv

-----------------------------------------------------------------------------
(* FetchFromSpans works on the spans as they are, or with the span that       *)
(* Populate has just listed: sp and cent are what it finds.                   *)
Listed(sp) == {s \in Spans : sp[s].list \in {"nonempty", "empty"}}

Fetching(t, c, sp, cent) ==
  /\ th[t].pc \in {"remove", "populated"} /\ th[t].cl = c /\ central[c].lock = NONE
  /\ \A s \in Spans :
       /\ sp[s].cl = span[s].cl /\ sp[s].free = span[s].free
       /\ sp[s].list # span[s].list =>
            s = th[t].span /\ span[s].list = "new" /\ sp[s].list = "nonempty"
       /\ s \in Listed(sp) => /\ sp[s].refcount = ObjectsPerSpan - Cardinality(sp[s].free)
                              /\ sp[s].list = "nonempty" <=> sp[s].free # {}
       /\ s \notin Listed(sp) => sp[s].refcount = span[s].refcount
  /\ \A d \in Classes :
       /\ cent[d].lock = central[d].lock /\ cent[d].slots = central[d].slots
       /\ cent[d].cache_size = central[d].cache_size
       /\ cent[d].counter = Cardinality(FreeObjects(sp, d))
       /\ cent[d].num_spans = Cardinality({s \in Listed(sp) : sp[s].cl = d})

LEMMA FreeObjectsFacts ==
  ASSUME CentralConstants, NEW sp \in [Spans -> Descriptors], NEW c \in Classes,
         \A s \in Spans : sp[s].free \subseteq ObjectsOf(s)
  PROVE  /\ FreeObjects(sp, c) \subseteq Objects /\ IsFiniteSet(FreeObjects(sp, c))
         /\ \A o : o \in FreeObjects(sp, c) <=>
              /\ o \in Objects /\ o \in sp[o[1]].free
              /\ sp[o[1]].cl = c /\ sp[o[1]].list = "nonempty"
<1>1. ASSUME NEW o, o \in FreeObjects(sp, c)
      PROVE  /\ o \in Objects /\ o \in sp[o[1]].free
             /\ sp[o[1]].cl = c /\ sp[o[1]].list = "nonempty"
  <2>1. PICK s \in Spans : sp[s].cl = c /\ sp[s].list = "nonempty" /\ o \in sp[s].free
    BY <1>1 DEF FreeObjects
  <2>2. o \in ObjectsOf(s) /\ o \in Objects
    BY <2>1, ObjectFacts
  <2>3. o[1] = s
    BY <2>2, ObjectFacts
  <2>4. QED
    BY <2>1, <2>2, <2>3
<1>2. ASSUME NEW o \in Objects, o \in sp[o[1]].free, sp[o[1]].cl = c, sp[o[1]].list = "nonempty"
      PROVE  o \in FreeObjects(sp, c)
  BY <1>2, ObjectFacts DEF FreeObjects
<1>3. IsFiniteSet(FreeObjects(sp, c))
  BY <1>1, ObjectFacts, FS_Subset
<1>4. QED
  BY <1>1, <1>2, <1>3

LEMMA FetchedFacts ==
  ASSUME NEW d \in Descriptors, NEW got \in SUBSET d.free, IsFiniteSet(d.free),
         got # {} => d.list = "nonempty"
  PROVE  /\ Fetched(d, got) \in Descriptors
         /\ Fetched(d, got).cl = d.cl
         /\ Fetched(d, got).free = d.free \ got
         /\ Fetched(d, got).refcount = d.refcount + Cardinality(got)
         /\ Fetched(d, got).list = IF got # {} /\ d.free = got THEN "empty" ELSE d.list
         /\ Cardinality(d.free \ got) = Cardinality(d.free) - Cardinality(got)
         /\ Cardinality(got) \in Nat /\ Cardinality(d.free) \in Nat
<1>1. IsFiniteSet(got) /\ Cardinality({}) = 0
  BY FS_Subset, FS_EmptySet
<1>2. Cardinality(got) \in Nat /\ Cardinality(d.free) \in Nat
  BY <1>1, FS_CardinalityType
<1>3. Cardinality(d.free \ got) = Cardinality(d.free) - Cardinality(got)
  <2>1. d.free \cap got = got
    OBVIOUS
  <2>2. Cardinality(d.free \ got) = Cardinality(d.free) - Cardinality(d.free \cap got)
    BY FS_Difference
  <2>3. QED
    BY <2>1, <2>2
<1>4. CASE got = {}
  <2>1. Fetched(d, got) = d /\ d.free \ got = d.free /\ d.refcount \in Int
    BY <1>4 DEF Fetched, Descriptors
  <2>2. QED
    BY <1>1, <1>2, <1>3, <1>4, <2>1
<1>5. CASE got # {}
  <2> DEFINE n == Cardinality(got)
             l == IF d.free = got THEN "empty" ELSE d.list
             f == d.free \ got
             m == d.refcount + n
  <2>1. Fetched(d, got) = [d EXCEPT !.free = f, !.refcount = m, !.list = l]
    BY <1>5 DEF Fetched
  <2>2. /\ m \in Int /\ l \in {"heap", "new", "nonempty", "empty", "dead"}
        /\ f \in SUBSET Objects
    BY <1>2 DEF Descriptors
  <2>3. l = IF got # {} /\ d.free = got THEN "empty" ELSE d.list
    BY <1>5
  <2> HIDE DEF n, l, f, m
  <2>4. /\ Fetched(d, got) \in Descriptors /\ Fetched(d, got).cl = d.cl
        /\ Fetched(d, got).free = f /\ Fetched(d, got).refcount = m /\ Fetched(d, got).list = l
    BY <2>1, <2>2 DEF Descriptors
  <2>5. QED
    BY <1>2, <1>3, <2>3, <2>4 DEF n, f, m
<1>6. QED
  BY <1>4, <1>5

LEMMA FetchSpans ==
  ASSUME CentralConstants, IndInv, NEW t \in Threads, NEW c \in Classes,
         NEW sp \in [Spans -> Descriptors], NEW cent, Fetching(t, c, sp, cent),
         NEW objs \in SUBSET FreeObjects(sp, c),
         span' = [s \in Spans |-> Fetched(sp[s], objs \cap ObjectsOf(s))]
  PROVE  /\ \A s \in Spans : /\ span'[s] \in Descriptors
                             /\ span'[s].cl = span[s].cl /\ span'[s].free = span[s].free \ objs
                             /\ s \in Listed(span)' <=> s \in Listed(sp)
                             /\ s \notin Listed(sp) => span'[s].list = span[s].list
                             /\ SpanOK(s)'
         /\ FreeObjects(span, c)' = FreeObjects(sp, c) \ objs
         /\ \A d \in Classes \ {c} : FreeObjects(span, d)' = FreeObjects(sp, d)
         /\ \A o \in objs : o \in Objects /\ o \in span[o[1]].free /\ span[o[1]].cl = c
                            /\ o[1] \in Listed(sp)
<1>1. \A s \in Spans : /\ sp[s].free \subseteq ObjectsOf(s) /\ SpanOK(s)
                       /\ sp[s].free = span[s].free /\ sp[s].cl = span[s].cl
  BY DEF IndInv, SpansOK, SpanOK, Fetching
<1>2. \A o \in objs : /\ o \in Objects /\ o \in sp[o[1]].free
                      /\ sp[o[1]].cl = c /\ sp[o[1]].list = "nonempty"
  BY <1>1, FreeObjectsFacts
<1>3. ASSUME NEW s \in Spans, NEW got, got = objs \cap ObjectsOf(s)
      PROVE  /\ sp[s].free \ got = sp[s].free \ objs
             /\ got # {} => sp[s].list = "nonempty" /\ sp[s].cl = c
             /\ got \in SUBSET sp[s].free
             /\ IsFiniteSet(sp[s].free)
  <2>1. sp[s].free \ got = sp[s].free \ objs
    BY <1>1, <1>3
  <2>2. \A o \in got : o[1] = s /\ o \in objs
    BY <1>2, <1>3, ObjectFacts
  <2>3. (got # {} => sp[s].list = "nonempty" /\ sp[s].cl = c) /\ got \in SUBSET sp[s].free
    BY <1>2, <2>2
  <2>4. IsFiniteSet(sp[s].free)
    BY <1>1, ObjectFacts, FS_Subset
  <2>5. QED
    BY <2>1, <2>3, <2>4
<1>4. ASSUME NEW s \in Spans
      PROVE  /\ span'[s] \in Descriptors
             /\ span'[s].cl = span[s].cl /\ span'[s].free = span[s].free \ objs
             /\ s \in Listed(span)' <=> s \in Listed(sp)
             /\ s \notin Listed(sp) => span'[s].list = span[s].list
             /\ SpanOK(s)'
             /\ sp[s].cl # c => span'[s].free = sp[s].free /\ span'[s].list = sp[s].list
             /\ sp[s].list = "nonempty" /\ span'[s].list # "nonempty" => sp[s].free \subseteq objs
             /\ sp[s].list # "nonempty" => span'[s].list # "nonempty"
  <2>1. PICK got : got = objs \cap ObjectsOf(s)
    OBVIOUS
  <2>2. PICK n : n = Cardinality(got)
    OBVIOUS
  <2>3. span'[s] = Fetched(sp[s], got)
    BY <2>1
  <2>4. /\ sp[s].free \ got = sp[s].free \ objs
        /\ got # {} => sp[s].list = "nonempty" /\ sp[s].cl = c
        /\ got \in SUBSET sp[s].free
        /\ IsFiniteSet(sp[s].free)
    BY <1>3, <2>1
  <2>5. /\ span'[s] \in Descriptors /\ span'[s].cl = sp[s].cl
        /\ span'[s].free = sp[s].free \ got
        /\ span'[s].refcount = sp[s].refcount + n
        /\ span'[s].list = IF got # {} /\ sp[s].free = got THEN "empty" ELSE sp[s].list
        /\ Cardinality(sp[s].free \ got) = Cardinality(sp[s].free) - n
        /\ n \in Nat /\ Cardinality(sp[s].free) \in Nat
    <3>1. sp[s] \in Descriptors
      OBVIOUS
    <3>2. PICK d \in Descriptors : d = sp[s]
      BY <3>1
    <3>3. got \in SUBSET d.free /\ IsFiniteSet(d.free) /\ (got # {} => d.list = "nonempty")
      BY <2>4, <3>2
    <3>4. /\ Fetched(d, got) \in Descriptors /\ Fetched(d, got).cl = d.cl
          /\ Fetched(d, got).free = d.free \ got
          /\ Fetched(d, got).refcount = d.refcount + Cardinality(got)
          /\ Fetched(d, got).list = IF got # {} /\ d.free = got THEN "empty" ELSE d.list
          /\ Cardinality(d.free \ got) = Cardinality(d.free) - Cardinality(got)
          /\ Cardinality(got) \in Nat /\ Cardinality(d.free) \in Nat
      BY <3>3, FetchedFacts
    <3>5. QED
      BY <2>2, <2>3, <3>2, <3>4
  <2>6. got = {} => n = 0
    BY <2>2, FS_EmptySet
  <2>7. s \in Listed(span)' <=> s \in Listed(sp)
    BY <2>4, <2>5 DEF Listed
  <2>8. s \notin Listed(sp) => /\ got = {} /\ sp[s].list = span[s].list
                               /\ sp[s].refcount = span[s].refcount
    BY <2>4 DEF Listed, Fetching
  <2>9. SpanOK(s)'
    <3>1. span'[s].free \subseteq ObjectsOf(s)' /\ ObjectsPerSpan \in Nat
      BY <1>1, <2>5, ObjectFacts DEF ObjectsOf
    <3>2. CASE s \in Listed(sp)
      <4>1. /\ sp[s].refcount = ObjectsPerSpan - Cardinality(sp[s].free)
            /\ sp[s].list = "nonempty" <=> sp[s].free # {}
            /\ span'[s].list \in {"nonempty", "empty"}
        BY <2>7, <3>2 DEF Fetching, Listed
      <4>2. span'[s].refcount = ObjectsPerSpan - Cardinality(span'[s].free)
        <5>1. /\ span'[s].refcount = sp[s].refcount + n
              /\ sp[s].refcount = ObjectsPerSpan - Cardinality(sp[s].free)
              /\ Cardinality(span'[s].free) = Cardinality(sp[s].free) - n
              /\ n \in Nat /\ Cardinality(sp[s].free) \in Nat
          BY <2>5, <4>1
        <5>2. QED
          BY <3>1, <5>1
      <4>3. span'[s].list = "nonempty" <=> span'[s].free # {}
        BY <2>4, <2>5, <4>1
      <4>4. QED
        BY <3>1, <4>1, <4>2, <4>3 DEF SpanOK
    <3>3. CASE s \notin Listed(sp)
      <4>1. /\ span'[s].list = span[s].list /\ span'[s].free = span[s].free
            /\ span'[s].refcount = span[s].refcount
        <5>1. got = {} /\ n = 0 /\ sp[s].refcount \in Int
          BY <2>6, <2>8, <3>3 DEF Descriptors
        <5>2. /\ sp[s].list = span[s].list /\ sp[s].free = span[s].free
              /\ sp[s].refcount = span[s].refcount
          BY <1>1, <2>8, <3>3
        <5>3. /\ span'[s].list = sp[s].list /\ span'[s].free = sp[s].free \ {}
              /\ span'[s].refcount = sp[s].refcount + 0
          BY <2>5, <5>1
        <5>4. QED
          BY <5>1, <5>2, <5>3
      <4>2. span'[s].list \notin {"nonempty", "empty"}
        BY <2>7, <3>3 DEF Listed
      <4>3. QED
        BY <1>1, <3>1, <4>1, <4>2 DEF SpanOK, ObjectsOf
    <3>4. QED
      BY <3>2, <3>3
  <2>10. QED
    BY <1>1, <2>4, <2>5, <2>7, <2>8, <2>9
<1>5. \A s \in Spans : span'[s].free \subseteq ObjectsOf(s)
  BY <1>1, <1>4
<1>6. ASSUME NEW d \in Classes, NEW o
      PROVE  o \in FreeObjects(span, d)' <=> o \in FreeObjects(sp, d) /\ (d = c => o \notin objs)
  <2>0. PICK sq \in [Spans -> Descriptors] : sq = span'
    BY <1>4
  <2>1. o \in FreeObjects(sq, d) <=>
          /\ o \in Objects /\ o \in sq[o[1]].free
          /\ sq[o[1]].cl = d /\ sq[o[1]].list = "nonempty"
    <3>1. \A s \in Spans : sq[s].free \subseteq ObjectsOf(s)
      BY <1>5, <2>0
    <3>2. QED
      BY <3>1, FreeObjectsFacts
  <2>2. o \in FreeObjects(sp, d) <=>
          /\ o \in Objects /\ o \in sp[o[1]].free
          /\ sp[o[1]].cl = d /\ sp[o[1]].list = "nonempty"
    BY <1>1, FreeObjectsFacts
  <2>3. FreeObjects(span, d)' = FreeObjects(sq, d)
    BY <2>0 DEF FreeObjects
  <2>4. ASSUME o \in Objects, NEW s \in Spans, s = o[1]
        PROVE  /\ sq[s].cl = sp[s].cl /\ sq[s].free = sp[s].free \ objs
               /\ sp[s].cl # c => sq[s].free = sp[s].free /\ sq[s].list = sp[s].list
               /\ sp[s].list = "nonempty" /\ sq[s].list # "nonempty" => sp[s].free \subseteq objs
               /\ sp[s].list # "nonempty" => sq[s].list # "nonempty"
    BY <1>1, <1>4, <2>0
  <2>5. QED
    BY <2>1, <2>2, <2>3, <2>4, ObjectFacts
<1>7. FreeObjects(span, c)' = FreeObjects(sp, c) \ objs
  BY <1>6
<1>8. \A d \in Classes \ {c} : FreeObjects(span, d)' = FreeObjects(sp, d)
  BY <1>6
<1>9. \A o \in objs : o \in Objects /\ o \in span[o[1]].free /\ span[o[1]].cl = c
                      /\ o[1] \in Listed(sp)
  BY <1>1, <1>2, ObjectFacts DEF Listed
<1>10. QED
  BY <1>4, <1>7, <1>8, <1>9

LEMMA FetchKeeps ==
  ASSUME CentralConstants, IndInv, NEW t \in Threads, NEW c \in Classes,
         NEW sp \in [Spans -> Descriptors], NEW cent \in [Classes -> Lists],
         Fetching(t, c, sp, cent), Fetch(t, c, sp, cent)
  PROVE  IndInv'
<1>1. PICK objs \in SUBSET FreeObjects(sp, c) :
        /\ span' = [s \in Spans |-> Fetched(sp[s], objs \cap ObjectsOf(s))]
        /\ central' = [cent EXCEPT ![c].counter = @ - Cardinality(objs), ![c].lock = NONE]
        /\ owned' = [owned EXCEPT ![t] = @ \cup objs]
        /\ th' = [th EXCEPT ![t] = Idle]
  BY DEF Fetch
<1>2. /\ \A s \in Spans : /\ span'[s] \in Descriptors
                          /\ span'[s].cl = span[s].cl /\ span'[s].free = span[s].free \ objs
                          /\ s \in Listed(span)' <=> s \in Listed(sp)
                          /\ s \notin Listed(sp) => span'[s].list = span[s].list
                          /\ SpanOK(s)'
      /\ FreeObjects(span, c)' = FreeObjects(sp, c) \ objs
      /\ \A d \in Classes \ {c} : FreeObjects(span, d)' = FreeObjects(sp, d)
      /\ \A o \in objs : o \in Objects /\ o \in span[o[1]].free /\ span[o[1]].cl = c
                         /\ o[1] \in Listed(sp)
  BY <1>1, FetchSpans
<1>3. /\ th[t].pc \in {"remove", "populated"} /\ th[t].cl = c /\ central[c].lock = NONE
      /\ t # NONE /\ th[t].chain = {} /\ th[t].rel = {}
      /\ \A d \in Classes : central[d].lock # t
  BY CallFacts DEF Fetching, CallOK, Inserting, Releasing, Holds
<1>4. \A s \in Spans : s \in Listed(sp) <=>
        s \in LiveSpans \/ (s = th[t].span /\ span[s].list = "new" /\ sp[s].list = "nonempty")
  BY DEF Fetching, Listed, LiveSpans
<1>5. /\ Idle.pc = "idle" /\ Idle.chain = {} /\ Idle.rel = {} /\ Idle.span = NoSpan
  BY DEF Idle
<1>6. th' \in [Threads -> Calls] /\ th'[t] = Idle /\ \A u \in Threads \ {t} : th'[u] = th[u]
  BY <1>1, IdleTyped, CallStep
<1>7. /\ owned' \in [Threads -> SUBSET Objects] /\ owned'[t] = owned[t] \cup objs
      /\ \A u \in Threads \ {t} : owned'[u] = owned[u]
  BY <1>1, <1>2 DEF IndInv, TypeOK
<1>8. IsFiniteSet(FreeObjects(sp, c)) /\ IsFiniteSet(objs) /\ Cardinality(objs) \in Nat
  <2>1. \A s \in Spans : sp[s].free \subseteq ObjectsOf(s)
    BY DEF Fetching, IndInv, SpansOK, SpanOK
  <2>2. IsFiniteSet(FreeObjects(sp, c))
    BY <2>1, FreeObjectsFacts
  <2>3. QED
    BY <2>2, FS_Subset, FS_CardinalityType
<1>9. /\ central' \in [Classes -> Lists]
      /\ \A d \in Classes : /\ central'[d].slots = central[d].slots
                            /\ central'[d].cache_size = central[d].cache_size
                            /\ central'[d].num_spans = cent[d].num_spans
                            /\ central'[d].lock = central[d].lock
                            /\ d # c => central'[d].counter = cent[d].counter
      /\ central'[c].counter = cent[c].counter - Cardinality(objs)
  <2> DEFINE m == cent[c].counter - Cardinality(objs)
             l == [cent[c] EXCEPT !.counter = m, !.lock = NONE]
  <2>1. central' = [cent EXCEPT ![c] = l]
    BY <1>1
  <2>2. m \in Int
    BY <1>8 DEF Lists
  <2> HIDE DEF m
  <2>3. /\ l \in Lists /\ l.slots = cent[c].slots /\ l.cache_size = cent[c].cache_size
        /\ l.num_spans = cent[c].num_spans /\ l.lock = NONE /\ l.counter = m
    BY <2>2 DEF Lists
  <2> HIDE DEF l
  <2>4. /\ central' \in [Classes -> Lists] /\ central'[c] = l
        /\ \A d \in Classes \ {c} : central'[d] = cent[d]
    BY <2>1, <2>3
  <2>5. \A d \in Classes : /\ cent[d].lock = central[d].lock /\ cent[d].slots = central[d].slots
                           /\ cent[d].cache_size = central[d].cache_size
    BY DEF Fetching
  <2>6. QED
    BY <1>3, <2>3, <2>4, <2>5 DEF m
<1>10. TypeOK'
  <2>1. span' \in [Spans -> Descriptors]
    BY <1>1, <1>2
  <2>2. QED
    BY <1>6, <1>7, <1>9, <2>1 DEF TypeOK
<1>11. LocksHeld'
  <2>1. \A d \in Classes : ~Holds(t, d)'
    BY <1>5, <1>6 DEF Holds
  <2>2. QED
    BY <1>3, <1>6, <1>9, <2>1, LocksFrame
<1>12. CallsOK'
  <2>1. CallOK(t)'
    BY <1>5, <1>6 DEF CallOK, Inserting, Releasing
  <2>2. \A s \in Spans : s # th[t].span /\ span[s].list \in {"dead", "new"}
                           => span'[s].list = span[s].list /\ span'[s].cl = span[s].cl
    BY <1>2, <1>4 DEF LiveSpans
  <2>3. QED
    BY <1>5, <1>6, <2>1, <2>2, CallsFrame
<1>13. SpansOK'
  BY <1>2 DEF SpansOK
<1>14. Counted'
  <2>1. ASSUME NEW d \in Classes
        PROVE  {s \in LiveSpans : span[s].cl = d}' = {s \in Listed(sp) : sp[s].cl = d}
    <3>1. LiveSpans' = Listed(sp)
      BY <1>2 DEF LiveSpans, Listed
    <3>2. \A s \in Listed(sp) : span'[s].cl = sp[s].cl
      BY <1>2 DEF Fetching, Listed
    <3>3. QED
      BY <3>1, <3>2
  <2>2. \A d \in Classes : /\ cent[d].counter = Cardinality(FreeObjects(sp, d))
                           /\ cent[d].num_spans = Cardinality({s \in Listed(sp) : sp[s].cl = d})
    BY DEF Fetching
  <2>3. Cardinality(FreeObjects(sp, c) \ objs)
          = Cardinality(FreeObjects(sp, c)) - Cardinality(objs)
    <3>1. FreeObjects(sp, c) \cap objs = objs
      OBVIOUS
    <3>2. QED
      BY <1>8, <3>1, FS_Difference
  <2>4. \A d \in Classes : central'[d].counter = Cardinality(FreeObjects(span, d)')
    BY <1>2, <1>9, <2>2, <2>3
  <2>5. \A d \in Classes : central'[d].num_spans = Cardinality({s \in LiveSpans : span[s].cl = d}')
    BY <1>9, <2>1, <2>2
  <2>6. QED
    BY <2>4, <2>5 DEF Counted
<1>15. LiveSpans \subseteq LiveSpans' /\ \A o \in objs : o[1] \in LiveSpans'
  BY <1>2, <1>4 DEF LiveSpans, Listed
<1>16. InClass'
  <2>1. ASSUME NEW objects, NEW d, Of(objects, d)
        PROVE  \A o \in objects : o[1] \in LiveSpans' /\ span'[o[1]].cl = d
    BY <1>2, <1>15, <2>1 DEF Of, LiveSpans
  <2>2. \A u \in Threads : \A o \in owned'[u] : o[1] \in LiveSpans'
    BY <1>7, <1>15 DEF IndInv, InClass
  <2>3. ASSUME NEW u \in Threads PROVE Of(th[u].chain, th[u].cl)' /\ Of(th[u].rel, th[u].rc)'
    <3>1. CASE u = t
      BY <1>5, <1>6, <3>1 DEF Of
    <3>2. CASE u # t
      <4>1. th'[u] = th[u] /\ Of(th[u].chain, th[u].cl) /\ Of(th[u].rel, th[u].rc)
        BY <1>6, <3>2 DEF IndInv, InClass
      <4>2. /\ \A o \in th[u].chain : o[1] \in LiveSpans' /\ span'[o[1]].cl = th[u].cl
            /\ \A o \in th[u].rel : o[1] \in LiveSpans' /\ span'[o[1]].cl = th[u].rc
        BY <2>1, <4>1
      <4>3. QED
        BY <4>1, <4>2 DEF Of
    <3>3. QED
      BY <3>1, <3>2
  <2>5. ASSUME NEW d \in Classes, NEW i \in 1 .. used_slots(d)'
        PROVE  Of(central[d].slots[i], d)'
    <3>1. i \in 1 .. used_slots(d) /\ central'[d].slots = central[d].slots
      BY <1>9 DEF used_slots
    <3>2. Of(central[d].slots[i], d)
      BY <3>1 DEF IndInv, InClass
    <3>3. \A o \in central[d].slots[i] : o[1] \in LiveSpans' /\ span'[o[1]].cl = d
      BY <2>1, <3>2
    <3>4. QED
      BY <3>1, <3>3 DEF Of
  <2>6. QED
    BY <2>2, <2>3, <2>5 DEF InClass
<1>17. Disjoint' /\ Covered'
  <2> DEFINE q == <<"owned", t, 0>>
  <2>1. q \in Place
    BY DEF Place
  <2>2. Contents(q)' = Contents(q) \cup objs
    BY <1>7, ContentsOf
  <2>3. ASSUME NEW o \in objs PROVE <<"free", o[1], 0>> \in Place /\ o \in Contents(<<"free", o[1], 0>>)
    <3>1. o[1] \in Spans /\ o \in span[o[1]].free
      BY <1>2, ObjectFacts
    <3>2. <<"free", o[1], 0>> \in Place
      BY <3>1 DEF Place
    <3>3. QED
      BY <3>1, <3>2, ContentsOf
  <2>4. ASSUME NEW p \in Place, p[1] # "free" PROVE Contents(p) \cap objs = {}
    <3>1. SUFFICES ASSUME NEW o \in objs, o \in Contents(p) PROVE FALSE
      OBVIOUS
    <3>2. p # <<"free", o[1], 0>>
      BY <2>4
    <3>3. QED
      BY <2>3, <3>1, <3>2 DEF IndInv, Disjoint
  <2>5. ASSUME NEW p \in Place \ {q}, p[1] # "free" PROVE Contents(p)' = Contents(p)
    <3>1. CASE p[1] = "owned"
      <4>1. p[2] \in Threads /\ p[2] # t
        BY <2>1, <3>1, PlaceForms, PlaceEqual
      <4>2. QED
        BY <1>7, <3>1, <4>1 DEF Contents
    <3>2. CASE p[1] \in {"chain", "rel"}
      <4>1. p[2] \in Threads
        BY <3>2, PlaceForms
      <4>2. th'[p[2]].chain = th[p[2]].chain /\ th'[p[2]].rel = th[p[2]].rel
        BY <1>3, <1>5, <1>6, <4>1
      <4>3. QED
        BY <3>2, <4>2 DEF Contents
    <3>3. CASE p[1] = "slot"
      BY <1>9, <3>3, PlaceForms DEF Contents, used_slots
    <3>4. QED
      BY <2>5, <3>1, <3>2, <3>3, PlaceForms
  <2>6. \A p \in Place : p[1] = "free" => Contents(p)' = Contents(p) \ objs
    BY <1>2, PlaceForms DEF Contents
  <2>7. \A p \in Place \ {q} : Contents(p)' = Contents(p) \ objs
    BY <2>4, <2>5, <2>6
  <2>8. \A o \in objs : Somewhere(o)
    BY <2>3 DEF Somewhere
  <2>9. Disjoint' /\ \A o \in Objects : Somewhere(o)' <=> Somewhere(o)
    BY <2>1, <2>2, <2>7, <2>8, MoveKeeps DEF IndInv
  <2>10. \A s \in Spans : span'[s].list \in {"nonempty", "empty", "new"}
                            <=> span[s].list \in {"nonempty", "empty", "new"}
    BY <1>2, <1>4 DEF Listed, LiveSpans
  <2>11. QED
    BY <2>9, <2>10, ObjectFacts DEF IndInv, Covered
<1>18. SlotsBounded'
  BY <1>9 DEF IndInv, SlotsBounded, used_slots
<1>19. QED
  BY <1>10, <1>11, <1>12, <1>13, <1>14, <1>16, <1>17, <1>18 DEF IndInv

LEMMA RemoveLockedKeeps ==
  ASSUME CentralConstants, IndInv, NEW t \in Threads, RemoveLocked(t)
  PROVE  IndInv'
<1>1. PICK c \in Classes : c = th[t].cl
  BY CallFacts DEF RemoveLocked, CallOK
<1>2. /\ th[t].pc = "remove" /\ central[c].lock = NONE
      /\ th[t] \in Calls /\ th[t].span = NoSpan /\ th[t].chain = {} /\ th[t].rel = {}
      /\ \A d \in Classes : central[d].lock # t
  BY <1>1, CallFacts DEF RemoveLocked, CanLock, CallOK, Inserting, Releasing, Holds
<1>3. CASE Give(t, c)
  BY <1>3, GiveSlotKeeps
<1>4. CASE Fetch(t, c, span, central)
  <2>1. PICK sp \in [Spans -> Descriptors] : sp = span
    BY DEF IndInv, TypeOK
  <2>2. PICK cent \in [Classes -> Lists] : cent = central
    BY DEF IndInv, TypeOK
  <2>3. Listed(sp) = LiveSpans
    BY <2>1 DEF Listed, LiveSpans
  <2>4. Fetching(t, c, sp, cent)
    BY <1>1, <1>2, <2>1, <2>2, <2>3 DEF Fetching, IndInv, SpansOK, SpanOK, Counted, LiveSpans
  <2>5. Fetch(t, c, sp, cent)
    BY <1>4, <2>1, <2>2
  <2>6. QED
    BY <2>4, <2>5, FetchKeeps
<1>5. CASE th' = [th EXCEPT ![t].pc = "populate"] /\ UNCHANGED <<central, span, owned>>
  <2> DEFINE k == [th[t] EXCEPT !.pc = "populate"]
  <2>1. /\ k \in Calls /\ k.pc = "populate" /\ k.cl = c /\ k.chain = {} /\ k.rel = {}
        /\ k.span = NoSpan
    BY <1>1, <1>2 DEF Calls, Labels
  <2>2. th' = [th EXCEPT ![t] = k]
    BY <1>5
  <2>3. th' \in [Threads -> Calls] /\ th'[t] = k /\ \A u \in Threads \ {t} : th'[u] = th[u]
    BY <2>1, <2>2, CallStep
  <2> HIDE DEF k
  <2>4. TypeOK' /\ CallOK(t)' /\ SlotsBounded'
    <3>1. TypeOK'
      BY <1>5, <2>3 DEF IndInv, TypeOK
    <3>2. CallOK(t)'
      BY <2>1, <2>3 DEF CallOK, Inserting, Releasing
    <3>3. SlotsBounded'
      BY <1>5 DEF IndInv, SlotsBounded, used_slots
    <3>4. QED
      BY <3>1, <3>2, <3>3
  <2>5. \A d \in Classes : ~Holds(t, d)'
    BY <2>1, <2>3 DEF Holds
  <2>6. Quiet(t)
    BY <1>2, <1>5, <2>1, <2>3, <2>5 DEF Quiet
  <2>7. QED
    BY <2>4, <2>6, QuietStep
<1>6. QED
  <2>1. CASE th[t].n = Batch /\ used_slots(c) > 0
    BY <1>1, <1>3, <2>1 DEF RemoveLocked, Give
  <2>2. CASE ~(th[t].n = Batch /\ used_slots(c) > 0)
    BY <1>1, <1>4, <1>5, <2>2 DEF RemoveLocked
  <2>3. QED
    BY <2>1, <2>2

-----------------------------------------------------------------------------
(* Steps on a span that is in no list: what is listed stays as it was.        *)
LEMMA UnlistedFrame ==
  ASSUME CentralConstants, IndInv, NEW t \in Threads, NEW s \in Spans, NEW d \in Descriptors,
         UNCHANGED <<central, owned>>, span' = [span EXCEPT ![s] = d],
         span[s].list \in {"heap", "dead"}, d.list \in {"heap", "new"},
         \A u \in Threads \ {t} : th'[u] = th[u],
         th'[t].chain = {} \/ (th'[t].chain = th[t].chain /\ th'[t].cl = th[t].cl),
         th'[t].rel = {} \/ (th'[t].rel = th[t].rel /\ th'[t].rc = th[t].rc)
  PROVE  /\ LiveSpans' = LiveSpans /\ Counted' /\ InClass'
         /\ span' \in [Spans -> Descriptors] /\ span'[s] = d
         /\ \A r \in Spans \ {s} : span'[r] = span[r]
<1>1. /\ span' \in [Spans -> Descriptors] /\ span'[s] = d
      /\ \A r \in Spans \ {s} : span'[r] = span[r]
  BY DEF IndInv, TypeOK
<1>2. LiveSpans' = LiveSpans /\ s \notin LiveSpans
  BY <1>1 DEF LiveSpans
<1>3. Counted'
  <2>1. ASSUME NEW c \in Classes
        PROVE  {r \in LiveSpans : span[r].cl = c}' = {r \in LiveSpans : span[r].cl = c}
    <3>1. \A r \in LiveSpans : span'[r] = span[r]
      BY <1>1, <1>2 DEF LiveSpans
    <3>2. QED
      BY <1>2, <3>1
  <2>2. ASSUME NEW c \in Classes PROVE FreeObjects(span, c)' = FreeObjects(span, c)
    <3>1. {r \in Spans : span[r].cl = c /\ span[r].list = "nonempty"}'
            = {r \in Spans : span[r].cl = c /\ span[r].list = "nonempty"}
      BY <1>1
    <3>2. \A r \in Spans : span[r].list = "nonempty" => span'[r].free = span[r].free
      BY <1>1
    <3>3. QED
      BY <3>1, <3>2 DEF FreeObjects
  <2>3. QED
    BY <2>1, <2>2 DEF IndInv, Counted
<1>4. InClass'
  <2>1. ASSUME NEW objects, NEW c, Of(objects, c)
        PROVE  \A o \in objects : o[1] \in LiveSpans' /\ span'[o[1]].cl = c
    BY <1>1, <1>2, <2>1 DEF Of, LiveSpans
  <2>2. \A u \in Threads : \A o \in owned'[u] : o[1] \in LiveSpans'
    BY <1>2 DEF IndInv, InClass
  <2>3. ASSUME NEW u \in Threads PROVE Of(th[u].chain, th[u].cl)' /\ Of(th[u].rel, th[u].rc)'
    <3>1. Of(th[u].chain, th[u].cl) /\ Of(th[u].rel, th[u].rc)
      BY DEF IndInv, InClass
    <3>2. /\ th'[u].chain = {} \/ (th'[u].chain = th[u].chain /\ th'[u].cl = th[u].cl)
          /\ th'[u].rel = {} \/ (th'[u].rel = th[u].rel /\ th'[u].rc = th[u].rc)
      OBVIOUS
    <3>3. /\ \A o \in th[u].chain : o[1] \in LiveSpans' /\ span'[o[1]].cl = th[u].cl
          /\ \A o \in th[u].rel : o[1] \in LiveSpans' /\ span'[o[1]].cl = th[u].rc
      BY <2>1, <3>1
    <3>4. QED
      BY <3>2, <3>3 DEF Of
  <2>4. ASSUME NEW c \in Classes, NEW i \in 1 .. used_slots(c)'
        PROVE  Of(central[c].slots[i], c)'
    <3>1. i \in 1 .. used_slots(c) /\ central' = central
      BY DEF used_slots
    <3>2. Of(central[c].slots[i], c)
      BY <3>1 DEF IndInv, InClass
    <3>3. \A o \in central[c].slots[i] : o[1] \in LiveSpans' /\ span'[o[1]].cl = c
      BY <2>1, <3>2
    <3>4. QED
      BY <3>1, <3>3 DEF Of
  <2>5. QED
    BY <2>2, <2>3, <2>4 DEF InClass
<1>5. QED
  BY <1>1, <1>2, <1>3, <1>4

LEMMA DeleteSpanKeeps ==
  ASSUME CentralConstants, IndInv, NEW t \in Threads, DeleteSpan(t)
  PROVE  IndInv'
<1> DEFINE d == [cl |-> NONE, list |-> "heap", free |-> {}, refcount |-> 0]
           k == [th[t] EXCEPT !.pc = "relock", !.span = NoSpan]
<1>1. PICK s \in Spans : s = th[t].span /\ span[s].list = "dead"
  BY CallFacts DEF DeleteSpan, CallOK
<1>2. /\ th[t].pc = "delete" /\ UNCHANGED <<central, owned>> /\ th[t] \in Calls /\ t # NONE
      /\ th[t].cl \in Classes /\ th[t].rc \in Classes /\ (th[t].rc = th[t].cl => th[t].chain = {})
      /\ \A c \in Classes : central[c].lock # t
      /\ span[s].free = {}
  BY <1>1, CallFacts DEF DeleteSpan, CallOK, Releasing, Holds, IndInv, SpansOK, SpanOK
<1>3. /\ d \in Descriptors /\ d.list = "heap" /\ d.free = {} /\ d.refcount = 0
      /\ span' = [span EXCEPT ![s] = d]
  BY <1>1 DEF DeleteSpan, Descriptors
<1>4. /\ k \in Calls /\ k.pc = "relock" /\ k.cl = th[t].cl /\ k.rc = th[t].rc
      /\ k.chain = th[t].chain /\ k.rel = th[t].rel /\ k.span = NoSpan
  BY <1>2 DEF Calls, Labels
<1>5. th' = [th EXCEPT ![t] = k]
  BY DEF DeleteSpan
<1>6. th' \in [Threads -> Calls] /\ th'[t] = k /\ \A u \in Threads \ {t} : th'[u] = th[u]
  BY <1>4, <1>5, CallStep
<1> HIDE DEF d, k
<1>7. /\ LiveSpans' = LiveSpans /\ Counted' /\ InClass'
      /\ span' \in [Spans -> Descriptors] /\ span'[s] = d
      /\ \A r \in Spans \ {s} : span'[r] = span[r]
  BY <1>1, <1>2, <1>3, <1>4, <1>6, UnlistedFrame
<1>8. TypeOK'
  BY <1>2, <1>6, <1>7 DEF IndInv, TypeOK
<1>9. LocksHeld'
  <2>1. \A c \in Classes : ~Holds(t, c)'
    BY <1>4, <1>6 DEF Holds
  <2>2. QED
    BY <1>2, <1>6, <2>1, LocksFrame
<1>10. CallsOK'
  <2>1. CallOK(t)'
    BY <1>2, <1>4, <1>6 DEF CallOK, Inserting, Releasing
  <2>2. \A r \in Spans : r # th[t].span => span'[r] = span[r]
    BY <1>1, <1>7
  <2>3. QED
    BY <1>4, <1>6, <2>1, <2>2, CallsFrame
<1>11. SpansOK'
  <2>1. SpanOK(s)'
    BY <1>3, <1>7 DEF SpanOK, ObjectsOf
  <2>2. \A r \in Spans \ {s} : SpanOK(r)'
    BY <1>7 DEF SpanOK, ObjectsOf, IndInv, SpansOK
  <2>3. QED
    BY <2>1, <2>2 DEF SpansOK
<1>12. Disjoint' /\ Covered'
  <2>1. ASSUME NEW p \in Place PROVE Contents(p)' = Contents(p)
    <3>1. CASE p[1] = "free"
      BY <1>2, <1>3, <1>7, <3>1, PlaceForms DEF Contents
    <3>2. CASE p[1] \in {"owned", "slot"}
      BY <1>2, <3>2 DEF Contents, used_slots
    <3>3. CASE p[1] \in {"chain", "rel"}
      BY <1>4, <1>6, <3>3, PlaceForms DEF Contents
    <3>4. QED
      BY <3>1, <3>2, <3>3, PlaceForms
  <2>2. \A r \in Spans : span'[r].list \in {"nonempty", "empty", "new"}
                           <=> span[r].list \in {"nonempty", "empty", "new"}
    BY <1>1, <1>3, <1>7
  <2>3. Disjoint' /\ \A o \in Objects : Somewhere(o)' <=> Somewhere(o)
    BY <2>1 DEF IndInv, Disjoint, Somewhere
  <2>4. QED
    BY <2>2, <2>3, ObjectFacts DEF IndInv, Covered
<1>13. SlotsBounded'
  BY <1>2 DEF IndInv, SlotsBounded, used_slots
<1>14. QED
  BY <1>7, <1>8, <1>9, <1>10, <1>11, <1>12, <1>13 DEF IndInv

(* Objects that were nowhere appear in one place.                             *)
LEMMA AppearKeeps ==
  ASSUME Disjoint, NEW q \in Place, NEW X,
         \A p \in Place \ {q} : Contents(p)' = Contents(p),
         Contents(q)' = Contents(q) \cup X,
         \A o \in X : ~Somewhere(o)
  PROVE  Disjoint' /\ \A o \in Objects : Somewhere(o)' <=> Somewhere(o) \/ o \in X
<1>1. \A p \in Place : Contents(p) \cap X = {}
  BY DEF Somewhere
<1>2. Disjoint'
  BY <1>1 DEF Disjoint
<1>3. \A o \in Objects : Somewhere(o)' <=> Somewhere(o) \/ o \in X
  BY DEF Somewhere
<1>4. QED
  BY <1>2, <1>3

Populates(t, s) ==
  /\ span[s].list = "heap" /\ th[t].pc = "populate" /\ UNCHANGED <<central, owned>>
  /\ span' = [span EXCEPT ![s] = [cl |-> th[t].cl, list |-> "new",
                                  free |-> ObjectsOf(s), refcount |-> 0]]
  /\ th' = [th EXCEPT ![t].pc = "populated", ![t].span = s]

LEMMA PopulateSome ==
  ASSUME CentralConstants, IndInv, NEW t \in Threads, NEW s \in Spans, Populates(t, s)
  PROVE  IndInv'
<1>0. span[s].list = "heap" /\ th[t].pc = "populate" /\ UNCHANGED <<central, owned>>
  BY DEF Populates
<1> DEFINE d == [cl |-> th[t].cl, list |-> "new", free |-> ObjectsOf(s), refcount |-> 0]
           k == [th[t] EXCEPT !.pc = "populated", !.span = s]
<1>1. /\ th[t] \in Calls /\ t # NONE /\ th[t].cl \in Classes /\ th[t].chain = {} /\ th[t].rel = {}
      /\ \A c \in Classes : central[c].lock # t
      /\ span[s].free = {} /\ s # NoSpan
  BY <1>0, CallFacts DEF CallOK, Inserting, Releasing, Holds, IndInv, SpansOK, SpanOK, CentralConstants
<1>2. /\ d \in Descriptors /\ d.list = "new" /\ d.free = ObjectsOf(s) /\ d.refcount = 0
      /\ d.cl = th[t].cl /\ span' = [span EXCEPT ![s] = d]
  BY <1>1, ObjectFacts DEF Descriptors, Populates
<1>3. /\ k \in Calls /\ k.pc = "populated" /\ k.cl = th[t].cl /\ k.chain = {} /\ k.rel = {}
      /\ k.span = s
  BY <1>1 DEF Calls, Labels
<1>4. th' = [th EXCEPT ![t] = k]
  BY DEF Populates
<1>5. th' \in [Threads -> Calls] /\ th'[t] = k /\ \A u \in Threads \ {t} : th'[u] = th[u]
  BY <1>3, <1>4, CallStep
<1> HIDE DEF d, k
<1>6. /\ LiveSpans' = LiveSpans /\ Counted' /\ InClass'
      /\ span' \in [Spans -> Descriptors] /\ span'[s] = d
      /\ \A r \in Spans \ {s} : span'[r] = span[r]
  <2>1. /\ span[s].list \in {"heap", "dead"} /\ d.list \in {"heap", "new"}
        /\ th'[t].chain = {} /\ th'[t].rel = {}
    BY <1>0, <1>2, <1>3, <1>5
  <2>2. QED
    BY <1>0, <1>2, <1>5, <2>1, UnlistedFrame
<1>7. TypeOK'
  BY <1>0, <1>5, <1>6 DEF IndInv, TypeOK
<1>8. LocksHeld'
  <2>1. \A c \in Classes : ~Holds(t, c)'
    BY <1>3, <1>5 DEF Holds
  <2>2. QED
    BY <1>0, <1>1, <1>5, <2>1, LocksFrame
<1>9. CallsOK'
  <2>1. CallOK(t)'
    BY <1>1, <1>2, <1>3, <1>5, <1>6 DEF CallOK, Inserting, Releasing
  <2>2. \A r \in Spans : span[r].list \in {"dead", "new"} => span'[r] = span[r]
    BY <1>0, <1>6
  <2>3. ASSUME NEW u \in Threads PROVE th[u].span # s
    <3>1. th[u].span # NoSpan => span[th[u].span].list \in {"dead", "new"}
      BY CallFacts DEF CallOK
    <3>2. QED
      BY <1>0, <1>1, <3>1
  <2>4. QED
    BY <1>3, <1>5, <2>1, <2>2, <2>3, CallsFrame
<1>10. SpansOK'
  <2>1. SpanOK(s)'
    BY <1>2, <1>6 DEF SpanOK, ObjectsOf
  <2>2. \A r \in Spans \ {s} : SpanOK(r)'
    BY <1>6 DEF SpanOK, ObjectsOf, IndInv, SpansOK
  <2>3. QED
    BY <2>1, <2>2 DEF SpansOK
<1>11. Disjoint' /\ Covered'
  <2> DEFINE q == <<"free", s, 0>>
  <2>1. q \in Place
    BY DEF Place
  <2>2. Contents(q)' = Contents(q) \cup ObjectsOf(s)
    <3>1. Contents(q) = span[s].free /\ Contents(q)' = span'[s].free
      BY ContentsOf
    <3>2. span[s].free = {} /\ span'[s].free = ObjectsOf(s)
      BY <1>1, <1>2, <1>6
    <3>3. QED
      BY <3>1, <3>2
  <2>3. ASSUME NEW p \in Place \ {q} PROVE Contents(p)' = Contents(p)
    <3>1. CASE p[1] = "free"
      BY <1>6, <2>1, <3>1, PlaceForms, PlaceEqual DEF Contents
    <3>2. CASE p[1] \in {"owned", "slot"}
      BY <1>0, <3>2 DEF Contents, used_slots
    <3>3. CASE p[1] \in {"chain", "rel"}
      BY <1>1, <1>3, <1>5, <3>3, PlaceForms DEF Contents
    <3>4. QED
      BY <3>1, <3>2, <3>3, PlaceForms
  <2>4. \A o \in ObjectsOf(s) : o \in Objects /\ o[1] = s
    BY ObjectFacts
  <2>5. \A o \in ObjectsOf(s) : ~Somewhere(o)
    BY <1>0, <2>4 DEF IndInv, Covered
  <2>6. Disjoint' /\ \A o \in Objects : Somewhere(o)' <=> Somewhere(o) \/ o \in ObjectsOf(s)
    BY <2>1, <2>2, <2>3, <2>5, AppearKeeps DEF IndInv
  <2>7. ASSUME NEW o \in Objects
        PROVE  Somewhere(o)' <=> span'[o[1]].list \in {"nonempty", "empty", "new"}
    <3>1. CASE o[1] = s
      BY <1>2, <1>6, <2>6, <3>1, ObjectFacts
    <3>2. CASE o[1] # s
      <4>1. o \notin ObjectsOf(s) /\ o[1] \in Spans
        BY <3>2, ObjectFacts
      <4>2. span'[o[1]] = span[o[1]]
        BY <1>6, <3>2, <4>1
      <4>3. QED
        BY <2>6, <4>1, <4>2 DEF IndInv, Covered
    <3>3. QED
      BY <3>1, <3>2
  <2>8. QED
    BY <2>6, <2>7 DEF Covered
<1>12. SlotsBounded'
  BY <1>0 DEF IndInv, SlotsBounded, used_slots
<1>13. QED
  BY <1>6, <1>7, <1>8, <1>9, <1>10, <1>11, <1>12 DEF IndInv

LEMMA PopulateNewKeeps ==
  ASSUME CentralConstants, IndInv, NEW t \in Threads, PopulateNew(t)
  PROVE  IndInv'
<1>1. th[t].pc = "populate" /\ UNCHANGED <<central, owned>>
  BY DEF PopulateNew
<1>2. CASE \E s \in {r \in Spans : span[r].list = "heap"} :
             /\ span' = [span EXCEPT ![s] = [cl |-> th[t].cl, list |-> "new",
                                             free |-> ObjectsOf(s), refcount |-> 0]]
             /\ th' = [th EXCEPT ![t].pc = "populated", ![t].span = s]
  <2>1. PICK s \in Spans :
          /\ span[s].list = "heap"
          /\ span' = [span EXCEPT ![s] = [cl |-> th[t].cl, list |-> "new",
                                          free |-> ObjectsOf(s), refcount |-> 0]]
          /\ th' = [th EXCEPT ![t].pc = "populated", ![t].span = s]
    BY <1>2
  <2>2. Populates(t, s)
    BY <1>1, <2>1 DEF Populates
  <2>3. QED
    BY <2>2, PopulateSome
<1>3. CASE th' = [th EXCEPT ![t].pc = "populated"] /\ UNCHANGED span
  <2> DEFINE k == [th[t] EXCEPT !.pc = "populated"]
  <2>1. /\ th[t] \in Calls /\ th[t].cl \in Classes /\ th[t].chain = {} /\ th[t].rel = {}
        /\ th[t].span = NoSpan /\ \A c \in Classes : central[c].lock # t
    BY <1>1, CallFacts DEF CallOK, Inserting, Releasing, Holds
  <2>2. /\ k \in Calls /\ k.pc = "populated" /\ k.cl = th[t].cl /\ k.chain = {} /\ k.rel = {}
        /\ k.span = NoSpan
    BY <2>1 DEF Calls, Labels
  <2>3. th' = [th EXCEPT ![t] = k]
    BY <1>3
  <2>4. th' \in [Threads -> Calls] /\ th'[t] = k /\ \A u \in Threads \ {t} : th'[u] = th[u]
    BY <2>2, <2>3, CallStep
  <2> HIDE DEF k
  <2>5. TypeOK'
    BY <1>1, <1>3, <2>4 DEF IndInv, TypeOK
  <2>6. CallOK(t)'
    BY <2>1, <2>2, <2>4 DEF CallOK, Inserting, Releasing
  <2>7. SlotsBounded'
    BY <1>1 DEF IndInv, SlotsBounded, used_slots
  <2>8. \A c \in Classes : ~Holds(t, c)'
    BY <2>2, <2>4 DEF Holds
  <2>9. Quiet(t)
    BY <1>1, <1>3, <2>1, <2>2, <2>4, <2>8 DEF Quiet
  <2>10. QED
    BY <2>5, <2>6, <2>7, <2>9, QuietStep
<1>4. QED
  BY <1>2, <1>3 DEF PopulateNew

LEMMA PopulateLockedKeeps ==
  ASSUME CentralConstants, IndInv, NEW t \in Threads, PopulateLocked(t)
  PROVE  IndInv'
<1>1. PICK c \in Classes : c = th[t].cl
  BY CallFacts DEF PopulateLocked, CallOK
<1>2. th[t].pc = "populated" /\ central[c].lock = NONE
  BY <1>1 DEF PopulateLocked, CanLock
<1>3. CASE th[t].span = NoSpan
  <2>1. PICK sp \in [Spans -> Descriptors] : sp = span
    BY DEF IndInv, TypeOK
  <2>2. PICK cent \in [Classes -> Lists] : cent = central
    BY DEF IndInv, TypeOK
  <2>3. Listed(sp) = LiveSpans
    BY <2>1 DEF Listed, LiveSpans
  <2>4. Fetching(t, c, sp, cent)
    BY <1>1, <1>2, <2>1, <2>2, <2>3 DEF Fetching, IndInv, SpansOK, SpanOK, Counted, LiveSpans
  <2>5. Fetch(t, c, span, central)
    BY <1>1, <1>3 DEF PopulateLocked
  <2>6. Fetch(t, c, sp, cent)
    BY <2>1, <2>2, <2>5
  <2>7. QED
    BY <2>4, <2>6, FetchKeeps
<1>4. CASE th[t].span # NoSpan
  <2>1. PICK s \in Spans : s = th[t].span /\ span[s].list = "new" /\ span[s].cl = c
    BY <1>1, <1>2, <1>4, CallFacts DEF CallOK, Calls
  <2>2. span[s].free = ObjectsOf(s) /\ span[s].refcount = 0 /\ span[s] \in Descriptors
    BY <2>1 DEF IndInv, SpansOK, SpanOK, TypeOK
  <2>3. PICK sp : sp = [span EXCEPT ![s].list = "nonempty"]
    OBVIOUS
  <2>4. /\ sp \in [Spans -> Descriptors] /\ sp[s].list = "nonempty"
        /\ sp[s].free = ObjectsOf(s) /\ sp[s].refcount = 0 /\ sp[s].cl = c
        /\ \A r \in Spans \ {s} : sp[r] = span[r]
    BY <2>1, <2>2, <2>3 DEF IndInv, TypeOK, Descriptors
  <2>5. PICK cent : cent = [central EXCEPT ![c].num_spans = @ + 1, ![c].counter = @ + ObjectsPerSpan]
    OBVIOUS
  <2>6. /\ cent \in [Classes -> Lists] /\ \A d \in Classes \ {c} : cent[d] = central[d]
        /\ cent[c].num_spans = central[c].num_spans + 1
        /\ cent[c].counter = central[c].counter + ObjectsPerSpan
        /\ cent[c].lock = central[c].lock /\ cent[c].slots = central[c].slots
        /\ cent[c].cache_size = central[c].cache_size
    <3> DEFINE n == central[c].num_spans + 1
               m == central[c].counter + ObjectsPerSpan
               l == [central[c] EXCEPT !.num_spans = n, !.counter = m]
    <3>1. central[c] \in Lists /\ n \in Int /\ m \in Int
      BY ObjectFacts, ClassFacts DEF Lists
    <3>2. cent = [central EXCEPT ![c] = l]
      BY <2>5
    <3> HIDE DEF n, m
    <3>3. /\ l \in Lists /\ l.num_spans = n /\ l.counter = m /\ l.lock = central[c].lock
          /\ l.slots = central[c].slots /\ l.cache_size = central[c].cache_size
      BY <3>1 DEF Lists
    <3> HIDE DEF l
    <3>4. /\ cent \in [Classes -> Lists] /\ cent[c] = l
          /\ \A d \in Classes \ {c} : cent[d] = central[d]
      BY <3>2, <3>3 DEF IndInv, TypeOK
    <3>5. QED
      BY <3>3, <3>4 DEF n, m
  <2>7. Listed(sp) = LiveSpans \cup {s} /\ s \notin LiveSpans
    BY <2>1, <2>4 DEF Listed, LiveSpans
  <2>8. /\ FreeObjects(sp, c) = FreeObjects(span, c) \cup ObjectsOf(s)
        /\ FreeObjects(span, c) \cap ObjectsOf(s) = {}
        /\ \A d \in Classes \ {c} : FreeObjects(sp, d) = FreeObjects(span, d)
        /\ IsFiniteSet(FreeObjects(span, c))
    <3>1. PICK sq \in [Spans -> Descriptors] : sq = span
      BY DEF IndInv, TypeOK
    <3>2. /\ \A r \in Spans : sq[r].free \subseteq ObjectsOf(r)
          /\ \A r \in Spans : sp[r].free \subseteq ObjectsOf(r)
      BY <2>4, <3>1 DEF IndInv, SpansOK, SpanOK
    <3>3. ASSUME NEW d \in Classes, NEW o
          PROVE  o \in FreeObjects(sp, d) <=> /\ o \in Objects /\ o \in sp[o[1]].free
                                              /\ sp[o[1]].cl = d /\ sp[o[1]].list = "nonempty"
      BY <2>4, <3>2, FreeObjectsFacts
    <3>4. ASSUME NEW d \in Classes, NEW o
          PROVE  o \in FreeObjects(sq, d) <=> /\ o \in Objects /\ o \in sq[o[1]].free
                                              /\ sq[o[1]].cl = d /\ sq[o[1]].list = "nonempty"
      BY <3>2, FreeObjectsFacts
    <3>5. IsFiniteSet(FreeObjects(sq, c))
      BY <3>2, FreeObjectsFacts
    <3>6. ASSUME NEW d \in Classes, NEW o \in Objects
          PROVE  o \in FreeObjects(sp, d) <=> o \in FreeObjects(sq, d) \/ (d = c /\ o[1] = s)
      BY <2>1, <2>4, <3>1, <3>3, <3>4, ObjectFacts
    <3>7. \A o \in Objects : o \in FreeObjects(sq, c) => o[1] # s
      BY <2>1, <3>1, <3>4
    <3>8. \A d \in Classes : FreeObjects(sp, d) \subseteq Objects /\ FreeObjects(sq, d) \subseteq Objects
      BY <3>3, <3>4
    <3>9. ObjectsOf(s) \subseteq Objects /\ \A o \in Objects : o \in ObjectsOf(s) <=> o[1] = s
      BY ObjectFacts
    <3>10. FreeObjects(sp, c) = FreeObjects(sq, c) \cup ObjectsOf(s)
      BY <3>6, <3>8, <3>9
    <3>11. \A d \in Classes \ {c} : FreeObjects(sp, d) = FreeObjects(sq, d)
      BY <3>6, <3>8
    <3>12. FreeObjects(sq, c) \cap ObjectsOf(s) = {}
      BY <3>7, <3>8, <3>9
    <3>13. QED
      BY <3>1, <3>5, <3>10, <3>11, <3>12
  <2>9. Cardinality(FreeObjects(sp, c)) = Cardinality(FreeObjects(span, c)) + ObjectsPerSpan
    <3>1. /\ IsFiniteSet(ObjectsOf(s)) /\ Cardinality(ObjectsOf(s)) = ObjectsPerSpan
          /\ ObjectsPerSpan \in Nat
      BY ObjectFacts
    <3>2. Cardinality(FreeObjects(span, c) \cup ObjectsOf(s))
            = Cardinality(FreeObjects(span, c)) + ObjectsPerSpan
              - Cardinality(FreeObjects(span, c) \cap ObjectsOf(s))
      BY <2>8, <3>1, FS_Union
    <3>3. Cardinality(FreeObjects(span, c)) \in Nat /\ Cardinality({}) = 0
      BY <2>8, FS_CardinalityType, FS_EmptySet
    <3>4. Cardinality(FreeObjects(span, c) \cap ObjectsOf(s)) = 0
      BY <2>8, <3>3
    <3>5. Cardinality(FreeObjects(sp, c)) = Cardinality(FreeObjects(span, c) \cup ObjectsOf(s))
      BY <2>8
    <3>6. QED
      BY <3>1, <3>2, <3>3, <3>4, <3>5
  <2>10. /\ \A d \in Classes \ {c} : {r \in Listed(sp) : sp[r].cl = d}
                                       = {r \in LiveSpans : span[r].cl = d}
         /\ Cardinality({r \in Listed(sp) : sp[r].cl = c})
              = Cardinality({r \in LiveSpans : span[r].cl = c}) + 1
    <3>1. ASSUME NEW d \in Classes \ {c}
          PROVE  {r \in Listed(sp) : sp[r].cl = d} = {r \in LiveSpans : span[r].cl = d}
      BY <2>4, <2>7 DEF LiveSpans
    <3>2. {r \in Listed(sp) : sp[r].cl = c} = {r \in LiveSpans : span[r].cl = c} \cup {s}
      BY <2>4, <2>7 DEF LiveSpans
    <3>3. \A d \in Classes : IsFiniteSet({r \in LiveSpans : span[r].cl = d})
      <4>1. \A d \in Classes : {r \in LiveSpans : span[r].cl = d} \in SUBSET Spans
        BY DEF LiveSpans
      <4>2. QED
        BY <4>1, FS_Subset DEF CentralConstants
    <3>4. s \notin {r \in LiveSpans : span[r].cl = c}
      BY <2>7
    <3>5. Cardinality({r \in LiveSpans : span[r].cl = c} \cup {s})
            = Cardinality({r \in LiveSpans : span[r].cl = c}) + 1
      BY <3>3, <3>4, FS_AddElement
    <3>6. QED
      BY <3>1, <3>2, <3>5
  <2>11. Fetching(t, c, sp, cent)
    <3>1. \A r \in Spans :
            /\ sp[r].cl = span[r].cl /\ sp[r].free = span[r].free
            /\ sp[r].list # span[r].list =>
                 r = th[t].span /\ span[r].list = "new" /\ sp[r].list = "nonempty"
            /\ r \notin Listed(sp) => sp[r].refcount = span[r].refcount
      BY <2>1, <2>2, <2>4, <2>7
    <3>2. ASSUME NEW r \in Spans, r \in Listed(sp)
          PROVE  /\ sp[r].refcount = ObjectsPerSpan - Cardinality(sp[r].free)
                 /\ sp[r].list = "nonempty" <=> sp[r].free # {}
      <4>1. CASE r = s
        <5>1. /\ ObjectsPerSpan \in Nat \ {0} /\ Cardinality(ObjectsOf(s)) = ObjectsPerSpan
              /\ Cardinality({}) = 0
          BY ObjectFacts, FS_EmptySet
        <5>2. sp[r].refcount = 0 /\ sp[r].free = ObjectsOf(s) /\ sp[r].list = "nonempty"
          BY <2>4, <4>1
        <5>3. Cardinality(sp[r].free) = ObjectsPerSpan
          BY <5>1, <5>2
        <5>4. sp[r].free # {}
          BY <5>1, <5>3
        <5>5. QED
          BY <5>1, <5>2, <5>3, <5>4
      <4>2. CASE r # s
        <5>1. sp[r] = span[r] /\ r \in LiveSpans
          BY <2>4, <2>7, <3>2, <4>2
        <5>2. QED
          BY <5>1 DEF IndInv, SpansOK, SpanOK, LiveSpans
      <4>3. QED
        BY <4>1, <4>2
    <3>3. \A d \in Classes :
            /\ cent[d].lock = central[d].lock /\ cent[d].slots = central[d].slots
            /\ cent[d].cache_size = central[d].cache_size
      BY <2>6
    <3>4. \A d \in Classes : cent[d].counter = Cardinality(FreeObjects(sp, d))
      BY <2>6, <2>8, <2>9 DEF IndInv, Counted
    <3>5. \A d \in Classes : cent[d].num_spans = Cardinality({r \in Listed(sp) : sp[r].cl = d})
      <4>1. \A d \in Classes : central[d].num_spans = Cardinality({r \in LiveSpans : span[r].cl = d})
        BY DEF IndInv, Counted
      <4>2. \A d \in Classes : central[d].num_spans \in Int
        BY ClassFacts DEF Lists
      <4>3. \A d \in Classes \ {c} : cent[d].num_spans = Cardinality({r \in Listed(sp) : sp[r].cl = d})
        BY <2>6, <2>10, <4>1
      <4>4. Cardinality({r \in Listed(sp) : sp[r].cl = c}) = central[c].num_spans + 1
        BY <2>10, <4>1
      <4>5. QED
        BY <2>6, <4>3, <4>4
    <3>6. QED
      BY <1>1, <1>2, <3>1, <3>2, <3>3, <3>4, <3>5 DEF Fetching
  <2>12. Fetch(t, c, [span EXCEPT ![s].list = "nonempty"],
               [central EXCEPT ![c].num_spans = @ + 1, ![c].counter = @ + ObjectsPerSpan])
    BY <1>1, <1>4, <2>1 DEF PopulateLocked
  <2>13. Fetch(t, c, sp, cent)
    BY <2>3, <2>5, <2>12
  <2>14. QED
    BY <2>4, <2>6, <2>11, <2>13, FetchKeeps
<1>5. QED
  BY <1>3, <1>4

-----------------------------------------------------------------------------
(* The object that goes back to its span is not there yet, and it was the     *)
(* last one in use exactly when the span is then complete.                    *)
LEMMA ReleaseFacts ==
  ASSUME CentralConstants, IndInv, NEW t \in Threads, th[t].pc = "release",
         NEW o \in th[t].rel, NEW s, s = o[1]
  PROVE  /\ o \in Objects /\ s \in Spans /\ s \in LiveSpans /\ o \in ObjectsOf(s)
         /\ th[t].rc \in Classes /\ span[s].cl = th[t].rc /\ span[s] \in Descriptors
         /\ o \notin span[s].free /\ span[s].free \subseteq ObjectsOf(s)
         /\ IsFiniteSet(span[s].free) /\ Cardinality(span[s].free) \in Nat
         /\ span[s].refcount = ObjectsPerSpan - Cardinality(span[s].free)
         /\ Cardinality(span[s].free \cup {o}) = Cardinality(span[s].free) + 1
         /\ span[s].refcount = 1 => span[s].free \cup {o} = ObjectsOf(s)
<1>1. /\ o \in Objects /\ s \in LiveSpans /\ span[s].cl = th[t].rc /\ th[t].rc \in Classes
  <2>1. th[t].rel \subseteq Objects /\ th[t].rc \in Classes
    BY CallFacts DEF Calls, CallOK, Releasing
  <2>2. Of(th[t].rel, th[t].rc)
    BY DEF IndInv, InClass
  <2>3. QED
    BY <2>1, <2>2 DEF Of
<1>2. /\ s \in Spans /\ o \in ObjectsOf(s) /\ IsFiniteSet(ObjectsOf(s))
      /\ Cardinality(ObjectsOf(s)) = ObjectsPerSpan /\ ObjectsPerSpan \in Nat
  BY <1>1, ObjectFacts
<1>3. /\ span[s].free \subseteq ObjectsOf(s) /\ span[s] \in Descriptors
      /\ span[s].refcount = ObjectsPerSpan - Cardinality(span[s].free)
  BY <1>1, <1>2 DEF IndInv, TypeOK, SpansOK, SpanOK, LiveSpans
<1>4. o \notin span[s].free
  <2> DEFINE p == <<"rel", t, 0>>
             q == <<"free", s, 0>>
  <2>1. p \in Place /\ q \in Place /\ p # q
    BY <1>2 DEF Place
  <2>2. Contents(p) \cap Contents(q) = {}
    BY <2>1 DEF IndInv, Disjoint
  <2>3. Contents(p) = th[t].rel /\ Contents(q) = span[s].free
    BY ContentsOf
  <2>4. QED
    BY <2>2, <2>3
<1>5. IsFiniteSet(span[s].free)
  BY <1>2, <1>3, FS_Subset
<1>6. Cardinality(span[s].free) \in Nat /\ IsFiniteSet(span[s].free \cup {o})
      /\ Cardinality(span[s].free \cup {o}) = Cardinality(span[s].free) + 1
  BY <1>4, <1>5, FS_AddElement, FS_CardinalityType
<1>7. span[s].refcount = 1 => span[s].free \cup {o} = ObjectsOf(s)
  <2>1. span[s].free \cup {o} \in SUBSET ObjectsOf(s)
    BY <1>2, <1>3
  <2>2. span[s].refcount = 1 => Cardinality(span[s].free \cup {o}) = Cardinality(ObjectsOf(s))
    BY <1>2, <1>3, <1>6
  <2>3. QED
    BY <1>2, <2>1, <2>2, FS_Subset
<1>8. QED
  BY <1>1, <1>2, <1>3, <1>4, <1>5, <1>6, <1>7

(* One thread, one span and one class change.                                 *)
Changes(t, c, s, k, l, d) ==
  /\ th' = [th EXCEPT ![t] = k] /\ central' = [central EXCEPT ![c] = l]
  /\ span' = [span EXCEPT ![s] = d] /\ UNCHANGED owned

LEMMA ChangesStep ==
  ASSUME IndInv, NEW t \in Threads, NEW c \in Classes, NEW s \in Spans,
         NEW k \in Calls, NEW l \in Lists, NEW d \in Descriptors, Changes(t, c, s, k, l, d)
  PROVE  /\ TypeOK' /\ UNCHANGED owned
         /\ th'[t] = k /\ \A u \in Threads \ {t} : th'[u] = th[u]
         /\ central'[c] = l /\ \A e \in Classes \ {c} : central'[e] = central[e]
         /\ span'[s] = d /\ \A r \in Spans \ {s} : span'[r] = span[r]
BY DEF Changes, IndInv, TypeOK

(* The object joins the free objects of its span.                             *)
LEMMA ReleaseToSpan ==
  ASSUME CentralConstants, IndInv, NEW t \in Threads, NEW c \in Classes, NEW s \in Spans,
         NEW k \in Calls, NEW l \in Lists, NEW d \in Descriptors, Changes(t, c, s, k, l, d),
         th[t].pc = "release", th[t].rc = c, NEW o \in th[t].rel, s = o[1],
         k.pc = "release", k.cl = th[t].cl, k.rc = c, k.chain = th[t].chain,
         k.rel = th[t].rel \ {o}, k.span = NoSpan,
         l.lock = central[c].lock, l.slots = central[c].slots,
         l.cache_size = central[c].cache_size, l.num_spans = central[c].num_spans,
         l.counter = central[c].counter + 1,
         d.cl = span[s].cl, d.list = "nonempty", d.free = span[s].free \cup {o},
         d.refcount = span[s].refcount - 1
  PROVE  IndInv'
<1>1. /\ TypeOK' /\ UNCHANGED owned
      /\ th'[t] = k /\ \A u \in Threads \ {t} : th'[u] = th[u]
      /\ central'[c] = l /\ \A e \in Classes \ {c} : central'[e] = central[e]
      /\ span'[s] = d /\ \A r \in Spans \ {s} : span'[r] = span[r]
  BY ChangesStep
<1>2. /\ o \in Objects /\ s \in LiveSpans /\ o \in ObjectsOf(s) /\ span[s].cl = c
      /\ span[s] \in Descriptors
      /\ o \notin span[s].free /\ span[s].free \subseteq ObjectsOf(s)
      /\ IsFiniteSet(span[s].free) /\ Cardinality(span[s].free) \in Nat
      /\ span[s].refcount = ObjectsPerSpan - Cardinality(span[s].free)
      /\ Cardinality(span[s].free \cup {o}) = Cardinality(span[s].free) + 1
  BY ReleaseFacts
<1>3. /\ th[t] \in Calls /\ t # NONE /\ th[t].cl \in Classes
      /\ (th[t].rc = th[t].cl => th[t].chain = {})
      /\ \A e \in Classes : central[e].lock = t <=> e = c
  BY CallFacts DEF CallOK, Releasing, Holds
<1>4. LiveSpans' = LiveSpans /\ \A r \in Spans : span'[r].cl = span[r].cl
  BY <1>1, <1>2 DEF LiveSpans
<1>5. \A e \in Classes : /\ central'[e].lock = central[e].lock /\ central'[e].slots = central[e].slots
                         /\ central'[e].cache_size = central[e].cache_size
                         /\ central'[e].num_spans = central[e].num_spans
  BY <1>1
<1>6. LocksHeld'
  <2>1. \A e \in Classes : Holds(t, e)' <=> e = c
    BY <1>1 DEF Holds
  <2>2. QED
    BY <1>1, <1>3, <1>5, <2>1, LocksFrame
<1>7. CallsOK'
  <2>1. CallOK(t)'
    BY <1>1, <1>3 DEF CallOK, Inserting, Releasing
  <2>2. \A r \in Spans : span[r].list \in {"dead", "new"} => span'[r] = span[r]
    BY <1>1, <1>2 DEF LiveSpans
  <2>3. QED
    BY <1>1, <2>1, <2>2, CallsFrame
<1>8. SpansOK'
  <2>1. SpanOK(s)'
    <3>1. span'[s].free \subseteq ObjectsOf(s) /\ span'[s].free # {}
      BY <1>1, <1>2
    <3>2. span'[s].refcount = ObjectsPerSpan - Cardinality(span'[s].free)
      <4>1. /\ span'[s].refcount = span[s].refcount - 1
            /\ Cardinality(span'[s].free) = Cardinality(span[s].free) + 1
        BY <1>1, <1>2
      <4>2. ObjectsPerSpan \in Nat
        BY ObjectFacts
      <4>3. QED
        BY <1>2, <4>1, <4>2
    <3>3. span'[s].list = "nonempty"
      BY <1>1
    <3>4. QED
      BY <3>1, <3>2, <3>3 DEF SpanOK, ObjectsOf
  <2>2. \A r \in Spans \ {s} : SpanOK(r)'
    BY <1>1 DEF SpanOK, ObjectsOf, IndInv, SpansOK
  <2>3. QED
    BY <2>1, <2>2 DEF SpansOK
<1>9. InClass'
  <2>1. ASSUME NEW objects, NEW e, Of(objects, e)
        PROVE  \A x \in objects : x[1] \in LiveSpans' /\ span'[x[1]].cl = e
    BY <1>4, <2>1 DEF Of, LiveSpans
  <2>2. \A u \in Threads : \A x \in owned'[u] : x[1] \in LiveSpans'
    BY <1>1, <1>4 DEF IndInv, InClass
  <2>3. ASSUME NEW u \in Threads PROVE Of(th[u].chain, th[u].cl)' /\ Of(th[u].rel, th[u].rc)'
    <3>1. Of(th[u].chain, th[u].cl) /\ Of(th[u].rel, th[u].rc)
      BY DEF IndInv, InClass
    <3>2. /\ th'[u].chain = th[u].chain /\ th'[u].cl = th[u].cl
          /\ th'[u].rel \subseteq th[u].rel /\ th'[u].rc = th[u].rc
      BY <1>1
    <3>3. /\ \A x \in th[u].chain : x[1] \in LiveSpans' /\ span'[x[1]].cl = th[u].cl
          /\ \A x \in th[u].rel : x[1] \in LiveSpans' /\ span'[x[1]].cl = th[u].rc
      BY <2>1, <3>1
    <3>4. QED
      BY <3>2, <3>3 DEF Of
  <2>4. ASSUME NEW e \in Classes, NEW i \in 1 .. used_slots(e)'
        PROVE  Of(central[e].slots[i], e)'
    <3>1. i \in 1 .. used_slots(e) /\ central'[e].slots = central[e].slots
      BY <1>5 DEF used_slots
    <3>2. Of(central[e].slots[i], e)
      BY <3>1 DEF IndInv, InClass
    <3>3. \A x \in central[e].slots[i] : x[1] \in LiveSpans' /\ span'[x[1]].cl = e
      BY <2>1, <3>2
    <3>4. QED
      BY <3>1, <3>3 DEF Of
  <2>5. QED
    BY <2>2, <2>3, <2>4 DEF InClass
<1>10. Disjoint' /\ Covered'
  <2> DEFINE p == <<"rel", t, 0>>
             q == <<"free", s, 0>>
  <2>1. p \in Place /\ q \in Place /\ p # q
    BY DEF Place
  <2>2. /\ Contents(p) = th[t].rel /\ Contents(p)' = th'[t].rel
        /\ Contents(q) = span[s].free /\ Contents(q)' = span'[s].free
    BY ContentsOf
  <2>3. /\ {o} \in SUBSET Contents(p) /\ Contents(p)' = Contents(p) \ {o}
        /\ Contents(q)' = Contents(q) \cup {o}
    BY <1>1, <2>2
  <2>4. ASSUME NEW r \in Place \ {p, q} PROVE Contents(r)' = Contents(r)
    <3>1. CASE r[1] = "free"
      <4>1. r[2] \in Spans /\ r[2] # s
        BY <2>1, <2>4, <3>1, PlaceForms, PlaceEqual
      <4>2. QED
        BY <1>1, <3>1, <4>1 DEF Contents
    <3>2. CASE r[1] = "owned"
      BY <1>1, <3>2 DEF Contents
    <3>3. CASE r[1] = "chain"
      <4>1. r[2] \in Threads
        BY <3>3, PlaceForms
      <4>2. th'[r[2]].chain = th[r[2]].chain
        BY <1>1, <4>1
      <4>3. QED
        BY <3>3, <4>2 DEF Contents
    <3>4. CASE r[1] = "rel"
      <4>1. r[2] \in Threads /\ r[2] # t
        BY <2>1, <2>4, <3>4, PlaceForms, PlaceEqual
      <4>2. QED
        BY <1>1, <3>4, <4>1 DEF Contents
    <3>5. CASE r[1] = "slot"
      BY <1>5, <3>5, PlaceForms DEF Contents, used_slots
    <3>6. QED
      BY <3>1, <3>2, <3>3, <3>4, <3>5, PlaceForms
  <2>5. Disjoint' /\ \A x \in Objects : Somewhere(x)' <=> Somewhere(x)
    BY <2>1, <2>3, <2>4, MoveOne DEF IndInv
  <2>6. \A r \in Spans : span'[r].list \in {"nonempty", "empty", "new"}
                           <=> span[r].list \in {"nonempty", "empty", "new"}
    BY <1>1, <1>2 DEF LiveSpans
  <2>7. QED
    BY <2>5, <2>6, ObjectFacts DEF IndInv, Covered
<1>11. Counted'
  <2>1. PICK sq \in [Spans -> Descriptors] : sq = span
    BY DEF IndInv, TypeOK
  <2>2. PICK sp \in [Spans -> Descriptors] : sp = span'
    BY <1>1 DEF TypeOK
  <2>3. /\ \A r \in Spans : sq[r].free \subseteq ObjectsOf(r)
        /\ \A r \in Spans : sp[r].free \subseteq ObjectsOf(r)
    BY <1>1, <1>2, <2>1, <2>2 DEF IndInv, SpansOK, SpanOK
  <2>4. ASSUME NEW e \in Classes, NEW x
        PROVE  x \in FreeObjects(sp, e) <=> /\ x \in Objects /\ x \in sp[x[1]].free
                                            /\ sp[x[1]].cl = e /\ sp[x[1]].list = "nonempty"
    BY <2>3, FreeObjectsFacts
  <2>5. ASSUME NEW e \in Classes, NEW x
        PROVE  x \in FreeObjects(sq, e) <=> /\ x \in Objects /\ x \in sq[x[1]].free
                                            /\ sq[x[1]].cl = e /\ sq[x[1]].list = "nonempty"
    BY <2>3, FreeObjectsFacts
  <2>6. sq[s].free # {} => sq[s].list = "nonempty"
    BY <1>2, <2>1 DEF IndInv, SpansOK, SpanOK, LiveSpans
  <2>7. ASSUME NEW e \in Classes, NEW x \in Objects
        PROVE  x \in FreeObjects(sp, e) <=> x \in FreeObjects(sq, e) \/ (e = c /\ x = o)
    <3>1. CASE x[1] = s
      <4>1. /\ sp[s].cl = c /\ sp[s].list = "nonempty" /\ sp[s].free = sq[s].free \cup {o}
            /\ sq[s].cl = c
        BY <1>1, <1>2, <2>1, <2>2
      <4>2. QED
        BY <2>4, <2>5, <2>6, <3>1, <4>1
    <3>2. CASE x[1] # s
      <4>1. sp[x[1]] = sq[x[1]] /\ x # o
        BY <1>1, <2>1, <2>2, <3>2, ObjectFacts
      <4>2. QED
        BY <2>4, <2>5, <4>1
    <3>3. QED
      BY <3>1, <3>2
  <2>8. \A e \in Classes : FreeObjects(sp, e) \subseteq Objects /\ FreeObjects(sq, e) \subseteq Objects
    BY <2>4, <2>5
  <2>9. FreeObjects(sp, c) = FreeObjects(sq, c) \cup {o} /\ o \notin FreeObjects(sq, c)
    BY <1>2, <2>1, <2>5, <2>7, <2>8
  <2>10. \A e \in Classes \ {c} : FreeObjects(sp, e) = FreeObjects(sq, e)
    BY <2>7, <2>8
  <2>11. IsFiniteSet(FreeObjects(sq, c))
    BY <2>3, FreeObjectsFacts
  <2>12. Cardinality(FreeObjects(sp, c)) = Cardinality(FreeObjects(sq, c)) + 1
    BY <2>9, <2>11, FS_AddElement
  <2>13. \A e \in Classes : /\ FreeObjects(span, e)' = FreeObjects(sp, e)
                            /\ FreeObjects(span, e) = FreeObjects(sq, e)
    BY <2>1, <2>2 DEF FreeObjects
  <2>14. \A e \in Classes : central'[e].counter = Cardinality(FreeObjects(span, e)')
    <3>1. \A e \in Classes : central[e].counter = Cardinality(FreeObjects(sq, e))
      BY <2>13 DEF IndInv, Counted
    <3>2. central'[c].counter = Cardinality(FreeObjects(sp, c))
      BY <1>1, <2>12, <3>1
    <3>3. \A e \in Classes \ {c} : central'[e].counter = Cardinality(FreeObjects(sp, e))
      BY <1>1, <2>10, <3>1
    <3>4. QED
      BY <2>13, <3>2, <3>3
  <2>15. ASSUME NEW e \in Classes
         PROVE  {r \in LiveSpans : span[r].cl = e}' = {r \in LiveSpans : span[r].cl = e}
    BY <1>4 DEF LiveSpans
  <2>16. \A e \in Classes : central'[e].num_spans = Cardinality({r \in LiveSpans : span[r].cl = e}')
    BY <1>5, <2>15 DEF IndInv, Counted
  <2>17. QED
    BY <2>14, <2>16 DEF Counted
<1>12. SlotsBounded'
  BY <1>5 DEF IndInv, SlotsBounded, used_slots
<1>13. QED
  BY <1>1, <1>6, <1>7, <1>8, <1>9, <1>10, <1>11, <1>12 DEF IndInv

(* The last object in use: the span leaves the lists with all its objects.    *)
LEMMA ReleaseLast ==
  ASSUME CentralConstants, IndInv, NEW t \in Threads, NEW c \in Classes, NEW s \in Spans,
         NEW k \in Calls, NEW l \in Lists, NEW d \in Descriptors, Changes(t, c, s, k, l, d),
         th[t].pc = "release", th[t].rc = c, NEW o \in th[t].rel, s = o[1], span[s].refcount = 1,
         k.pc = "delete", k.cl = th[t].cl, k.rc = c, k.chain = th[t].chain,
         k.rel = th[t].rel \ {o}, k.span = s,
         l.lock = NONE, l.slots = central[c].slots,
         l.cache_size = central[c].cache_size, l.num_spans = central[c].num_spans - 1,
         l.counter = central[c].counter + 1 - ObjectsPerSpan,
         d.list = "dead", d.free = {}
  PROVE  IndInv'
<1>1. /\ TypeOK' /\ UNCHANGED owned
      /\ th'[t] = k /\ \A u \in Threads \ {t} : th'[u] = th[u]
      /\ central'[c] = l /\ \A e \in Classes \ {c} : central'[e] = central[e]
      /\ span'[s] = d /\ \A r \in Spans \ {s} : span'[r] = span[r]
  BY ChangesStep
<1>2. /\ o \in Objects /\ s \in LiveSpans /\ o \in ObjectsOf(s) /\ span[s].cl = c
      /\ span[s] \in Descriptors
      /\ o \notin span[s].free /\ span[s].free \subseteq ObjectsOf(s)
      /\ IsFiniteSet(span[s].free) /\ Cardinality(span[s].free) \in Nat
      /\ span[s].refcount = ObjectsPerSpan - Cardinality(span[s].free)
      /\ span[s].free \cup {o} = ObjectsOf(s)
  BY ReleaseFacts
<1>3. /\ th[t] \in Calls /\ t # NONE /\ th[t].cl \in Classes /\ s # NoSpan
      /\ (th[t].rc = th[t].cl => th[t].chain = {})
      /\ \A e \in Classes : central[e].lock = t <=> e = c
  BY CallFacts DEF CallOK, Releasing, Holds, CentralConstants
<1>4. LiveSpans' = LiveSpans \ {s}
  BY <1>1, <1>2 DEF LiveSpans
<1>5. \A e \in Classes : /\ central'[e].slots = central[e].slots
                         /\ central'[e].cache_size = central[e].cache_size
                         /\ e # c => central'[e] = central[e]
  BY <1>1
<1>6. LocksHeld'
  <2>1. \A e \in Classes : ~Holds(t, e)'
    BY <1>1 DEF Holds
  <2>2. NONE \notin Threads
    BY DEF CentralConstants
  <2>3. \A e \in Classes : /\ central'[e].lock # t
                           /\ \A u \in Threads \ {t} : central'[e].lock = u <=> central[e].lock = u
    BY <1>1, <1>3, <2>2
  <2>4. QED
    BY <1>1, <2>1, <2>3, LocksFrame
<1>7. CallsOK'
  <2>1. CallOK(t)'
    BY <1>1, <1>3 DEF CallOK, Inserting, Releasing
  <2>2. \A r \in Spans : span[r].list \in {"dead", "new"} => span'[r] = span[r]
    BY <1>1, <1>2 DEF LiveSpans
  <2>3. ASSUME NEW u \in Threads PROVE th[u].span # s
    <3>1. th[u].span # NoSpan => span[th[u].span].list \in {"dead", "new"}
      BY CallFacts DEF CallOK
    <3>2. QED
      BY <1>2, <1>3, <3>1 DEF LiveSpans
  <2>4. QED
    BY <1>1, <2>1, <2>2, <2>3, CallsFrame
<1>8. SpansOK'
  <2>1. SpanOK(s)'
    BY <1>1 DEF SpanOK, ObjectsOf
  <2>2. \A r \in Spans \ {s} : SpanOK(r)'
    BY <1>1 DEF SpanOK, ObjectsOf, IndInv, SpansOK
  <2>3. QED
    BY <2>1, <2>2 DEF SpansOK
<1>9. ASSUME NEW r \in Place PROVE Contents(r)' = Contents(r) \ ObjectsOf(s)
  <2> DEFINE p == <<"rel", t, 0>>
             q == <<"free", s, 0>>
  <2>1. p \in Place /\ q \in Place /\ p # q
    BY DEF Place
  <2>2. /\ Contents(p) = th[t].rel /\ Contents(p)' = th'[t].rel
        /\ Contents(q) = span[s].free /\ Contents(q)' = span'[s].free
    BY ContentsOf
  <2>3. r \notin {p, q} => Contents(r) \cap ObjectsOf(s) = {}
    <3>1. r \notin {p, q} => Contents(r) \cap Contents(p) = {} /\ Contents(r) \cap Contents(q) = {}
      BY <2>1 DEF IndInv, Disjoint
    <3>2. QED
      BY <1>2, <2>2, <3>1
  <2>4. CASE r = p
    <3>1. Contents(p) \cap Contents(q) = {}
      BY <2>1 DEF IndInv, Disjoint
    <3>2. QED
      BY <1>1, <1>2, <2>2, <2>4, <3>1
  <2>5. CASE r = q
    BY <1>1, <1>2, <2>2, <2>5
  <2>6. CASE r \notin {p, q}
    <3>1. CASE r[1] = "free"
      <4>1. r[2] \in Spans /\ r[2] # s
        BY <2>1, <2>6, <3>1, PlaceForms, PlaceEqual
      <4>2. QED
        BY <1>1, <2>3, <2>6, <3>1, <4>1 DEF Contents
    <3>2. CASE r[1] = "owned"
      BY <1>1, <2>3, <2>6, <3>2 DEF Contents
    <3>3. CASE r[1] = "chain"
      <4>1. r[2] \in Threads
        BY <3>3, PlaceForms
      <4>2. th'[r[2]].chain = th[r[2]].chain
        BY <1>1, <4>1
      <4>3. QED
        BY <2>3, <2>6, <3>3, <4>2 DEF Contents
    <3>4. CASE r[1] = "rel"
      <4>1. r[2] \in Threads /\ r[2] # t
        BY <2>1, <2>6, <3>4, PlaceForms, PlaceEqual
      <4>2. QED
        BY <1>1, <2>3, <2>6, <3>4, <4>1 DEF Contents
    <3>5. CASE r[1] = "slot"
      <4>1. Contents(r)' = Contents(r)
        BY <1>5, <3>5, PlaceForms DEF Contents, used_slots
      <4>2. QED
        BY <2>3, <2>6, <4>1
    <3>6. QED
      BY <3>1, <3>2, <3>3, <3>4, <3>5, PlaceForms
  <2>7. QED
    BY <2>4, <2>5, <2>6
<1>10. InClass'
  <2>1. ASSUME NEW objects, NEW e, Of(objects, e), objects \subseteq Objects
        PROVE  \A x \in objects \ ObjectsOf(s) : x[1] \in LiveSpans' /\ span'[x[1]].cl = e
    <3>1. SUFFICES ASSUME NEW x \in objects \ ObjectsOf(s)
                   PROVE  x[1] \in LiveSpans' /\ span'[x[1]].cl = e
      OBVIOUS
    <3>2. x[1] \in LiveSpans /\ span[x[1]].cl = e /\ x[1] # s /\ x[1] \in Spans
      BY <2>1, ObjectFacts DEF Of
    <3>3. QED
      BY <1>1, <1>4, <3>2
  <2>2. ASSUME NEW u \in Threads, NEW x \in owned'[u] PROVE x[1] \in LiveSpans'
    <3>1. x \in owned[u] /\ <<"owned", u, 0>> \in Place
      BY <1>1 DEF Place
    <3>2. owned'[u] = owned[u] \ ObjectsOf(s)
      BY <1>9, <3>1, ContentsOf
    <3>3. x \in Objects /\ x[1] \in LiveSpans /\ x \notin ObjectsOf(s)
      BY <3>1, <3>2 DEF IndInv, TypeOK, InClass
    <3>4. x[1] # s
      BY <3>3, ObjectFacts
    <3>5. QED
      BY <1>4, <3>3, <3>4
  <2>3. ASSUME NEW u \in Threads PROVE Of(th[u].chain, th[u].cl)' /\ Of(th[u].rel, th[u].rc)'
    <3>1. /\ Of(th[u].chain, th[u].cl) /\ Of(th[u].rel, th[u].rc)
          /\ th[u].chain \subseteq Objects /\ th[u].rel \subseteq Objects
      BY CallFacts DEF IndInv, InClass, Calls
    <3>2. <<"chain", u, 0>> \in Place /\ <<"rel", u, 0>> \in Place
      BY DEF Place
    <3>3. /\ th'[u].chain = th[u].chain \ ObjectsOf(s) /\ th'[u].cl = th[u].cl
          /\ th'[u].rel = th[u].rel \ ObjectsOf(s) /\ th'[u].rc = th[u].rc
      <4>1. /\ th'[u].chain = th[u].chain \ ObjectsOf(s)
            /\ th'[u].rel = th[u].rel \ ObjectsOf(s)
        BY <1>9, <3>2, ContentsOf
      <4>2. QED
        BY <1>1, <4>1
    <3>4. /\ \A x \in th[u].chain \ ObjectsOf(s) : x[1] \in LiveSpans' /\ span'[x[1]].cl = th[u].cl
          /\ \A x \in th[u].rel \ ObjectsOf(s) : x[1] \in LiveSpans' /\ span'[x[1]].cl = th[u].rc
      BY <2>1, <3>1
    <3>5. QED
      BY <3>3, <3>4 DEF Of
  <2>4. ASSUME NEW e \in Classes, NEW i \in 1 .. used_slots(e)'
        PROVE  Of(central[e].slots[i], e)'
    <3>1. /\ i \in 1 .. used_slots(e) /\ central'[e].slots = central[e].slots
          /\ used_slots(e)' = used_slots(e)
      BY <1>5 DEF used_slots
    <3>2. /\ used_slots(e) \in Nat /\ used_slots(e) <= max_cache_size /\ max_cache_size \in Nat
          /\ central[e].slots[i] \subseteq Objects
      <4>1. /\ used_slots(e) \in Nat /\ used_slots(e) <= max_cache_size /\ max_cache_size \in Nat
        BY ClassFacts
      <4>2. PICK q \in Seq(SUBSET Objects) : q = central[e].slots
        BY ClassFacts DEF Lists
      <4>3. i \in 1 .. Len(q)
        BY <3>1, <4>2 DEF used_slots
      <4>4. q[i] \in SUBSET Objects
        BY <4>3
      <4>5. QED
        BY <4>1, <4>2, <4>4
    <3>3. PICK j \in 1 .. max_cache_size : j = i
      BY <3>1, <3>2
    <3>4. <<"slot", e, j>> \in Place
      BY DEF Place
    <3>5. /\ Contents(<<"slot", e, j>>) = central[e].slots[j]
          /\ Contents(<<"slot", e, j>>)' = central'[e].slots[j]
      <4>1. j <= used_slots(e) /\ j <= used_slots(e)'
        BY <3>1, <3>2, <3>3
      <4>2. Contents(<<"slot", e, j>>) = central[e].slots[j]
        BY <4>1, ContentsOf
      <4>3. Contents(<<"slot", e, j>>)' = central'[e].slots[j]
        BY <4>1, ContentsOf
      <4>4. QED
        BY <4>2, <4>3
    <3>6. central'[e].slots[i] = central[e].slots[i] \ ObjectsOf(s)
      BY <1>9, <3>3, <3>4, <3>5
    <3>7. Of(central[e].slots[i], e)
      BY <3>1 DEF IndInv, InClass
    <3>8. \A x \in central[e].slots[i] \ ObjectsOf(s) : x[1] \in LiveSpans' /\ span'[x[1]].cl = e
      BY <2>1, <3>2, <3>7
    <3>9. QED
      BY <3>6, <3>8 DEF Of
  <2>5. QED
    BY <2>2, <2>3, <2>4 DEF InClass
<1>11. Disjoint' /\ Covered'
  <2>1. Disjoint'
    BY <1>9 DEF IndInv, Disjoint
  <2>2. \A x \in Objects : Somewhere(x)' <=> Somewhere(x) /\ x \notin ObjectsOf(s)
    BY <1>9 DEF Somewhere
  <2>3. ASSUME NEW x \in Objects
        PROVE  Somewhere(x)' <=> span'[x[1]].list \in {"nonempty", "empty", "new"}
    <3>1. x[1] \in Spans /\ (x \in ObjectsOf(s) <=> x[1] = s)
      BY ObjectFacts
    <3>2. Somewhere(x) <=> span[x[1]].list \in {"nonempty", "empty", "new"}
      BY DEF IndInv, Covered
    <3>3. QED
      BY <1>1, <2>2, <3>1, <3>2
  <2>4. QED
    BY <2>1, <2>3 DEF Covered
<1>12. Counted'
  <2>1. PICK sq \in [Spans -> Descriptors] : sq = span
    BY DEF IndInv, TypeOK
  <2>2. PICK sp \in [Spans -> Descriptors] : sp = span'
    BY <1>1 DEF TypeOK
  <2>3. /\ \A r \in Spans : sq[r].free \subseteq ObjectsOf(r)
        /\ \A r \in Spans : sp[r].free \subseteq ObjectsOf(r)
    BY <1>1, <1>2, <2>1, <2>2 DEF IndInv, SpansOK, SpanOK
  <2>4. ASSUME NEW e \in Classes, NEW x
        PROVE  x \in FreeObjects(sp, e) <=> /\ x \in Objects /\ x \in sp[x[1]].free
                                            /\ sp[x[1]].cl = e /\ sp[x[1]].list = "nonempty"
    BY <2>3, FreeObjectsFacts
  <2>5. ASSUME NEW e \in Classes, NEW x
        PROVE  x \in FreeObjects(sq, e) <=> /\ x \in Objects /\ x \in sq[x[1]].free
                                            /\ sq[x[1]].cl = e /\ sq[x[1]].list = "nonempty"
    BY <2>3, FreeObjectsFacts
  <2>6. sq[s].free # {} => sq[s].list = "nonempty"
    BY <1>2, <2>1 DEF IndInv, SpansOK, SpanOK, LiveSpans
  <2>7. ASSUME NEW e \in Classes, NEW x \in Objects
        PROVE  x \in FreeObjects(sp, e) <=> x \in FreeObjects(sq, e) /\ x \notin sq[s].free
    <3>1. CASE x[1] = s
      <4>1. sp[s].free = {}
        BY <1>1, <2>2
      <4>2. QED
        BY <2>4, <2>5, <3>1, <4>1
    <3>2. CASE x[1] # s
      <4>1. x[1] \in Spans /\ x \notin ObjectsOf(s)
        BY <3>2, ObjectFacts
      <4>2. sp[x[1]] = sq[x[1]] /\ x \notin sq[s].free
        BY <1>1, <2>1, <2>2, <2>3, <3>2, <4>1
      <4>3. QED
        BY <2>4, <2>5, <4>2
    <3>3. QED
      BY <3>1, <3>2
  <2>8. \A e \in Classes : FreeObjects(sp, e) \subseteq Objects /\ FreeObjects(sq, e) \subseteq Objects
    BY <2>4, <2>5
  <2>9. sq[s].free \subseteq FreeObjects(sq, c)
    <3>1. ASSUME NEW x \in sq[s].free PROVE x \in FreeObjects(sq, c)
      <4>1. x \in Objects /\ x[1] = s
        BY <2>3, ObjectFacts
      <4>2. QED
        BY <1>2, <2>1, <2>5, <2>6, <4>1
    <3>2. QED
      BY <3>1
  <2>10. FreeObjects(sp, c) = FreeObjects(sq, c) \ sq[s].free
    BY <2>7, <2>8
  <2>11. ASSUME NEW e \in Classes \ {c} PROVE FreeObjects(sp, e) = FreeObjects(sq, e)
    <3>1. ASSUME NEW x \in FreeObjects(sq, e) PROVE x \notin sq[s].free
      <4>1. sq[x[1]].cl = e /\ x \in Objects
        BY <2>5
      <4>2. x[1] # s
        BY <1>2, <2>1, <4>1
      <4>3. QED
        BY <2>3, <4>1, <4>2, ObjectFacts
    <3>2. QED
      BY <2>7, <2>8, <3>1
  <2>12. IsFiniteSet(FreeObjects(sq, c)) /\ Cardinality(FreeObjects(sq, c)) \in Nat
    BY <2>3, FreeObjectsFacts, FS_CardinalityType
  <2>13. Cardinality(FreeObjects(sp, c)) = Cardinality(FreeObjects(sq, c)) + 1 - ObjectsPerSpan
    <3>1. FreeObjects(sq, c) \cap sq[s].free = sq[s].free
      BY <2>9
    <3>2. Cardinality(FreeObjects(sq, c) \ sq[s].free)
            = Cardinality(FreeObjects(sq, c)) - Cardinality(FreeObjects(sq, c) \cap sq[s].free)
      BY <2>12, FS_Difference
    <3>3. 1 = ObjectsPerSpan - Cardinality(sq[s].free) /\ Cardinality(sq[s].free) \in Nat
      BY <1>2, <2>1
    <3>4. ObjectsPerSpan \in Nat
      BY ObjectFacts
    <3>5. Cardinality(FreeObjects(sp, c)) = Cardinality(FreeObjects(sq, c)) - Cardinality(sq[s].free)
      BY <2>10, <3>1, <3>2
    <3>6. QED
      BY <2>12, <3>3, <3>4, <3>5
  <2>14. \A e \in Classes : /\ FreeObjects(span, e)' = FreeObjects(sp, e)
                            /\ FreeObjects(span, e) = FreeObjects(sq, e)
    BY <2>1, <2>2 DEF FreeObjects
  <2>15. \A e \in Classes : central'[e].counter = Cardinality(FreeObjects(span, e)')
    <3>1. \A e \in Classes : central[e].counter = Cardinality(FreeObjects(sq, e))
      BY <2>14 DEF IndInv, Counted
    <3>2. central'[c].counter = Cardinality(FreeObjects(sp, c))
      BY <1>1, <2>13, <3>1
    <3>3. \A e \in Classes \ {c} : central'[e].counter = Cardinality(FreeObjects(sp, e))
      BY <1>1, <2>11, <3>1
    <3>4. QED
      BY <2>14, <3>2, <3>3
  <2>16. ASSUME NEW e \in Classes \ {c}
         PROVE  {r \in LiveSpans : span[r].cl = e}' = {r \in LiveSpans : span[r].cl = e}
    BY <1>1, <1>2, <1>4 DEF LiveSpans
  <2>17. {r \in LiveSpans : span[r].cl = c}' = {r \in LiveSpans : span[r].cl = c} \ {s}
    BY <1>1, <1>4 DEF LiveSpans
  <2>18. Cardinality({r \in LiveSpans : span[r].cl = c}')
           = Cardinality({r \in LiveSpans : span[r].cl = c}) - 1
    <3>1. {r \in LiveSpans : span[r].cl = c} \in SUBSET Spans
      BY DEF LiveSpans
    <3>2. IsFiniteSet({r \in LiveSpans : span[r].cl = c})
      BY <3>1, FS_Subset DEF CentralConstants
    <3>3. s \in {r \in LiveSpans : span[r].cl = c}
      BY <1>2
    <3>4. Cardinality({r \in LiveSpans : span[r].cl = c} \ {s})
            = Cardinality({r \in LiveSpans : span[r].cl = c}) - 1
      BY <3>2, <3>3, FS_RemoveElement
    <3>5. QED
      BY <2>17, <3>4
  <2>19. \A e \in Classes : central'[e].num_spans = Cardinality({r \in LiveSpans : span[r].cl = e}')
    <3>1. \A e \in Classes : central[e].num_spans = Cardinality({r \in LiveSpans : span[r].cl = e})
      BY DEF IndInv, Counted
    <3>2. central'[c].num_spans = Cardinality({r \in LiveSpans : span[r].cl = c}')
      BY <1>1, <2>18, <3>1
    <3>3. \A e \in Classes \ {c} :
            central'[e].num_spans = Cardinality({r \in LiveSpans : span[r].cl = e}')
      BY <1>1, <2>16, <3>1
    <3>4. QED
      BY <3>2, <3>3
  <2>20. QED
    BY <2>15, <2>19 DEF Counted
<1>13. SlotsBounded'
  BY <1>5 DEF IndInv, SlotsBounded, used_slots
<1>14. QED
  BY <1>1, <1>6, <1>7, <1>8, <1>10, <1>11, <1>12, <1>13 DEF IndInv

(* ReleaseListToSpans, one object.                                            *)
LEMMA ReleaseOneKeeps ==
  ASSUME CentralConstants, IndInv, NEW t \in Threads, ReleaseOne(t)
  PROVE  IndInv'
<1>1. th[t].pc = "release" /\ th[t].rel # {}
  BY DEF ReleaseOne
<1>2. PICK o \in th[t].rel : o = CHOOSE x \in th[t].rel : TRUE
  BY <1>1
<1>3. /\ o \in Objects /\ o[1] \in Spans /\ o[1] \in LiveSpans /\ o[1] # NoSpan
  BY <1>1, ReleaseFacts DEF CentralConstants
<1>4. PICK s \in Spans : s = o[1]
  BY <1>3
<1>5. /\ th[t] \in Calls /\ th[t].rc \in Classes /\ th[t].span = NoSpan
  BY <1>1, CallFacts DEF CallOK, Releasing
<1>6. PICK c \in Classes : c = th[t].rc
  BY <1>5
<1>7. /\ central[c] \in Lists /\ span[s] \in Descriptors
      /\ ObjectsPerSpan \in Nat
  BY ClassFacts, ObjectFacts DEF IndInv, TypeOK
<1>8. /\ Released(c, s, o) /\ UNCHANGED owned
      /\ th' = [th EXCEPT ![t].rel = @ \ {o},
                  ![t].pc = IF span'[s].list = "dead" THEN "delete" ELSE "release",
                  ![t].span = IF span'[s].list = "dead" THEN s ELSE NoSpan]
  BY <1>2, <1>4, <1>6 DEF ReleaseOne, MapObjectToSpan
<1>9. CASE span[s].refcount = 1
  <2> DEFINE d == [span[s] EXCEPT !.refcount = @ - 1, !.free = {}, !.list = "dead"]
             l == [central[c] EXCEPT !.counter = @ + 1 - ObjectsPerSpan,
                                     !.num_spans = @ - 1, !.lock = NONE]
             k == [th[t] EXCEPT !.rel = @ \ {o}, !.pc = "delete", !.span = s]
  <2>1. d \in Descriptors /\ d.list = "dead" /\ d.free = {}
    <3>1. PICK q \in Descriptors : q = span[s]
      BY <1>7
    <3>2. PICK n \in Int : n = q.refcount - 1
      BY DEF Descriptors
    <3>3. d = [q EXCEPT !.refcount = n, !.free = {}, !.list = "dead"]
      BY <3>1, <3>2
    <3>4. QED
      BY <3>3 DEF Descriptors
  <2>2. l \in Lists
    <3>1. PICK q \in Lists : q = central[c]
      BY <1>7
    <3>2. PICK n \in Int : n = q.counter + 1 - ObjectsPerSpan
      BY <1>7 DEF Lists
    <3>3. PICK m \in Int : m = q.num_spans - 1
      BY DEF Lists
    <3>4. l = [q EXCEPT !.counter = n, !.num_spans = m, !.lock = NONE]
      BY <3>1, <3>2, <3>3
    <3>5. QED
      BY <3>4 DEF Lists
  <2>3. /\ l.lock = NONE /\ l.slots = central[c].slots
        /\ l.cache_size = central[c].cache_size /\ l.num_spans = central[c].num_spans - 1
        /\ l.counter = central[c].counter + 1 - ObjectsPerSpan
    BY <1>7 DEF Lists
  <2>4. k \in Calls
    BY <1>5 DEF Calls, Labels
  <2>5. /\ k.pc = "delete" /\ k.cl = th[t].cl /\ k.rc = c /\ k.chain = th[t].chain
        /\ k.rel = th[t].rel \ {o} /\ k.span = s
    BY <1>5, <1>6 DEF Calls
  <2>6. span' = [span EXCEPT ![s] = d]
    BY <1>8, <1>9 DEF Released
  <2>7. central' = [central EXCEPT ![c] = l]
    BY <1>8, <1>9 DEF Released
  <2>8. span'[s].list = "dead"
    BY <2>1, <2>6 DEF IndInv, TypeOK
  <2>9. th' = [th EXCEPT ![t] = k]
    BY <1>8, <2>8
  <2>10. Changes(t, c, s, k, l, d)
    BY <1>8, <2>6, <2>7, <2>9 DEF Changes
  <2> HIDE DEF d, l, k
  <2>11. QED
    BY <1>1, <1>4, <1>6, <1>9, <2>1, <2>2, <2>3, <2>4, <2>5, <2>10, ReleaseLast
<1>10. CASE span[s].refcount # 1
  <2> DEFINE d == [span[s] EXCEPT !.refcount = @ - 1, !.free = @ \cup {o}, !.list = "nonempty"]
             l == [central[c] EXCEPT !.counter = @ + 1]
             k == [th[t] EXCEPT !.rel = @ \ {o}, !.pc = "release", !.span = NoSpan]
  <2>1. /\ d \in Descriptors /\ d.cl = span[s].cl /\ d.list = "nonempty"
        /\ d.free = span[s].free \cup {o} /\ d.refcount = span[s].refcount - 1
    <3>1. PICK q \in Descriptors : q = span[s]
      BY <1>7
    <3>2. PICK n \in Int : n = q.refcount - 1
      BY DEF Descriptors
    <3>3. PICK f \in SUBSET Objects : f = q.free \cup {o}
      BY <1>3 DEF Descriptors
    <3>4. d = [q EXCEPT !.refcount = n, !.free = f, !.list = "nonempty"]
      BY <3>1, <3>2, <3>3
    <3>5. /\ d \in Descriptors /\ d.cl = q.cl /\ d.list = "nonempty"
          /\ d.free = f /\ d.refcount = n
      BY <3>4 DEF Descriptors
    <3>6. QED
      BY <3>1, <3>2, <3>3, <3>5
  <2>2. l \in Lists
    BY <1>7 DEF Lists
  <2>3. /\ l.lock = central[c].lock /\ l.slots = central[c].slots
        /\ l.cache_size = central[c].cache_size /\ l.num_spans = central[c].num_spans
        /\ l.counter = central[c].counter + 1
    BY <1>7 DEF Lists
  <2>4. k \in Calls
    BY <1>5 DEF Calls, Labels
  <2>5. /\ k.pc = "release" /\ k.cl = th[t].cl /\ k.rc = c /\ k.chain = th[t].chain
        /\ k.rel = th[t].rel \ {o} /\ k.span = NoSpan
    BY <1>5, <1>6 DEF Calls
  <2>6. span' = [span EXCEPT ![s] = d]
    BY <1>8, <1>10 DEF Released
  <2>7. central' = [central EXCEPT ![c] = l]
    <3>1. PICK n \in Int : n = central[c].counter
      BY <1>7 DEF Lists
    <3>2. n + 1 - 0 = n + 1
      OBVIOUS
    <3>3. QED
      BY <1>8, <1>10, <1>7, <3>1, <3>2 DEF Released, Lists
  <2>8. span'[s].list # "dead"
    BY <2>1, <2>6 DEF IndInv, TypeOK
  <2>9. th' = [th EXCEPT ![t] = k]
    BY <1>8, <2>8
  <2>10. Changes(t, c, s, k, l, d)
    BY <1>8, <2>6, <2>7, <2>9 DEF Changes
  <2> HIDE DEF d, l, k
  <2>11. QED
    BY <1>1, <1>4, <1>6, <1>10, <2>1, <2>2, <2>3, <2>4, <2>5, <2>10, ReleaseToSpan
<1>11. QED
  BY <1>9, <1>10

-----------------------------------------------------------------------------
LEMMA InitIndInv == CentralConstants /\ Init => IndInv
<1> SUFFICES ASSUME CentralConstants, Init PROVE IndInv
  OBVIOUS
<1>1. /\ \A c \in Classes : /\ central[c].lock = NONE /\ central[c].slots = <<>>
                            /\ central[c].cache_size = cache_size0 /\ central[c].counter = 0
                            /\ central[c].num_spans = 0
      /\ \A s \in Spans : span[s].list = "heap" /\ span[s].free = {} /\ span[s].cl = NONE
      /\ \A t \in Threads : th[t] = Idle /\ owned[t] = {}
  BY DEF Init
<1>2. \A t \in Threads : /\ th[t].pc = "idle" /\ th[t].cl = NONE /\ th[t].chain = {}
                         /\ th[t].rc = NONE /\ th[t].rel = {} /\ th[t].span = NoSpan
  BY <1>1 DEF Idle
<1>3. \A c \in Classes : used_slots(c) = 0
  BY <1>1 DEF used_slots
<1>4. NONE \notin Threads /\ cache_size0 \in 0 .. max_cache_size
  BY DEF CentralConstants
<1>5. TypeOK
  <2>1. th \in [Threads -> Calls]
    BY IdleTyped DEF Init
  <2>2. central \in [Classes -> Lists]
    BY <1>4 DEF Init, Lists
  <2>3. span \in [Spans -> Descriptors]
    BY DEF Init, Descriptors
  <2>4. owned \in [Threads -> SUBSET Objects]
    BY DEF Init
  <2>5. QED
    BY <2>1, <2>2, <2>3, <2>4 DEF TypeOK
<1>6. LocksHeld
  BY <1>1, <1>2, <1>4 DEF LocksHeld, Holds
<1>7. CallsOK
  BY <1>2 DEF CallsOK, CallOK, Releasing, Inserting
<1>8. SpansOK
  BY <1>1 DEF SpansOK, SpanOK
<1>9. InClass
  BY <1>1, <1>2, <1>3 DEF InClass, Of
<1>10. \A p \in Place : Contents(p) = {}
  BY <1>1, <1>2, <1>3, PlaceForms DEF Contents
<1>11. Disjoint
  BY <1>10 DEF Disjoint
<1>12. Covered
  BY <1>1, <1>10, ObjectFacts DEF Covered, Somewhere
<1>13. Counted
  <2>1. LiveSpans = {} /\ \A c \in Classes : FreeObjects(span, c) = {}
    BY <1>1 DEF LiveSpans, FreeObjects
  <2>2. Cardinality({}) = 0
    BY FS_EmptySet
  <2>3. \A c \in Classes : {s \in LiveSpans : span[s].cl = c} = {}
    BY <2>1
  <2>4. QED
    BY <1>1, <2>1, <2>2, <2>3 DEF Counted
<1>14. SlotsBounded
  BY <1>1, <1>3, <1>4 DEF SlotsBounded
<1>15. QED
  BY <1>5, <1>6, <1>7, <1>8, <1>9, <1>11, <1>12, <1>13, <1>14 DEF IndInv

LEMMA NextIndInv == CentralConstants /\ IndInv /\ [Next]_vars => IndInv'
<1> SUFFICES ASSUME CentralConstants, IndInv, [Next]_vars PROVE IndInv'
  OBVIOUS
<1>1. CASE Next
  <2>1. PICK t \in Threads : \/ ThreadStep(t)
                             \/ \E objs \in SUBSET owned[t] : InsertRange(t, objs)
                             \/ \E c \in Classes, n \in 1 .. Batch : RemoveRange(t, c, n)
    BY <1>1 DEF Next
  <2>2. CASE ThreadStep(t)
    BY <2>2, InsertLockedKeeps, EvictRandomSizeClassKeeps, ShrinkCacheKeeps, InverterBackKeeps,
       NotEvictedKeeps, ReleaseOneKeeps, ReleaseDoneKeeps, DeleteSpanKeeps, RelockKeeps,
       RemoveLockedKeeps, PopulateNewKeeps, PopulateLockedKeeps DEF ThreadStep
  <2>3. CASE \E objs \in SUBSET owned[t] : InsertRange(t, objs)
    BY <2>3, InsertRangeKeeps
  <2>4. CASE \E c \in Classes, n \in 1 .. Batch : RemoveRange(t, c, n)
    BY <2>4, RemoveRangeKeeps
  <2>5. QED
    BY <2>1, <2>2, <2>3, <2>4
<1>2. CASE UNCHANGED vars
  <2> USE <1>2 DEF vars
  <2>1. TypeOK' /\ LocksHeld' /\ CallsOK' /\ SpansOK'
    BY DEF IndInv, TypeOK, LocksHeld, Holds, CallsOK, CallOK, SpansOK, SpanOK
  <2>2. LiveSpans' = LiveSpans /\ \A c \in Classes : used_slots(c)' = used_slots(c)
    BY DEF LiveSpans, used_slots
  <2>3. InClass'
    BY <2>2 DEF IndInv, InClass, Of
  <2>4. \A p \in Place : Contents(p)' = Contents(p)
    BY DEF Contents, used_slots
  <2>5. Disjoint' /\ Covered'
    BY <2>4 DEF IndInv, Disjoint, Covered, Somewhere
  <2>6. Counted' /\ SlotsBounded'
    <3>1. span' = span /\ central' = central
      OBVIOUS
    <3>2. \A c \in Classes : FreeObjects(span, c)' = FreeObjects(span, c)
      BY <3>1 DEF FreeObjects
    <3>3. \A c \in Classes : {s \in LiveSpans : span[s].cl = c}' = {s \in LiveSpans : span[s].cl = c}
      BY <2>2, <3>1
    <3>4. Counted'
      BY <3>1, <3>2, <3>3 DEF IndInv, Counted
    <3>5. SlotsBounded'
      BY <2>2, <3>1 DEF IndInv, SlotsBounded
    <3>6. QED
      BY <3>4, <3>5
  <2>7. QED
    BY <2>1, <2>3, <2>5, <2>6 DEF IndInv
<1>3. QED
  BY <1>1, <1>2

LEMMA Inductive == ASSUME CentralConstants PROVE Spec => []IndInv
<1>1. CentralConstants
  OBVIOUS
<1>2. Init => IndInv
  BY <1>1, InitIndInv
<1>3. IndInv /\ [Next]_vars => IndInv'
  BY <1>1, NextIndInv
<1>4. QED
  BY <1>2, <1>3, PTL DEF Spec

-----------------------------------------------------------------------------
(* Every list, descriptor and call record has its type.                       *)
THEOREM TypeCorrect == ASSUME CentralConstants PROVE Spec => []TypeOK
<1>1. IndInv => TypeOK
  BY DEF IndInv
<1>2. QED
  BY <1>1, Inductive, PTL

(* The locks are inverted, never nested: a call that waits for the lock of a  *)
(* class (LockInverter, Populate, ReleaseToSpans after a deletion) holds none. *)
THEOREM LocksInverted == ASSUME CentralConstants PROVE Spec => []NoHoldAndWait
<1>1. IndInv => NoHoldAndWait
  BY DEF IndInv, LocksHeld, Holds, NoHoldAndWait
<1>2. QED
  BY <1>1, Inductive, PTL

(* However the operations interleave at the points where they drop a lock, no *)
(* object of a listed span is lost or in two lists, and none of a span that   *)
(* went back to the page heap is left anywhere.                               *)
THEOREM NoneLostNoneTwice == ASSUME CentralConstants PROVE Spec => []ObjectsInOnePlace
<1>1. IndInv => ObjectsInOnePlace
  <2> SUFFICES ASSUME IndInv, NEW o \in Objects
                 PROVE  IF o[1] \in LiveSpans \/ span[o[1]].list = "new"
                          THEN \E p \in Place : {q \in Place : o \in Contents(q)} = {p}
                          ELSE {q \in Place : o \in Contents(q)} = {}
    BY DEF ObjectsInOnePlace
  <2>2. o[1] \in Spans
    BY ObjectFacts
  <2>3. Somewhere(o) <=> o[1] \in LiveSpans \/ span[o[1]].list = "new"
    BY <2>2 DEF IndInv, Covered, LiveSpans
  <2>4. CASE Somewhere(o)
    <3>1. PICK p \in Place : o \in Contents(p)
      BY <2>4 DEF Somewhere
    <3>2. {q \in Place : o \in Contents(q)} = {p}
      BY <3>1 DEF IndInv, Disjoint
    <3>3. QED
      BY <2>3, <2>4, <3>2
  <2>5. CASE ~Somewhere(o)
    <3>1. {q \in Place : o \in Contents(q)} = {}
      BY <2>5 DEF Somewhere
    <3>2. QED
      BY <2>3, <2>5, <3>1
  <2>6. QED
    BY <2>4, <2>5
<1>2. QED
  BY <1>1, Inductive, PTL

(* A span's refcount counts the objects outside its list, so ReleaseToSpans   *)
(* gives a span back exactly when the last of them has returned.              *)
THEOREM RefcountsCorrect == ASSUME CentralConstants PROVE Spec => []RefcountsRight
<1>1. IndInv => RefcountsRight
  BY DEF IndInv, SpansOK, SpanOK, RefcountsRight, LiveSpans
<1>2. QED
  BY <1>1, Inductive, PTL

(* counter_ and num_spans_ never drift from the lists, over any sequence of   *)
(* fetches, releases and deletions.                                           *)
THEOREM CountersCorrect == ASSUME CentralConstants PROVE Spec => []CountersAgree
<1>1. IndInv => CountersAgree
  BY DEF IndInv, Counted, CountersAgree
<1>2. QED
  BY <1>1, Inductive, PTL

(* cache_size_ stays in 0 .. max_cache_size_ and the slots in use below it,   *)
(* although the size is read without the lock before a slot moves.            *)
THEOREM CachesBounded == ASSUME CentralConstants PROVE Spec => []SlotsBounded
<1>1. IndInv => SlotsBounded
  BY DEF IndInv
<1>2. QED
  BY <1>1, Inductive, PTL

(* With locks that are dropped in the middle of every operation, objects,     *)
(* counts, slots and locks stay consistent: what the run checks, for any      *)
(* number of threads, classes, spans and objects.                             *)
THEOREM AllAccounted == ASSUME CentralConstants PROVE Spec => []ObjectsAccounted
<1>1. TypeOK /\ ObjectsInOnePlace /\ RefcountsRight /\ CountersAgree /\ SlotsBounded
        /\ NoHoldAndWait => ObjectsAccounted
  BY DEF ObjectsAccounted
<1>2. QED
  BY <1>1, TypeCorrect, NoneLostNoneTwice, RefcountsCorrect, CountersCorrect, CachesBounded,
     LocksInverted, PTL

=============================================================================
