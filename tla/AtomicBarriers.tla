--------------------------- MODULE AtomicBarriers ---------------------------
(* The ordering half of atomicops.h: a thread does a memory access, an      *)
(* atomic operation and another memory access.  The processor performs the  *)
(* accesses in any order its memory model allows across the fences that the *)
(* platform's header puts in.                                               *)
EXTENDS AtomicPlatforms, Sequences

CONSTANTS
  UsedPlatforms, \* the headers that are checked
  Cpus,          \* the x86 processors: cpuid fields
  Gaps           \* <<platform, op, path>> left out of the two properties

VARIABLES
  program,    \* the accesses and fences of the thread, in program order
  performed,  \* the accesses that other processors have seen
  about       \* platform, operation, path and processor

vars == <<program, performed, about>>

Access(kind, role) == [kind |-> kind, role |-> role]
FenceAt(kind) == IF kind = "none" THEN <<>> ELSE <<Access(kind, "fence")>>
Plain(op) == IF op \in Stores THEN "store" ELSE "load"

(* The accesses of one operation.  The one that decides it is the last one  *)
(* of a successful operation, and the load whose value a failed             *)
(* compare-and-swap returns.                                                *)
PrimitiveOf(c, op, fails) ==
  CASE c.prim = "access" -> <<Access(Plain(op), "op")>>
    [] c.prim \in {"locked", "os"} ->
         (IF c.loop = "read_first" THEN <<Access("load", "feed")>> ELSE <<>>)
           \o <<Access(IF c.prim = "locked" THEN "locked" ELSE "rmw", "op")>>
    [] c.prim = "llsc" ->
         (IF c.loop = "read_first" THEN <<Access("load", "feed")>> ELSE <<>>)
           \o <<Access("load", IF fails THEN "op" ELSE "feed")>> \o FenceAt(c.inner)
           \o (IF fails THEN <<>> ELSE <<Access("sc", "op")>>)

OpProgram(c, op, fails) ==
  LET p == PrimitiveOf(c, op, fails)
  IN IF fails /\ c.loop = "reread"
       THEN FenceAt(c.before) \o [i \in 1 .. Len(p) |-> [p[i] EXCEPT !.role = "feed"]]
              \o FenceAt(c.after) \o <<Access("load", "op")>>
       ELSE FenceAt(c.before) \o p \o FenceAt(c.after)

Model(platform) ==
  CASE platform \in {"x86", "x86_64/64", "i386/64", "mac_i386/64", "windows", "win64/64"} -> "tso"
    [] OTHER -> "weak"

X86Headers == {"x86", "x86_64/64", "i386/64"}
OtherCpu == CHOOSE cpu \in Cpus : ~cpu.amd

Init ==
  \E platform \in UsedPlatforms, op \in Ops, cpu \in Cpus,
     first, last \in {"load", "store"}, fails \in BOOLEAN :
    LET c == AtomicWordForward(platform, op, AtomicOps_Internalx86CPUFeaturesInit(cpu))
    IN /\ c.prim # "abort"
       /\ platform \notin X86Headers => cpu = OtherCpu
       /\ fails => op \in CompareAndSwaps
       /\ program = <<Access(first, "before")>> \o OpProgram(c, op, fails)
                      \o <<Access(last, "after")>>
       /\ performed = {}
       /\ about = [platform |-> platform, op |-> op, cpu |-> cpu,
                   path |-> IF fails THEN "fails" ELSE "succeeds"]

-----------------------------------------------------------------------------
(* The processors (external).                                               *)
Reads(a) == a.kind \in {"load", "locked", "rmw"}
Writes(a) == a.kind \in {"store", "sc", "locked", "rmw"}
IsFence(a) == a.role = "fence"

(* The AMD processors whose locked instructions do not hold back what       *)
(* follows: display family 15, models 32 to 63.                             *)
LockBug(cpu) == cpu.amd /\ cpu.family = 15 /\ cpu.ext_family = 0
                  /\ cpu.model + 16 * cpu.ext_model \in 32 .. 63

(* Does a fence keep an earlier access ahead of a later one?                *)
FenceOrders(kind, a, b) ==
  CASE kind = "full" -> TRUE
    [] kind = "lwsync" -> Reads(a) \/ ~Reads(b)
    [] kind = "isync" -> a.role \in {"op", "feed"}   \* after the branch on it
    [] kind = "lfence" -> Reads(a)

OrderedPair(i, j) ==
  LET a == program[i]  b == program[j]
  IN \/ \E k \in i .. j : IsFence(program[k]) /\ FenceOrders(program[k].kind, a, b)
     \/ a.role \in {"op", "feed"} /\ b.role \in {"op", "feed"}     \* the same word
     \/ a.kind = "locked" /\ ~LockBug(about.cpu)
     \/ b.kind = "locked"
     \/ Model(about.platform) = "tso" /\ a.kind # "locked" /\ ~(~Reads(a) /\ Reads(b))
     \/ a.kind \in {"load", "sc"} /\ a.role \in {"op", "feed"} /\ Writes(b)
          /\ \E k \in i .. j : program[k].kind = "sc"   \* stores wait for the branch

Perform(i) ==
  /\ i \notin performed
  /\ ~IsFence(program[i])
  /\ \A k \in 1 .. i - 1 : ~IsFence(program[k]) /\ OrderedPair(k, i) => k \in performed
  /\ performed' = performed \cup {i}
  /\ UNCHANGED <<program, about>>

Next == \E i \in DOMAIN program : Perform(i)

Spec == Init /\ [][Next]_vars

-----------------------------------------------------------------------------
TypeOK ==
  /\ performed \subseteq DOMAIN program
  /\ \A i \in DOMAIN program : program[i].role \in {"before", "feed", "op", "fence", "after"}

With(role) == {i \in DOMAIN program : program[i].role = role}
Checked == <<about.platform, about.op, about.path>> \notin Gaps

(* "Acquire operations ensure that no later memory access can be reordered  *)
(* ahead of the operation", on every header and every x86 processor.        *)
AcquireHolds ==
  about.op \in AcquireOps /\ Checked /\ With("after") \subseteq performed
    => With("op") \subseteq performed

(* "Release operations ensure that no previous memory access can be         *)
(* reordered after the operation".                                          *)
ReleaseHolds ==
  about.op \in ReleaseOps /\ Checked /\ With("op") \subseteq performed
    => With("before") \subseteq performed
=============================================================================
