-------------------------- MODULE AtomicPlatforms --------------------------
(* What atomicops.h promises and how each platform header provides it.  A   *)
(* table gives, for every operation, the primitive it is built from, the    *)
(* loop around the primitive and the fences before, inside and after it.    *)
EXTENDS Integers

CompareAndSwaps == {"NoBarrier_CompareAndSwap", "Acquire_CompareAndSwap",
                    "Release_CompareAndSwap"}
Increments == {"NoBarrier_AtomicIncrement", "Barrier_AtomicIncrement"}
Stores == {"NoBarrier_Store", "Acquire_Store", "Release_Store"}
Loads == {"NoBarrier_Load", "Acquire_Load", "Release_Load"}
AcquireOps == {"Acquire_CompareAndSwap", "Acquire_Store", "Acquire_Load",
               "Barrier_AtomicIncrement"}
ReleaseOps == {"Release_CompareAndSwap", "Release_Store", "Release_Load",
               "Barrier_AtomicIncrement"}

(* The interface that every header implements.                              *)
Ops == CompareAndSwaps \cup {"NoBarrier_AtomicExchange"} \cup Increments
         \cup Stores \cup Loads
ReadModifyWrites == Ops \ (Stores \cup Loads)

(* An operation of a table.  prim: "access" a plain load or store, "locked" *)
(* one instruction that is also a fence, "os" an atomic library call        *)
(* without one, "llsc" load-linked and store-conditional, "abort".          *)
(* loop: "once", "reread" when the primitive only says whether it swapped   *)
(* and a failure loads the value again, "read_first" when a load feeds it.  *)
(* half: the primitive compares only the low half of the word.              *)
Op(prim, loop, before, inner, after) ==
  [prim |-> prim, loop |-> loop, half |-> FALSE,
   before |-> before, inner |-> inner, after |-> after]

Fence(on, kind) == IF on THEN kind ELSE "none"

(* A fence before the release operations and after the acquire operations.  *)
FencedAround(op, prim, loop) ==
  Op(prim, loop, Fence(op \in ReleaseOps, "full"), "none",
     Fence(op \in AcquireOps, "full"))

NotImplementedFatalError == Op("abort", "once", "none", "none", "none")

-----------------------------------------------------------------------------
(* Mutant: the model field without its extension.                           *)
FeaturesBaseModelOnly(cpu) ==
  [has_amd_lock_mb_bug |-> cpu.amd /\ cpu.family = 15 /\ cpu.model \in 32 .. 63,
   has_sse2 |-> cpu.sse2]

(* cpuid leaf 1 splits family and model in two fields each; the Opteron     *)
(* whose locked instructions are no acquire barrier is family 15, model     *)
(* 32..63.  The flags are false until the initializer has run.              *)
AtomicOps_Internalx86CPUFeaturesInit(cpu) ==
  LET extended == cpu.family = 15
      family == IF extended THEN cpu.family + cpu.ext_family ELSE cpu.family
      model == IF extended THEN cpu.model + 16 * cpu.ext_model ELSE cpu.model
  IN [has_amd_lock_mb_bug |-> cpu.amd /\ family = 15 /\ model \in 32 .. 63,
      has_sse2 |-> cpu.sse2]

AfterLocked(op, f) ==
  Fence(op \in {"Acquire_CompareAndSwap", "Barrier_AtomicIncrement"}
          /\ f.has_amd_lock_mb_bug, "lfence")

(* atomicops-internals-x86.h.  Without SSE2 there is no mfence, and an      *)
(* exchange stands for the fence and for the store before it.               *)
X86_Ops32(op, f) ==
  CASE op \in ReadModifyWrites -> Op("locked", "once", "none", "none", AfterLocked(op, f))
    [] op = "Acquire_Store" /\ ~f.has_sse2 -> Op("locked", "once", "none", "none", "none")
    [] OTHER -> Op("access", "once", Fence(op = "Release_Load", "full"), "none",
                   Fence(op = "Acquire_Store", "full"))

X86_64_Ops64(op, f) ==
  IF op \in ReadModifyWrites THEN Op("locked", "once", "none", "none", AfterLocked(op, f))
  ELSE Op("access", "once", Fence(op = "Release_Load", "full"), "none",
          Fence(op = "Acquire_Store", "full"))

(* 64-bit operations of a 32-bit build: cmpxchg8b in a loop, and MMX moves. *)
I386_Ops64(op, f) ==
  CASE op \in CompareAndSwaps -> Op("locked", "once", "none", "none", AfterLocked(op, f))
    [] op \in Stores \cup Loads -> X86_64_Ops64(op, f)
    [] OTHER -> Op("locked", "read_first", "none", "none", AfterLocked(op, f))

-----------------------------------------------------------------------------
(* atomicops-internals-arm-v6plus.h.                                        *)
ArmV6_Ops32(op) ==
  CASE op = "Barrier_AtomicIncrement" -> Op("llsc", "once", "none", "full", "none")
    [] op \in Stores \cup Loads -> FencedAround(op, "access", "once")
    [] OTHER -> FencedAround(op, "llsc", "once")

(* With ldrexd and strexd; a store is a loop too and a load clears its      *)
(* reservation.  Without them every 64-bit operation aborts.                *)
ArmV6_Ops64(op) ==
  CASE op = "Barrier_AtomicIncrement" -> Op("llsc", "once", "none", "full", "none")
    [] op \in Loads -> FencedAround(op, "access", "once")
    [] OTHER -> FencedAround(op, "llsc", "once")

ArmV6_NoLdrexd(op) == [FencedAround(op, "abort", "once") EXCEPT !.inner = "none"]

(* atomicops-internals-arm-generic.h: the kernel's compare-exchange is a    *)
(* fence on both sides.                                                     *)
ArmGeneric_Ops32(op) ==
  CASE op \in CompareAndSwaps -> Op("locked", "reread", "none", "none", "none")
    [] op \in ReadModifyWrites \ CompareAndSwaps ->
         Op("locked", "read_first", "none", "none", "none")
    [] OTHER -> FencedAround(op, "access", "once")

ArmGeneric_Ops64(op) == NotImplementedFatalError

-----------------------------------------------------------------------------
(* atomicops-internals-linuxppc.h: the loads and stores, then the rest.     *)
PPC_Access(op) ==
  Op("access", "once",
     CASE op = "Release_Store" -> "lwsync" [] op = "Release_Load" -> "full" [] OTHER -> "none",
     "none",
     CASE op = "Acquire_Store" -> "full" [] op = "Acquire_Load" -> "lwsync" [] OTHER -> "none")

PPC_Ops32(op) ==
  CASE op \in Stores \cup Loads -> PPC_Access(op)
    [] op \in Increments -> Op("llsc", "once", Fence(op \in ReleaseOps, "lwsync"), "none",
                               Fence(op \in AcquireOps, "isync"))
    [] op \in CompareAndSwaps -> Op("llsc", "reread", Fence(op \in ReleaseOps, "lwsync"),
                                    "none", Fence(op \in AcquireOps, "isync"))
    [] OTHER -> Op("llsc", "read_first", "none", "none", "none")

(* The 64-bit compare uses cmpw, which looks at the low 32 bits.            *)
PPC_Ops64(op) ==
  IF op \in CompareAndSwaps \cup {"NoBarrier_AtomicExchange"}
    THEN [PPC_Ops32(op) EXCEPT !.half = TRUE]
    ELSE PPC_Ops32(op)

(* The doubleword accesses at the end of the header.                        *)
PPC_Access64(op) == PPC_Access(op)

-----------------------------------------------------------------------------
(* atomicops-internals-macosx.h over libkern; the Barrier calls fence both  *)
(* sides.  Release_CompareAndSwap is Acquire_CompareAndSwap.                *)
OSAtomic(op, loop) ==
  IF op \in AcquireOps \cup ReleaseOps THEN Op("locked", loop, "none", "none", "none")
  ELSE Op("os", loop, "none", "none", "none")

Mac_Ops32(op) ==
  CASE op \in CompareAndSwaps -> OSAtomic(op, "reread")
    [] op \in Increments -> OSAtomic(op, "once")
    [] op = "NoBarrier_AtomicExchange" -> OSAtomic(op, "read_first")
    [] OTHER -> FencedAround(op, "access", "once")

Mac_RMW64(op) ==
  CASE op \in CompareAndSwaps -> OSAtomic(op, "reread")
    [] op \in Increments -> OSAtomic(op, "once")
    [] OTHER -> OSAtomic(op, "read_first")

Mac_Access64(op) == FencedAround(op, "access", "once")

(* 32-bit builds: the i386 moves go through an MMX register, and 32-bit     *)
(* PowerPC has no 64-bit operation at all (calling one does not link).      *)
Mac_Access64On32(op) == FencedAround(op, "access", "once")

-----------------------------------------------------------------------------
(* atomicops-internals-windows.h over the Interlocked functions, which are  *)
(* full fences.                                                             *)
FastInterlocked(op) == Op("locked", "once", "none", "none", "none")
FastInterlocked64(op) == Op("locked", "once", "none", "none", "none")

Windows_Ops32(op) ==
  IF op \in ReadModifyWrites \cup {"Acquire_Store"} THEN FastInterlocked(op)
  ELSE Op("access", "once", Fence(op = "Release_Load", "full"), "none", "none")

Win64_Ops64(op) ==
  IF op \in ReadModifyWrites \cup {"Acquire_Store"} THEN FastInterlocked64(op)
  ELSE Op("access", "once", Fence(op = "Release_Load", "full"), "none", "none")

Win32_Ops64(op) ==
  [NotImplementedFatalError EXCEPT !.before = Fence(op = "Release_Load", "full")]

-----------------------------------------------------------------------------
(* The header of a platform and word size.                                  *)
Platforms ==
  {"x86", "x86_64/64", "i386/64", "arm_v6", "arm_v6/64", "arm_v6_no_ldrexd/64",
   "arm_generic", "arm_generic/64", "ppc", "ppc/64", "mac", "mac/64", "mac_i386/64",
   "windows", "win64/64", "win32/64"}

Table(platform, op, f) ==
  CASE platform = "x86" -> X86_Ops32(op, f)
    [] platform = "x86_64/64" -> X86_64_Ops64(op, f)
    [] platform = "i386/64" -> I386_Ops64(op, f)
    [] platform = "arm_v6" -> ArmV6_Ops32(op)
    [] platform = "arm_v6/64" -> ArmV6_Ops64(op)
    [] platform = "arm_v6_no_ldrexd/64" -> ArmV6_NoLdrexd(op)
    [] platform = "arm_generic" -> ArmGeneric_Ops32(op)
    [] platform = "arm_generic/64" -> ArmGeneric_Ops64(op)
    [] platform = "ppc" -> PPC_Ops32(op)
    [] platform = "ppc/64" ->
         IF op \in ReadModifyWrites THEN PPC_Ops64(op) ELSE PPC_Access64(op)
    [] platform = "mac" -> Mac_Ops32(op)
    [] platform = "mac/64" ->
         IF op \in ReadModifyWrites THEN Mac_RMW64(op) ELSE Mac_Access64(op)
    [] platform = "mac_i386/64" ->
         IF op \in ReadModifyWrites THEN Mac_RMW64(op) ELSE Mac_Access64On32(op)
    [] platform = "windows" -> Windows_Ops32(op)
    [] platform = "win64/64" -> Win64_Ops64(op)
    [] platform = "win32/64" -> Win32_Ops64(op)

(* The AtomicWord overloads and the deprecated global ones forward to the   *)
(* operation of the word's own size, unchanged.                             *)
AtomicWordForward(platform, op, f) == Table(platform, op, f)
=============================================================================
