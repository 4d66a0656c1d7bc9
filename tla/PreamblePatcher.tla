--------------------------- MODULE PreamblePatcher ---------------------------
(***************************************************************************)
(* The preamble patcher (windows/preamble_patcher.cc and                   *)
(* windows/preamble_patcher_with_stub.cc): it redirects a function to a    *)
(* replacement by overwriting its first five bytes with a jump, after      *)
(* moving the instructions it destroys into a stub that still runs the     *)
(* original.                                                               *)
(*                                                                         *)
(* Memory is a map from the address of an instruction to the instruction:  *)
(* its operation, its length in bytes and, for branches and relative       *)
(* moves, the absolute address it refers to.  Relocating an instruction is *)
(* arithmetic on real addresses, so that wrong offsets are visible.  A     *)
(* byte that starts no instruction reads as INT3, which is also what the   *)
(* patcher fills with.  What a piece of code does is its Trace.            *)
(***************************************************************************)
EXTENDS Integers, Sequences, FiniteSets, TLC, SequencesExt

CONSTANTS Operations,  \* the operations the first instructions of F are drawn from
          BodyLength,  \* how many instructions of F vary
          Reach,       \* INT_MAX: how far a 32-bit relative jump goes
          Granules,    \* the sets of granules that may be free near F
          MaxUnpatches \* bound on the hooks that are removed

PatcherBounds == BodyLength \in Nat \ {0} /\ Reach \in Nat \ {0} /\ MaxUnpatches \in Nat

\* The layout: the function F, an alias that is a jump to F (as malloc is to
\* __malloc), a replacement within reach and one beyond it.
F == 20000
Alias == 20600
Near == 21000
Far == 90000
granularity == 1000

VARIABLES x64,      \* kIs64BitBinary
          mem,      \* the instructions in memory
          avail,    \* the granules VirtualAlloc can still map
          preamble_pages, \* list of pages, latest first: its base and free_ list
          stub,     \* *original_function_stub of every hook, 0 for NULL
          was,      \* history: the trace of the function before the patch, and what was moved
          at,       \* history: the address that was patched
          prot,     \* the addresses whose page was left writable
          error,    \* the SideStepError of the last call
          unpatches \* how many hooks were removed, for the bound

vars == <<x64, mem, avail, preamble_pages, stub, was, at, prot, error, unpatches>>

\* The two hooks that client code installs: target and replacement.
HookNumbers == {1, 2}
Target(h) == IF h = 1 THEN Alias ELSE F
Replacement(h) == IF h = 1 THEN Near ELSE Far

SideStepError == {"SUCCESS", "INVALID_PARAMETER", "INSUFFICIENT_BUFFER", "JUMP_INSTRUCTION",
                  "FUNCTION_TOO_SMALL", "UNSUPPORTED_INSTRUCTION", "ACCESS_DENIED", "UNEXPECTED"}

MAX_PREAMBLE_STUB_SIZE == IF x64 THEN 64 ELSE 32
\* PreamblePage: where a page lies and the list of its free blocks.
PreamblePage == [base : Nat, free : Seq(Nat)]

pagesize == 3 * MAX_PREAMBLE_STUB_SIZE

Instruction(op, len, to) == [op |-> op, len |-> len, to |-> to]
INT3 == Instruction("int3", 1, 0)

Erase(m, a, n) ==
    LET kept == {x \in DOMAIN m : x >= a + n \/ x + m[x].len <= a} IN [x \in kept |-> m[x]]
Write(m, a, i) == (a :> i) @@ Erase(m, a, i.len)
At(m, a) == IF a \in DOMAIN m THEN m[a] ELSE INT3

\* The operations of F's first instructions, with their lengths and the
\* destination when placed at address a: generic instructions, a RIP-relative
\* move and another RIP-relative instruction, short jumps forward and backward,
\* near branches to a close and to a distant place, calls, also through memory
\* and through a register, a return and an instruction the decoder does not know.
Placed(op, a) ==
    CASE op = "g1" -> Instruction("g", 1, a)
      [] op = "g4" -> Instruction("g", 4, a)
      [] op = "mov" -> Instruction("mov", 7, F + 1200)
      [] op = "rip" -> Instruction("rip", 7, F + 1200)
      [] op = "jccS+" -> Instruction("jccS", 2, F + 60)
      [] op = "jccS-" -> Instruction("jccS", 2, F - 60)
      [] op = "jcc" -> Instruction("jcc", 6, F + 300)
      [] op = "jcc near" -> Instruction("jcc", 6, F + 60)
      [] op = "jmp" -> Instruction("jmp", 5, F + 300)
      [] op = "jmpS" -> Instruction("jmpS", 2, F + 60)
      [] op = "call" -> Instruction("call", 5, F + 300)
      [] op = "call near" -> Instruction("call", 5, F + 60)
      [] op = "callm" -> Instruction("callm", 6, F + 400)
      [] op = "callr" -> Instruction("callr", 2, 0)
      [] op = "ret" -> Instruction("ret", 1, 0)
      [] op = "bad" -> Instruction("bad", 2, 0)

\* F's code: the varied instructions, then a generic one and a return.
Code(body) ==
    LET addr[k \in 1..Len(body) + 1] ==
            IF k = 1 THEN F ELSE addr[k - 1] + Placed(body[k - 1], 0).len
        last == addr[Len(body) + 1]
    IN [a \in {addr[k] : k \in 1..Len(body)} |->
            Placed(body[CHOOSE k \in 1..Len(body) : addr[k] = a], a)]
       @@ (last :> Instruction("g", 4, last)) @@ (last + 4 :> Instruction("ret", 1, 0))

Replacements ==
    [a \in {Near, Far} |-> Instruction("g", 5, a)] @@ [a \in {Near + 5, Far + 5} |-> Instruction("ret", 1, 0)]

Body == F..F + 10 * (BodyLength + 1)

\* What executing from address a does: the effects in order, a conditional jump
\* being an effect that falls through, until a return, a trap or the fuel ends.
RECURSIVE Run(_, _, _)
Run(m, a, fuel) ==
    LET i == At(m, a)
        next == Run(m, a + i.len, fuel - 1)
    IN CASE fuel = 0 -> << >>
         [] i.op \in {"ret", "int3", "bad", "jmpm"} -> <<[op |-> i.op, to |-> 0]>>
         [] i.op \in {"jmp", "jmpS", "jmprax"} ->
              IF i.to \in DOMAIN m \cup Body THEN Run(m, i.to, fuel - 1)
              ELSE <<[op |-> "at", to |-> i.to]>>
         [] i.op \in {"nop", "movrax"} -> next
         [] i.op \in {"jcc", "jccS"} -> <<[op |-> "jcc", to |-> i.to]>> \o next
         [] OTHER -> <<[op |-> i.op, to |-> i.to]>> \o next

Fuel == 2 * BodyLength + 10
Trace(m, a) == Run(m, a, Fuel)

\* The instructions in the first five bytes, which a patch moves into the stub.
Moved(m, target) == {[from |-> a, ins |-> m[a]] : a \in DOMAIN m \cap (target..target + 4)}
NotPatched == [trace |-> << >>, moved |-> {}]

Init ==
    /\ x64 \in BOOLEAN
    /\ \E body \in [1..BodyLength -> Operations] :
         /\ x64 \/ \A k \in 1..BodyLength : body[k] \notin {"mov", "rip"}
         /\ mem = (Alias :> Instruction("jmp", 5, F)) @@ Code(body) @@ Replacements
    /\ avail \in Granules
    /\ preamble_pages = << >>
    /\ stub = [h \in HookNumbers |-> 0]
    /\ was = [h \in HookNumbers |-> NotPatched]
    /\ at = [h \in HookNumbers |-> 0]
    /\ prot = {}
    /\ error = "SUCCESS"
    /\ unpatches = 0

-----------------------------------------------------------------------------
(* The pages that hold the stubs.                                          *)

\* AllocPageNear: the granule VirtualAlloc grants, searched downwards from the
\* module and then upwards from the target; 0 when none is close enough.
AllocPageNear(target) ==
    LET base == (target \div granularity) * granularity
        down == {a \in avail : a < base /\ (x64 => target - a <= Reach)}
        up == {a \in avail : a >= base + 2 * granularity /\ a - target <= Reach}
    IN IF down # {} THEN CHOOSE a \in down : \A b \in down : b <= a
       ELSE IF up # {} THEN CHOOSE a \in up : \A b \in up : a <= b
       ELSE 0

\* Whether a page has a block that is in reach of the target.
Usable(page, target) ==
    LET val == page.base - target
    IN page.free # << >> /\ \/ val > 0 /\ val + pagesize <= Reach
                            \/ val < 0 /\ val >= -Reach

\* A new page: its first block holds the header, the others are chained.
NewPage(base) ==
    [base |-> base, free |-> <<base + MAX_PREAMBLE_STUB_SIZE, base + 2 * MAX_PREAMBLE_STUB_SIZE>>]

\* AllocPreambleBlockNear: a block of the first usable page, or of a new one.
\* The result is the block and the list of pages after taking it.
AllocPreambleBlockNear(target) ==
    LET usable == {k \in 1..Len(preamble_pages) : Usable(preamble_pages[k], target)}
        base == AllocPageNear(target)
        pages == IF usable # {} THEN preamble_pages ELSE <<NewPage(base)>> \o preamble_pages
        k == IF usable # {} THEN CHOOSE j \in usable : \A l \in usable : j <= l ELSE 1
    IN [block |-> Head(pages[k].free),
        pages |-> [pages EXCEPT ![k].free = Tail(@)],
        mapped |-> IF usable # {} THEN {} ELSE {base}]

\* FreePreambleBlock: back to the front of the list of the page it lies in.
FreePreambleBlock(pages, block) ==
    [k \in 1..Len(pages) |->
        IF pages[k].base = (block \div granularity) * granularity
        THEN [pages[k] EXCEPT !.free = <<block>> \o @] ELSE pages[k]]

-----------------------------------------------------------------------------
(* Relocating single instructions.                                         *)

\* InstructionType as the disassembler reports it.
TypeOf(i) ==
    CASE i.op \in {"jccS", "jcc", "jmp", "jmpS", "jmpm", "call", "callm", "callr", "jmprax"} -> "JUMP"
      [] i.op = "ret" -> "RETURN"
      [] i.op = "bad" -> "UNKNOWN"
      [] OTHER -> "GENERIC"

\* A two-byte FF instruction passes the test of IsShortConditionalJump, which
\* looks only at three bits of the opcode; FF D0, a call of a register, has D0
\* as its second byte.
IsShortConditionalJump(i) == i.len = 2 /\ i.op \in {"jccS", "callr", "jmprax"}
IsNearConditionalJump(i) == i.op = "jcc" /\ i.len = 6
IsNearRelativeJump(i) == i.op = "jmp" /\ i.len = 5
IsNearAbsoluteCall(i) == i.op = "callm" /\ i.len = 6
IsNearRelativeCall(i) == i.op = "call" /\ i.len = 5
IsMovWithDisplacement(i) == i.op = "mov" /\ i.len = 7
IsNear(i) == \/ IsNearConditionalJump(i) \/ IsNearRelativeJump(i)
             \/ IsNearAbsoluteCall(i) \/ IsNearRelativeCall(i)

\* In 32 bits the difference of two pointers is always an int.
TooFar(offset) == x64 /\ (offset > Reach \/ offset < -Reach)

\* A copy of the bytes: what is relative to the next instruction moves along.
Copied(i, source, target) ==
    IF i.op = "rip" THEN [i EXCEPT !.to = @ + target - source] ELSE i

\* Mutant: the offset is kept although the jump has moved.
PatchShortKeepsOffset(i, source, target) ==
    [err |-> "SUCCESS", len |-> 6, ins |-> Instruction("jcc", 6, target + 6 + (i.to - (source + 2)))]

\* PatchShortConditionalJump: the offset byte is read as unsigned.
PatchShortConditionalJump(i, source, target) ==
    LET byte == IF i.op = "callr" THEN 208 ELSE (i.to - (source + 2)) % 256
        dest == source + 2 + byte
    IN IF TooFar(dest - (target + 6))
       THEN [err |-> "JUMP_INSTRUCTION", len |-> 0, ins |-> INT3]
       ELSE [err |-> "SUCCESS", len |-> 6, ins |-> Instruction("jcc", 6, dest)]

\* PatchNearJumpOrCall: the operand is taken as an offset, also the absolute
\* address of a 32-bit CALL through memory; a small offset gives a two-byte
\* jump with the offset computed for the long form.
PatchNearJumpOrCall(i, source, target) ==
    LET absolute == i.op = "callm" /\ ~x64
        dest == IF absolute THEN source + i.len + i.to ELSE i.to
        fixup == dest - (target + i.len)
    IN IF TooFar(fixup) THEN [err |-> "JUMP_INSTRUCTION", len |-> 0, ins |-> INT3]
       ELSE IF fixup < 127 /\ fixup > -128
       THEN [err |-> "SUCCESS", len |-> 2,
             ins |-> Instruction(IF i.op = "jcc" THEN "jccS" ELSE "jmpS", 2, target + 2 + fixup)]
       ELSE [err |-> "SUCCESS", len |-> i.len,
             ins |-> [i EXCEPT !.to = IF absolute THEN fixup ELSE dest]]

\* PatchMovWithDisplacement: the moved instruction refers to the same place.
PatchMovWithDisplacement(i, source, target) ==
    IF TooFar(i.to - (target + i.len))
    THEN [err |-> "UNSUPPORTED_INSTRUCTION", len |-> 0, ins |-> INT3]
    ELSE [err |-> "SUCCESS", len |-> i.len, ins |-> i]

\* ResolveTargetImpl: follow the jumps at the entry of a function, stopping
\* before stop_before and, on request, before a trampoline.
RECURSIVE ResolveTargetImpl(_, _, _)
ResolveTargetImpl(target, stop_before, stop_before_trampoline) ==
    LET i == At(mem, target)
    IN IF i.op \notin {"jmp", "jmpS", "jmpm"} \/ i.to = stop_before THEN target
       ELSE IF stop_before_trampoline /\ At(mem, i.to).op = "nop" /\ At(mem, i.to + 1).op = "movrax"
       THEN target
       ELSE ResolveTargetImpl(i.to, stop_before, stop_before_trampoline)

-----------------------------------------------------------------------------
(* Patching.                                                               *)

\* The relocation of one instruction into the stub, by its type.
ToStub(i, source, target) ==
    CASE TypeOf(i) = "JUMP" /\ IsShortConditionalJump(i) -> PatchShortConditionalJump(i, source, target)
      [] TypeOf(i) = "JUMP" /\ IsNear(i) -> PatchNearJumpOrCall(i, source, target)
      [] TypeOf(i) = "JUMP" -> [err |-> "JUMP_INSTRUCTION", len |-> 0, ins |-> INT3]
      [] TypeOf(i) = "RETURN" -> [err |-> "FUNCTION_TOO_SMALL", len |-> 0, ins |-> INT3]
      [] TypeOf(i) = "UNKNOWN" -> [err |-> "UNSUPPORTED_INSTRUCTION", len |-> 0, ins |-> INT3]
      [] IsMovWithDisplacement(i) -> PatchMovWithDisplacement(i, source, target)
      [] OTHER -> [err |-> "SUCCESS", len |-> i.len, ins |-> Copied(i, source, target)]

kRequiredTargetPatchBytes == 5
kRequiredStubJumpBytes == 5

\* The loop of RawPatchWithStub that moves whole instructions to the stub until
\* five bytes of the target are free.
RECURSIVE MovePreamble(_, _, _, _, _)
MovePreamble(m, target, pre, block, used) ==
    IF pre >= kRequiredTargetPatchBytes THEN [err |-> "SUCCESS", m |-> m, pre |-> pre, used |-> used]
    ELSE LET i == At(m, target + pre)
             r == ToStub(i, target + pre, block + used)
         IN IF r.err # "SUCCESS" THEN [err |-> r.err, m |-> m, pre |-> pre, used |-> used]
            ELSE MovePreamble(Write(m, block + used, r.ins), target, pre + i.len,
                              block, used + r.len)

\* The trampoline: nop, mov rax, <replacement>, jmp rax.
Trampoline(m, a, replacement) ==
    Write(Write(Write(m, a, Instruction("nop", 1, 0)),
                a + 1, Instruction("movrax", 10, replacement)),
          a + 11, Instruction("jmprax", 2, replacement))

\* The jump from the end of the stub to the instruction after the preamble.
JumpBack(m, a, rest) == Write(m, a, Instruction("jmp", 5, rest))

\* The five-byte jump over the target, and INT3 over what is left of the
\* preamble.
PatchEntry(m, target, pre, dest) ==
    Write(Erase(m, target, pre), target, Instruction("jmp", 5, dest))

\* RawPatchWithStub: the error and the memory after it.
RawPatchWithStub(target, replacement, block) ==
    LET far == x64 /\ TooFar(replacement - target - 5)
        trampoline_bytes == IF far THEN 13 ELSE 0
        erased == Erase(mem, block, MAX_PREAMBLE_STUB_SIZE)
        Finish(moved) ==
            LET back == block + moved.used
                stubbed == JumpBack(moved.m, back, target + moved.pre)
                hop == back + kRequiredStubJumpBytes
            IN IF moved.used + kRequiredStubJumpBytes + trampoline_bytes > MAX_PREAMBLE_STUB_SIZE
               THEN [err |-> "INSUFFICIENT_BUFFER", m |-> moved.m]
               ELSE [err |-> "SUCCESS",
                     m |-> IF far
                           THEN PatchEntry(Trampoline(stubbed, hop, replacement), target,
                                           moved.pre, hop)
                           ELSE PatchEntry(stubbed, target, moved.pre, replacement)]
        FinishIfMoved(moved) ==
            IF moved.err = "SUCCESS" THEN Finish(moved) ELSE [err |-> moved.err, m |-> moved.m]
    IN IF far /\ TooFar(block - target - 5) THEN [err |-> "UNEXPECTED", m |-> erased]
       ELSE FinishIfMoved(MovePreamble(erased, target, 0, block, 0))

\* RawPatchWithStubAndProtections: make the target writable, patch, and restore
\* the protection whether or not the patch succeeded.
RawPatchWithStubAndProtections(target, replacement, block, writable) ==
    IF ~writable THEN [err |-> "ACCESS_DENIED", m |-> mem, left |-> {}]
    ELSE LET r == RawPatchWithStub(target, replacement, block)
         IN [err |-> r.err, m |-> r.m, left |-> {}]

\* RawPatch of hook h: resolve the target, take a block near it, patch, and
\* give the block back (the guard's destructor) unless the patch succeeded.
\* Without a page near the target the code dereferences a null page.
RawPatch(h) ==
    /\ error # "CRASH"
    /\ \E writable \in BOOLEAN :
         LET target == ResolveTargetImpl(Target(h), 0, FALSE)
             near == \E k \in 1..Len(preamble_pages) : Usable(preamble_pages[k], target)
         IN \/ /\ stub[h] # 0
               /\ error' = "INVALID_PARAMETER"
               /\ UNCHANGED <<mem, avail, preamble_pages, stub, was, at, prot>>
            \/ /\ stub[h] = 0
               /\ ~near /\ AllocPageNear(target) = 0
               /\ error' = "CRASH"
               /\ UNCHANGED <<mem, avail, preamble_pages, stub, was, at, prot>>
            \/ /\ stub[h] = 0
               /\ near \/ AllocPageNear(target) # 0
               /\ \E alloc \in {AllocPreambleBlockNear(target)} :
                  \E r \in {RawPatchWithStubAndProtections(target, Replacement(h), alloc.block,
                                                           writable)} :
                     /\ error' = r.err
                     /\ mem' = r.m
                     /\ avail' = avail \ alloc.mapped
                     /\ prot' = prot \cup r.left
                     /\ IF r.err = "SUCCESS"
                        THEN /\ preamble_pages' = alloc.pages
                             /\ stub' = [stub EXCEPT ![h] = alloc.block]
                             /\ was' = [was EXCEPT ![h] = [trace |-> Trace(mem, target),
                                                       moved |-> Moved(mem, target)]]
                             /\ at' = [at EXCEPT ![h] = target]
                        ELSE /\ preamble_pages' = FreePreambleBlock(alloc.pages, alloc.block)
                             /\ UNCHANGED <<stub, was, at>>
    /\ UNCHANGED <<x64, unpatches>>

-----------------------------------------------------------------------------
(* Unpatching.                                                             *)

\* Mutant: only one instruction is moved back.
MoveBackOne(m, block, pre, target, done) ==
    [err |-> "SUCCESS", m |-> Write(m, target, At(m, block))]

\* The loop of Unpatch that moves the stub's instructions back.  A relative
\* move is written but its bytes are not counted.
RECURSIVE MoveBack(_, _, _, _, _)
MoveBack(m, block, pre, target, done) ==
    IF done >= kRequiredTargetPatchBytes THEN [err |-> "SUCCESS", m |-> m]
    ELSE LET i == At(m, block + pre)
             near == PatchNearJumpOrCall(i, block + pre, target + done)
             mov == PatchMovWithDisplacement(i, block + pre, target + done)
         IN CASE TypeOf(i) = "JUMP" /\ (~IsNear(i) \/ near.err # "SUCCESS") ->
                   [err |-> "UNSUPPORTED_INSTRUCTION", m |-> m]
              [] TypeOf(i) = "JUMP" /\ IsNear(i) /\ near.err = "SUCCESS" ->
                   MoveBack(Write(m, target + done, near.ins), block, pre + i.len, target, done + near.len)
              [] TypeOf(i) = "GENERIC" /\ IsMovWithDisplacement(i) ->
                   IF mov.err # "SUCCESS" THEN [err |-> "UNSUPPORTED_INSTRUCTION", m |-> m]
                   ELSE MoveBack(Write(m, target + done, mov.ins), block, pre + i.len, target, done)
              [] TypeOf(i) = "GENERIC" /\ ~IsMovWithDisplacement(i) ->
                   MoveBack(IF i.op = "int3" THEN Erase(m, target + done, 1)
                            ELSE Write(m, target + done, Copied(i, block + pre, target + done)),
                            block, pre + i.len, target, done + i.len)
              [] OTHER -> [err |-> "UNSUPPORTED_INSTRUCTION", m |-> m]

\* Unpatch of hook h, whose stub client code clears after a success.
Unpatch(h) ==
    /\ error # "CRASH"
    /\ stub[h] # 0
    /\ unpatches < MaxUnpatches /\ unpatches' = unpatches + 1
    /\ \E writable \in BOOLEAN :
         LET target == ResolveTargetImpl(Target(h), Replacement(h), TRUE)
         IN \/ /\ At(mem, target).op # "jmp"
               /\ error' = "INVALID_PARAMETER"
               /\ UNCHANGED <<mem, preamble_pages, stub, was, at, prot>>
            \/ /\ At(mem, target).op = "jmp" /\ ~writable
               /\ error' = "ACCESS_DENIED"
               /\ UNCHANGED <<mem, preamble_pages, stub, was, at, prot>>
            \/ /\ At(mem, target).op = "jmp" /\ writable
               /\ \E r \in {MoveBack(mem, stub[h], 0, target, 0)} :
                     /\ error' = r.err
                     /\ mem' = r.m
                     /\ IF r.err = "SUCCESS"
                        THEN /\ preamble_pages' = FreePreambleBlock(preamble_pages, stub[h])
                             /\ stub' = [stub EXCEPT ![h] = 0]
                             /\ was' = [was EXCEPT ![h] = NotPatched]
                             /\ at' = [at EXCEPT ![h] = 0]
                             /\ UNCHANGED prot
                        ELSE /\ prot' = prot \cup {target}
                             /\ UNCHANGED <<preamble_pages, stub, was, at>>
    /\ UNCHANGED <<x64, avail>>

Next == \E h \in HookNumbers : RawPatch(h) \/ Unpatch(h)

Spec == Init /\ [][Next]_vars

-----------------------------------------------------------------------------

TypeOK ==
    /\ x64 \in BOOLEAN
    /\ \A a \in DOMAIN mem : mem[a].len \in 1..10
    /\ avail \subseteq UNION Granules
    /\ \A k \in 1..Len(preamble_pages) :
         preamble_pages[k] \in PreamblePage /\ Len(preamble_pages[k].free) <= 2
    /\ \A h \in HookNumbers : (stub[h] = 0) \/ (stub[h] % granularity) \in {32, 64, 128}
    /\ error \in SideStepError

\* What RawPatchWithStub relocates wrongly: a short jump backwards, whose offset
\* is read as unsigned (preamble_patcher.cc:578), a call through a register, taken
\* for a short jump (:535), in 32 bits a call through memory, whose absolute
\* address is moved like an offset (:611), and any RIP-relative instruction but
\* the one MOV, whose bytes are copied (preamble_patcher_with_stub.cc:181).
MovedWrongly(i) ==
    \/ i.ins.op = "jccS" /\ i.ins.to < i.from
    \/ i.ins.op \in {"callr", "rip"}
    \/ i.ins.op = "callm" /\ ~x64

\* The stub imitates the preamble it replaces: unless that has an instruction that
\* is MovedWrongly, running the stub does what the function did before the patch,
\* relocated branches and moves included, also when a second hook was installed
\* on the first one's replacement or trampoline (RawPatchWithStub).
StubRunsOriginal ==
    \A h \in HookNumbers :
        stub[h] # 0 /\ ~(\E i \in was[h].moved : MovedWrongly(i))
            => Trace(mem, stub[h]) = was[h].trace

\* A call of a hooked function ends up in the replacement of an installed hook,
\* through the trampoline when it is out of reach, and never in a half
\* overwritten instruction (RawPatchWithStub).
ReplacementIsReached ==
    \A h \in HookNumbers : (stub[h] # 0 /\ at[h] \in DOMAIN mem) =>
        \E k \in HookNumbers : stub[k] # 0 /\ Trace(mem, at[h]) = Trace(mem, Replacement(k))

\* No block is lost or handed out twice: the free blocks of a page and the stubs
\* in it are its two blocks, after failed patches too (RawPatch's guard).
BlocksAccounted ==
    \A k \in 1..Len(preamble_pages) :
        LET page == preamble_pages[k]
            free == ToSet(page.free)
            used == {stub[h] : h \in {g \in HookNumbers :
                                    stub[g] \div granularity = page.base \div granularity}}
        IN /\ free \cap used = {}
           /\ Cardinality(free) = Len(page.free)
           /\ free \cup used = ToSet(NewPage(page.base).free)

\* No call leaves code writable: the protection is restored on every path a
\* call takes (RawPatchWithStubAndProtections, Unpatch).
ProtectionRestored == prot = {}

\* What a successful Unpatch does not put back: the MOV, whose bytes are not
\* counted, so that the next instruction is written over it
\* (preamble_patcher.cc:365), every short jump, and every branch of which the
\* offset would fit a byte, for these come back short with the offset of the long
\* form, a call as a jump (:614); and a call through a register, which the stub has
\* as a jump.
ComesBackWrong(i) ==
    \/ i.ins.op \in {"mov", "jccS", "callr"}
    \/ IsNear(i.ins) /\ PatchNearJumpOrCall(i.ins, i.from, i.from).len = 2

\* Unless an instruction ComesBackWrong, a successful Unpatch puts back code that
\* does what the function did before it was patched, also what the stub had wrong
\* (Unpatch).
UnpatchRestores ==
    \A h \in HookNumbers :
        stub[h] # 0 /\ stub'[h] = 0 /\ ~(\E i \in was[h].moved : ComesBackWrong(i))
            => Trace(mem', at[h]) = was[h].trace

=============================================================================
