-------------------------- MODULE MiniDisassembler --------------------------
(***************************************************************************)
(* The disassembler of the preamble patcher (windows/mini_disassembler.cc):*)
(* it finds the length and the kind of one instruction.                    *)
(*                                                                         *)
(* Memory is revealed byte by byte as the decoder looks at it, so a run of *)
(* the machine is a decoding of one of the instructions the bounds allow.  *)
(* One object decodes one instruction after another, as RawPatchWithStub   *)
(* uses it; its members (the record dis) survive from one call to the next *)
(* and only Initialize cleans them.  The result is compared with a         *)
(* reference written from the structure of the instruction set and not     *)
(* from the tables: IsaLength.                                             *)
(***************************************************************************)
EXTENDS Naturals, Sequences, FiniteSets

CONSTANTS PrefixBytes,  \* the prefix bytes that the instructions tried may have
          MaxPrefixes,  \* bound on the prefixes of one instruction
          Rms,          \* the r/m fields tried
          SibBases      \* the base fields tried

DisassemblerBounds ==
    /\ PrefixBytes \subseteq 0..255
    /\ MaxPrefixes \in Nat
    /\ Rms \subseteq 0..7
    /\ SibBases \subseteq 0..7

-----------------------------------------------------------------------------
(***************************************************************************)
(* The static tables: windows/ia32_opcode_map.cc and ia32_modrm_map.cc.    *)
(*                                                                         *)
(* The source has one initialiser per opcode.  Only four things of an      *)
(* initialiser reach the decoder: the type of the instruction, the table   *)
(* that continues the opcode, whether its operands need a ModR/M byte, and *)
(* the operand types of its immediate operands.  The rows below are        *)
(* therefore grouped into classes of opcodes that agree on those four; the *)
(* mnemonics and the operands kept in registers are left out.              *)
(***************************************************************************)

\* InstructionType: the categories of instructions the decoder tells apart.
InstructionType == {"UNUSED", "UNKNOWN", "REFERENCE", "PREFIX", "PREFIX_ADDRESS",
                    "PREFIX_OPERAND", "JUMP", "RETURN", "GENERIC"}

\* OperandSize: the sizes in bytes of operands stored in the instruction.
OS_ZERO == 0
OS_BYTE == 1
OS_WORD == 2
OS_DOUBLE_WORD == 4
OS_QUAD_WORD == 8

\* What the AddressingMethod of an operand says of the ModR/M byte: no such
\* byte, a byte whose reg field alone is used, or a byte to be decoded.
NO_MODRM == "no modrm"
REG_ONLY == "reg only"
DECODE == "decode"

\* Opcode: an entry says the type of the instruction, what the ModR/M byte is
\* used for and the types of the immediate operands (B, W, V, and V64 for a V
\* with the IOS_64 flag of the 64-bit immediate move), and holds the
\* continuation table and the alternatives for the F2, F3 and 66 prefixes.
\* An alternative whose mnemonic is null is absent.
Entry(type, modrm, imm) ==
    [type |-> type, modrm |-> modrm, imm |-> imm, table |-> 0, alt |-> << >>]

Plain == Entry("GENERIC", NO_MODRM, << >>)
Modrm == Entry("GENERIC", DECODE, << >>)
Imm(types) == Entry("GENERIC", NO_MODRM, types)
ModrmImm(types) == Entry("GENERIC", DECODE, types)
Jump(types) == Entry("JUMP", NO_MODRM, types)
Ret(types) == Entry("RETURN", NO_MODRM, types)
Unused == Entry("UNUSED", NO_MODRM, << >>)
Unknown == Entry("UNKNOWN", NO_MODRM, << >>)
Prefix(type) == Entry(type, NO_MODRM, << >>)
Reference(index) == [Entry("REFERENCE", NO_MODRM, << >>) EXCEPT !.table = index]

\* The entry with the same alternative under each of the given prefixes.
With(entry, prefixes, alternative) ==
    [entry EXCEPT !.alt = [p \in prefixes |-> alternative]]

\* s_first_opcode_byte, opcodes 00 to 7F: the arithmetic columns, the prefixes
\* among them, the one-byte register instructions (which an x64 build reads as
\* REX prefixes) and the short conditional jumps.
FirstByteLow(x64) == [b \in 0..127 |->
    CASE (b < 64 /\ b % 8 \in 0..3) \/ b \in \h62..\h63 -> Modrm
      [] (b < 64 /\ b % 8 = 4) \/ b = \h6A -> Imm(<<"B">>)
      [] (b < 64 /\ b % 8 = 5) \/ b = \h68 -> Imm(<<"V">>)
      [] b = \h0F -> Reference(1)
      [] b \in {\h26, \h2E, \h36, \h3E, \h64, \h65} -> Prefix("PREFIX")
      [] b \in \h40..\h4F -> IF x64 THEN Prefix("PREFIX") ELSE Plain
      [] b = \h66 -> Prefix("PREFIX_OPERAND")
      [] b = \h67 -> Prefix("PREFIX_ADDRESS")
      [] b = \h69 -> ModrmImm(<<"V">>)
      [] b = \h6B -> ModrmImm(<<"B">>)
      [] b \in \h70..\h7F -> Jump(<<"B">>)
      [] OTHER -> Plain]

\* s_first_opcode_byte, opcodes 80 to FF.  The groups continue in a table that
\* is indexed by the reg field of the next byte.  An x64 build gives the
\* immediate moves B8 to BF a 64-bit immediate.
FirstByteHigh(x64) == [b \in 128..255 |->
    CASE b \in \h80..\h83 -> Reference(b - \h80 + 2)
      [] b \in \h84..\h8F \cup \hC4..\hC5 -> Modrm
      [] b \in {\h9A, \hEA} -> Jump(<< >>)
      [] b \in {\hA0, \hA2, \hA8, \hCD} \cup \hB0..\hB7 \cup \hD4..\hD5 \cup \hE4..\hE7 ->
           Imm(<<"B">>)
      [] b \in {\hA1, \hA3, \hA9} -> Imm(<<"V">>)
      [] b \in \hB8..\hBF -> Imm(<<IF x64 THEN "V64" ELSE "V">>)
      [] b \in \hC0..\hC1 -> Reference(b - \hC0 + 6)
      [] b \in {\hC2, \hCA} -> Ret(<<"W">>)
      [] b \in {\hC3, \hCB} -> Ret(<< >>)
      [] b = \hC6 -> ModrmImm(<<"B">>)
      [] b = \hC7 -> ModrmImm(<<"V">>)
      [] b = \hC8 -> Imm(<<"W", "B">>)
      [] b \in \hD0..\hD3 -> Reference(b - \hD0 + 8)
      [] b \in {\hD6, \hF1} -> Unused
      [] b \in \hD8..\hDF -> Unknown
      [] b \in \hE0..\hE3 \cup {\hEB} -> Jump(<<"B">>)
      [] b \in \hE8..\hE9 -> Jump(<<"V">>)
      [] b \in {\hF0, \hF2, \hF3} -> Prefix("PREFIX")
      [] b \in \hF6..\hF7 -> Reference(b - \hF6 + 12)
      [] b \in \hFE..\hFF -> Reference(b - \hFE + 14)
      [] OTHER -> Plain]

\* s_opcode_byte_after_0f, opcodes 0F00 to 0F3F: system instructions, control
\* register moves, and the first vector moves.
After0fSystem == [b \in \h00..\h3F |->
    CASE b \in \h00..\h01 -> Reference(b + 16)
      [] b \in \h02..\h03 \cup {\h3C} -> Modrm
      [] b \in {\h06, \h08, \h09} \cup \h30..\h35 -> Plain
      [] b \in {\h10, \h11, \h2A, \h2C, \h2D} -> With(Modrm, {"F2", "F3", "66"}, Modrm)
      [] b \in {\h12, \h16} ->
           [Modrm EXCEPT !.alt = [p \in {"F2", "F3", "66"} |->
              IF p = "66" THEN Modrm ELSE Entry("GENERIC", REG_ONLY, << >>)]]
      [] b \in {\h13, \h14, \h15, \h17, \h28, \h29, \h2B, \h2E, \h2F} ->
           With(Modrm, {"66"}, Modrm)
      [] b = \h18 -> Reference(18)
      [] b \in \h20..\h23 -> Entry("GENERIC", REG_ONLY, << >>)
      [] OTHER -> Unused]

\* s_opcode_byte_after_0f, opcodes 0F40 to 0F6F: conditional moves and vector
\* arithmetic; 0F6C and 0F6D exist only with the 66 prefix.
After0fVector == [b \in \h40..\h6F |->
    CASE b \in \h40..\h4F -> Modrm
      [] b \in {\h51} \cup \h58..\h5A \cup \h5C..\h5F ->
           With(Modrm, {"F2", "F3", "66"}, Modrm)
      [] b \in \h52..\h53 -> With(Modrm, {"F3"}, Modrm)
      [] b \in {\h5B, \h6F} -> With(Modrm, {"F3", "66"}, Modrm)
      [] b \in \h6C..\h6D -> With(Plain, {"66"}, Modrm)
      [] OTHER -> With(Modrm, {"66"}, Modrm)]

\* s_opcode_byte_after_0f, opcodes 0F70 to 0FCF: shuffles, long conditional
\* jumps, conditional sets, bit and exchange instructions.  (The third operand
\* of 0FA5 and 0FAD combines two addressing methods into one that the decoder
\* does not know, and so takes no byte.)
After0fInteger == [b \in \h70..\hCF |->
    CASE b \in {\h70, \hC2} -> With(ModrmImm(<<"B">>), {"F2", "F3", "66"}, ModrmImm(<<"B">>))
      [] b \in \h71..\h73 -> Reference(b - \h71 + 19)
      [] b \in \h74..\h76 -> With(Modrm, {"66"}, Modrm)
      [] b \in {\h77} \cup \hA0..\hA2 \cup \hA8..\hAA \cup \hC8..\hCF -> Plain
      [] b \in \h78..\h7D \cup \hA6..\hA7 \cup \hB8..\hB9 -> Unknown
      [] b \in \h7E..\h7F -> With(Modrm, {"F3", "66"}, Modrm)
      [] b \in \h80..\h8F -> Jump(<<"V">>)
      [] b \in {\hA4, \hAC} -> ModrmImm(<<"B">>)
      [] b = \hAE -> Reference(22)
      [] b = \hBA -> Reference(23)
      [] b \in {\hC4, \hC6} -> With(ModrmImm(<<"B">>), {"66"}, ModrmImm(<<"B">>))
      [] b = \hC5 -> With(Entry("GENERIC", REG_ONLY, <<"B">>), {"66"},
                          Entry("GENERIC", REG_ONLY, <<"B">>))
      [] b = \hC7 -> Reference(24)
      [] OTHER -> Modrm]

\* s_opcode_byte_after_0f, opcodes 0FD0 to 0FEF: packed integer arithmetic.
\* 0FD6 and 0FE6 have no meaning without a prefix.
After0fPacked == [b \in \hD0..\hEF |->
    CASE b = \hD0 -> Unused
      [] b \in {\hD6, \hE6} -> With(Plain, {"F2", "F3", "66"}, Modrm)
      [] b = \hD7 -> With(Entry("GENERIC", REG_ONLY, << >>), {"66"},
                          Entry("GENERIC", REG_ONLY, << >>))
      [] OTHER -> With(Modrm, {"66"}, Modrm)]

\* s_opcode_byte_after_0f, opcodes 0FF0 to 0FFF.
After0fLast == [b \in \hF0..\hFF |->
    IF b \in {\hF0, \hFF} THEN Unused ELSE With(Modrm, {"66"}, Modrm)]

\* The tables after 0F00, 0F01, 0F18, 0F71 to 0F73, 0FAE, 0FBA and 0FC7
\* (indices 16 to 24), by the reg field of the ModR/M byte.
TwoByteGroups(index, reg) ==
    LET shift(alternative) == With(Entry("GENERIC", REG_ONLY, <<"B">>), {"66"}, alternative)
    IN CASE index = 16 -> IF reg \in 0..5 THEN Modrm ELSE Unused
         [] index = 17 -> IF reg # 5 THEN Modrm ELSE Unused
         [] index = 18 -> IF reg = 0 THEN Modrm ELSE IF reg \in 1..3 THEN Plain ELSE Unused
         [] index = 19 -> IF reg \in {2, 4, 6} THEN shift(Entry("GENERIC", REG_ONLY, <<"B">>))
                          ELSE Unused
         [] index = 20 -> IF reg \in {2, 4, 6} THEN shift(ModrmImm(<<"B">>)) ELSE Unused
         [] index = 21 -> CASE reg \in {2, 6} -> shift(ModrmImm(<<"B">>))
                            [] reg = 7 -> With(ModrmImm(<<"B">>), {"66"}, ModrmImm(<<"B">>))
                            [] OTHER -> Unused
         [] index = 22 -> IF reg # 4 THEN Plain ELSE Unused
         [] index = 23 -> IF reg \in 4..7 THEN ModrmImm(<<"B">>) ELSE Unused
         [] index = 24 -> IF reg = 1 THEN Modrm ELSE Unused

\* The tables after 80 to 83, C0, C1 and D0 to D3, F6, F7, FE and FF (indices 2
\* to 15), by the reg field.
OneByteGroups(index, reg) ==
    CASE index \in {2, 4, 5, 6, 7} -> ModrmImm(<<"B">>)
      [] index = 3 -> ModrmImm(<<"V">>)
      [] index \in 8..11 \cup {14} -> Modrm
      [] index = 12 -> IF reg \in 0..1 THEN ModrmImm(<<"B">>) ELSE Modrm
      [] index = 13 -> IF reg \in 0..1 THEN ModrmImm(<<"V">>) ELSE Modrm
      [] index = 15 -> CASE reg \in {0, 1, 6} -> Modrm
                         [] reg \in 2..5 -> Entry("JUMP", DECODE, << >>)
                         [] OTHER -> Unused

\* s_ia32_opcode_map_: how a byte indexes each table.  The two opcode bytes are
\* used whole; a group is indexed by the three reg bits, up to max_lim_.
OpcodeTable(index) ==
    [shift |-> IF index \in 0..1 THEN 0 ELSE 3,
     mask |-> IF index \in 0..1 THEN \hFF ELSE 7,
     min_lim |-> 0,
     max_lim |-> CASE index \in 0..1 -> \hFF [] index \in {14, 24} -> 1 [] OTHER -> 7]

\* The entry of a table of the map.
TableEntry(x64, index, i) ==
    CASE index = 0 -> IF i < 128 THEN FirstByteLow(x64)[i] ELSE FirstByteHigh(x64)[i]
      [] index = 1 -> CASE i < \h40 -> After0fSystem[i]
                        [] i \in \h40..\h6F -> After0fVector[i]
                        [] i \in \h70..\hCF -> After0fInteger[i]
                        [] i \in \hD0..\hEF -> After0fPacked[i]
                        [] OTHER -> After0fLast[i]
      [] index \in 2..15 -> OneByteGroups(index, i)
      [] OTHER -> TwoByteGroups(index, i)

\* ModrmEntry: whether a SIB byte follows, and the bytes of displacement.
\* s_ia16_modrm_map_: addressing with 16-bit addresses has no SIB byte.
Ia16Modrm(mod, rm) ==
    [sib |-> FALSE,
     bytes |-> CASE mod = 0 -> IF rm = 6 THEN OS_WORD ELSE OS_ZERO
                 [] mod = 1 -> OS_BYTE
                 [] mod = 2 -> OS_WORD
                 [] mod = 3 -> OS_ZERO]

\* s_ia32_modrm_map_: r/m 100 selects a SIB byte unless it names a register.
Ia32Modrm(mod, rm) ==
    [sib |-> rm = 4 /\ mod # 3,
     bytes |-> CASE mod = 0 -> IF rm = 5 THEN OS_DOUBLE_WORD ELSE OS_ZERO
                 [] mod = 1 -> OS_BYTE
                 [] mod = 2 -> OS_DOUBLE_WORD
                 [] mod = 3 -> OS_ZERO]

-----------------------------------------------------------------------------
VARIABLES x64,    \* the build: _M_X64 or not
          pc,     \* the function that is running
          code,   \* the bytes looked at so far
          at,     \* current_byte, as a position in the instruction
          table,  \* table_index of ProcessOpcode
          dis,    \* the members of the MiniDisassembler object
          instruction_bytes, \* the caller's variable, 0 when the call starts
          result  \* what Disassemble returned

vars == <<x64, pc, code, at, table, dis, instruction_bytes, result>>

\* The members of the class that a call changes.
Members == [operand_is_32_bits : BOOLEAN, address_is_32_bits : BOOLEAN,
            operand_is_64_bits : BOOLEAN, operand_bytes : Nat,
            have_modrm : BOOLEAN, should_decode_modrm : BOOLEAN,
            type : InstructionType, got : SUBSET {"F2", "F3", "66"}]

\* Mutant: the operand size of the last instruction is kept.
InitializeKeepsOperandSize ==
    [operand_is_32_bits |-> dis.operand_is_32_bits, address_is_32_bits |-> TRUE,
     operand_is_64_bits |-> FALSE, operand_bytes |-> 0,
     have_modrm |-> FALSE, should_decode_modrm |-> FALSE,
     type |-> "UNKNOWN", got |-> {}]

\* Initialize: the patcher creates the object with the 32-bit defaults.
Initialize ==
    [operand_is_32_bits |-> TRUE, address_is_32_bits |-> TRUE,
     operand_is_64_bits |-> FALSE, operand_bytes |-> 0,
     have_modrm |-> FALSE, should_decode_modrm |-> FALSE,
     type |-> "UNKNOWN", got |-> {}]

\* The byte at current_byte: the one already seen, or any of those offered.
Reveal(offered) == IF at <= Len(code) THEN {code[at]} ELSE offered
See(b) == code' = IF at <= Len(code) THEN code ELSE Append(code, b)

IsPrefix(b) == TableEntry(x64, 0, b).type \in {"PREFIX", "PREFIX_ADDRESS", "PREFIX_OPERAND"}

\* Bits 3 and 6 of a byte: (*start_byte) & 0x48.
And48(b) == (b \div 64) % 2 = 1 \/ (b \div 8) % 2 = 1

\* The ModR/M bytes tried, with any of the given reg fields.
ModrmBytes(regs) == {64 * mod + 8 * reg + rm : mod \in 0..3, reg \in regs, rm \in Rms}

Init ==
    /\ x64 \in BOOLEAN
    /\ pc = "idle"
    /\ code = << >>
    /\ at = 1
    /\ table = 0
    /\ dis = [operand_is_32_bits |-> TRUE, address_is_32_bits |-> TRUE,
              operand_is_64_bits |-> FALSE, operand_bytes |-> 0,
              have_modrm |-> FALSE, should_decode_modrm |-> FALSE,
              type |-> "UNKNOWN", got |-> {}]
    /\ instruction_bytes = 0
    /\ result = "UNKNOWN"

-----------------------------------------------------------------------------

\* Disassemble is entered, for the first or for a further instruction.
Disassemble ==
    /\ pc = "idle"
    /\ dis' = Initialize
    /\ pc' = "ProcessPrefixes"
    /\ code' = << >>
    /\ at' = 1
    /\ table' = 0
    /\ instruction_bytes' = 0
    /\ result' = "UNKNOWN"
    /\ UNCHANGED x64

\* The members after ProcessPrefixes has seen one prefix byte.  On x64 every
\* prefix but F2, F3 and 66 that has bit 3 or 6 set counts as REX.W.
AfterPrefix(b) ==
    [dis EXCEPT
        !.address_is_32_bits = IF b = \h67 THEN FALSE ELSE @,
        !.operand_is_32_bits = IF b = \h66 THEN FALSE ELSE @,
        !.got = @ \cup (CASE b = \hF2 -> {"F2"} [] b = \hF3 -> {"F3"}
                          [] b = \h66 -> {"66"} [] OTHER -> {}),
        !.operand_is_64_bits =
            @ \/ (b \notin {\hF2, \hF3, \h66} /\ x64 /\ And48(b))]

\* ProcessPrefixes, one level of its recursion: strip a prefix, or stop.
ProcessPrefixes ==
    /\ pc = "ProcessPrefixes"
    /\ \E b \in Reveal(0..255) :
         /\ See(b)
         /\ IF IsPrefix(b)
            THEN /\ at <= MaxPrefixes /\ b \in PrefixBytes
                 /\ dis' = AfterPrefix(b)
                 /\ at' = at + 1
                 /\ UNCHANGED pc
            ELSE /\ pc' = "ProcessOpcode"
                 /\ UNCHANGED <<dis, at>>
    /\ UNCHANGED <<x64, table, instruction_bytes, result>>

\* ProcessOpcode's choice among the alternatives of a prefix dependent entry.
Specific(entry) ==
    LET present == {p \in dis.got : p \in DOMAIN entry.alt}
    IN CASE "F2" \in present -> entry.alt["F2"]
         [] "F2" \notin present /\ "F3" \in present -> entry.alt["F3"]
         [] present = {"66"} -> entry.alt["66"]
         [] present = {} -> entry

\* ProcessOperand for an immediate operand: the bytes it takes.
OperandBytes(type) ==
    CASE type = "B" -> OS_BYTE
      [] type = "W" -> OS_WORD
      [] type = "V64" /\ dis.operand_is_64_bits -> OS_QUAD_WORD
      [] OTHER -> IF dis.operand_is_32_bits THEN OS_DOUBLE_WORD ELSE OS_WORD

ImmediateBytes(imm) ==
    IF imm = << >> THEN 0
    ELSE OperandBytes(imm[1]) + (IF Len(imm) = 2 THEN OperandBytes(imm[2]) ELSE 0)

\* ProcessOperand for the three operands of an instruction.
ProcessOperands(specific) ==
    [dis EXCEPT !.type = specific.type,
                !.operand_bytes = @ + ImmediateBytes(specific.imm),
                !.have_modrm = @ \/ specific.modrm # NO_MODRM,
                !.should_decode_modrm = @ \/ specific.modrm = DECODE]

\* ProcessOpcode on one byte of the opcode: leave on a byte outside the table or
\* an unused opcode, go on in another table, or finish the opcode.
ProcessOpcode ==
    /\ pc = "ProcessOpcode"
    /\ \E b \in Reveal(IF table = 1 THEN 0..255 ELSE ModrmBytes(0..7)) :
         LET t == OpcodeTable(table)
             i == (IF t.shift = 3 THEN b \div 8 ELSE b) % (t.mask + 1)
             entry == TableEntry(x64, table, i)
             whole == t.mask = \hFF
             after == ProcessOperands(Specific(entry))
         IN /\ See(b)
            /\ \/ /\ i < t.min_lim \/ i > t.max_lim
                  /\ dis' = [dis EXCEPT !.type = "UNKNOWN"]
                  /\ pc' = "Return"
                  /\ UNCHANGED <<at, table>>
               \/ /\ i \in t.min_lim..t.max_lim
                  /\ entry.type = "UNUSED"
                  /\ dis' = [dis EXCEPT !.type = "UNUSED"]
                  /\ pc' = "Return"
                  /\ UNCHANGED <<at, table>>
               \/ /\ i \in t.min_lim..t.max_lim
                  /\ entry.type = "REFERENCE"
                  /\ at' = at + 1
                  /\ table' = entry.table
                  /\ UNCHANGED <<dis, pc>>
               \/ /\ i \in t.min_lim..t.max_lim
                  /\ entry.type \notin {"UNUSED", "REFERENCE"}
                  /\ dis' = after
                  /\ pc' = IF after.have_modrm THEN "ProcessModrm" ELSE "Return"
                  /\ at' = IF after.have_modrm /\ ~whole THEN at ELSE at + 1
                  /\ UNCHANGED table
    /\ UNCHANGED <<x64, instruction_bytes, result>>

\* ProcessModrm counts the ModR/M byte and goes on to a SIB byte.
AfterModrm(entry) == [at |-> at + 1, pc |-> IF entry.sib THEN "ProcessSib" ELSE "Return"]

\* ProcessModrm: a byte that need not be decoded is only counted.
ProcessModrm ==
    /\ pc = "ProcessModrm"
    /\ IF ~dis.should_decode_modrm
       THEN /\ at' = at + 1
            /\ pc' = "Return"
            /\ UNCHANGED <<dis, code>>
       ELSE \E b \in Reveal(ModrmBytes({0})) :
              LET mod == b \div 64
                  rm == b % 8
                  entry == IF dis.address_is_32_bits THEN Ia32Modrm(mod, rm)
                           ELSE Ia16Modrm(mod, rm)
              IN /\ See(b)
                 /\ dis' = [dis EXCEPT !.operand_bytes = @ + entry.bytes]
                 /\ at' = AfterModrm(entry).at
                 /\ pc' = AfterModrm(entry).pc
    /\ UNCHANGED <<x64, table, instruction_bytes, result>>

\* ProcessSib: base 101 has a displacement, whose size follows from mod.
ProcessSib ==
    /\ pc = "ProcessSib"
    /\ \E b \in Reveal(SibBases) :
         LET mod == code[at - 1] \div 64
         IN /\ See(b)
            /\ dis' = [dis EXCEPT !.operand_bytes = @ +
                         CASE b % 8 = 5 /\ mod \in {0, 2} -> OS_DOUBLE_WORD
                           [] b % 8 = 5 /\ mod = 1 -> OS_BYTE
                           [] OTHER -> OS_ZERO]
            /\ at' = at + 1
            /\ pc' = "Return"
    /\ UNCHANGED <<x64, table, instruction_bytes, result>>

\* Disassemble returns: an error leaves the caller's count as it is.
Return ==
    /\ pc = "Return"
    /\ pc' = "idle"
    /\ IF dis.type \in {"UNKNOWN", "UNUSED"}
       THEN result' = "UNKNOWN" /\ UNCHANGED instruction_bytes
       ELSE /\ result' = dis.type
            /\ instruction_bytes' = instruction_bytes + dis.operand_bytes + at - 1
    /\ UNCHANGED <<x64, code, at, table, dis>>

Next ==
    \/ Disassemble
    \/ ProcessPrefixes
    \/ ProcessOpcode
    \/ ProcessModrm
    \/ ProcessSib
    \/ Return

Spec == Init /\ [][Next]_vars /\ WF_vars(Next)

-----------------------------------------------------------------------------
(***************************************************************************)
(* The reference: the length of an instruction by the structure of the     *)
(* instruction set.  It depends on the bytes alone.                        *)
(***************************************************************************)

IsaPrefix(b) == b \in {\h26, \h2E, \h36, \h3E, \h64, \h65, \h66, \h67, \hF0, \hF2, \hF3}
                      \cup (IF x64 THEN \h40..\h4F ELSE {})
PrefixCount == Cardinality({k \in 1..Len(code) : \A j \in 1..k : IsaPrefix(code[j])})
Prefixes == {code[k] : k \in 1..PrefixCount}
TwoByte == code[PrefixCount + 1] = \h0F
OpcodeAt == IF TwoByte THEN PrefixCount + 2 ELSE PrefixCount + 1
Op == code[OpcodeAt]
OneByteIs(set) == ~TwoByte /\ Op \in set
TwoByteIs(set) == TwoByte /\ Op \in set
Reg == (code[OpcodeAt + 1] \div 8) % 8
Mod == code[OpcodeAt + 1] \div 64

IsaHasModrm ==
    \/ ~TwoByte /\ Op < 64 /\ Op % 8 < 4
    \/ OneByteIs({\h62, \h63, \h69, \h6B} \cup \h80..\h8F \cup {\hC0, \hC1} \cup \hC4..\hC7
                 \cup \hD0..\hD3 \cup \hD8..\hDF \cup {\hF6, \hF7, \hFE, \hFF})
    \/ TwoByte /\ Op \notin \h05..\h0B \cup \h30..\h37 \cup {\h77} \cup \h80..\h8F
                            \cup \hA0..\hA2 \cup \hA8..\hAA \cup \hC8..\hCF

RexW == x64 /\ \E b \in Prefixes : b \in \h48..\h4F
OperandSize == IF \h66 \in Prefixes /\ ~RexW THEN 2 ELSE 4
AddressSize == IF x64 THEN (IF \h67 \in Prefixes THEN 4 ELSE 8)
               ELSE (IF \h67 \in Prefixes THEN 2 ELSE 4)

IsaImmediate ==
    CASE ~TwoByte /\ Op < 64 /\ Op % 8 = 4 -> 1
      [] ~TwoByte /\ Op < 64 /\ Op % 8 = 5 -> OperandSize
      [] OneByteIs({\h68, \h69, \h81, \hA9, \hC7, \hE8, \hE9}) -> OperandSize
      [] OneByteIs(\hB8..\hBF) -> IF RexW THEN 8 ELSE OperandSize
      [] OneByteIs({\h6A, \h6B, \h80, \h82, \h83, \hA8, \hC0, \hC1, \hC6, \hCD, \hD4, \hD5, \hEB}
                   \cup \h70..\h7F \cup \hB0..\hB7 \cup \hE0..\hE7) -> 1
      [] OneByteIs(\hA0..\hA3) -> AddressSize
      [] OneByteIs({\h9A, \hEA}) -> OperandSize + 2
      [] OneByteIs({\hC2, \hCA}) -> 2
      [] OneByteIs({\hC8}) -> 3
      [] OneByteIs({\hF6}) -> IF Reg \in 0..1 THEN 1 ELSE 0
      [] OneByteIs({\hF7}) -> IF Reg \in 0..1 THEN OperandSize ELSE 0
      [] TwoByteIs(\h80..\h8F) -> OperandSize
      [] TwoByteIs(\h70..\h73 \cup {\hA4, \hAC, \hBA, \hC2} \cup \hC4..\hC6) -> 1
      [] OTHER -> 0

\* The ModR/M byte, the SIB byte and the displacement.  A byte that was never
\* looked at belongs to an instruction with register operands only.
IsaAddressing ==
    IF OpcodeAt + 1 > Len(code) THEN 1
    ELSE LET rm == code[OpcodeAt + 1] % 8
             sib == AddressSize # 2 /\ rm = 4 /\ Mod # 3
             base == IF OpcodeAt + 2 > Len(code) THEN 0 ELSE code[OpcodeAt + 2] % 8
         IN 1 + (IF sib THEN 1 ELSE 0) +
            CASE Mod = 3 -> 0
              [] Mod = 1 -> 1
              [] Mod = 2 -> IF AddressSize = 2 THEN 2 ELSE 4
              [] Mod = 0 -> IF AddressSize = 2 THEN (IF rm = 6 THEN 2 ELSE 0)
                            ELSE IF rm = 5 \/ (sib /\ base = 5) THEN 4 ELSE 0

IsaLength == OpcodeAt + IsaImmediate + (IF IsaHasModrm THEN IsaAddressing ELSE 0)

\* Byte sequences that are no instruction, or whose length the two vendors
\* define differently: nothing is claimed of them.
IsaUndefined ==
    \/ x64 /\ OneByteIs({\h06, \h07, \h0E, \h16, \h17, \h1E, \h1F, \h27, \h2F, \h37, \h3F, \h60,
                         \h61, \h62, \h82, \h9A, \hC4, \hC5, \hCE, \hD4, \hD5, \hEA})
    \/ x64 /\ \h66 \in Prefixes /\ (OneByteIs({\hE8, \hE9}) \/ TwoByteIs(\h80..\h8F))
    \/ TwoByteIs({\hD6, \hE6}) /\ Prefixes \cap {\h66, \hF2, \hF3} = {}
    \/ TwoByteIs({\h6C, \h6D}) /\ \h66 \notin Prefixes
    \/ TwoByteIs(\h71..\h73) /\ Mod # 3

\* The instructions whose length the decoder gets wrong: a displacement with SIB
\* base 101 counted by the ModR/M map and again by ProcessSib; moves from and to
\* an absolute offset; far pointers; 0F18 and 0FAE, whose ModR/M byte is not
\* decoded; MOVDDUP, MOVSLDUP and MOVSHDUP; and on x64 every prefix taken for
\* REX.W and the 16-bit ModR/M map used for 32-bit addresses.
KnownGap ==
    \/ pc = "idle" /\ Len(code) = OpcodeAt + 2 /\ code[OpcodeAt + 2] % 8 = 5 /\ Mod \in 1..2
    \/ OneByteIs(\hA0..\hA3 \cup {\h9A, \hEA})
    \/ TwoByteIs({\h18, \hAE})
    \/ TwoByteIs({\h12, \h16}) /\ Prefixes \cap {\hF2, \hF3} # {}
    \/ x64 /\ OneByteIs(\hB8..\hBF) /\ ~RexW
    \/ x64 /\ \h67 \in Prefixes

Decoded == pc = "idle" /\ result # "UNKNOWN" /\ code # << >> /\ ~IsaUndefined

-----------------------------------------------------------------------------

TypeOK ==
    /\ x64 \in BOOLEAN
    /\ pc \in {"idle", "ProcessPrefixes", "ProcessOpcode", "ProcessModrm", "ProcessSib", "Return"}
    /\ \A k \in 1..Len(code) : code[k] \in 0..255
    /\ at \in 1..Len(code) + 2
    /\ table \in 0..24
    /\ dis \in Members
    /\ dis.operand_bytes \in 0..16
    /\ instruction_bytes \in 0..24
    /\ result \in {"UNKNOWN", "JUMP", "RETURN", "GENERIC"}

\* Outside the known gaps the patcher learns where the next instruction
\* starts: the count is the architectural length of the instruction, whatever
\* its prefixes, groups, addressing and immediates, and whatever instruction
\* the same object decoded before (Disassemble).
LengthIsArchitectural == (Decoded /\ ~KnownGap) => instruction_bytes = IsaLength

\* The patcher must not move a relative branch blindly: exactly the jumps and
\* calls, the ones encoded in the reg field of FF included, are reported as
\* jumps, and exactly the returns as returns (Disassemble's result).
BranchesAreReported ==
    Decoded =>
      /\ result = "JUMP" <=> \/ OneByteIs(\h70..\h7F \cup \hE0..\hE3
                                          \cup {\h9A, \hE8, \hE9, \hEA, \hEB})
                             \/ OneByteIs({\hFF}) /\ Reg \in 2..5
                             \/ TwoByteIs(\h80..\h8F)
      /\ result = "RETURN" <=> OneByteIs({\hC2, \hC3, \hCA, \hCB})

=============================================================================
