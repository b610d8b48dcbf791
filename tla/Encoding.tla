------------------------------ MODULE Encoding ------------------------------
(***************************************************************************)
(* The bits of an instruction, as the three CPUs read them: the decoder of *)
(* the RTL (rtl/lib/rv32_decode.sv), decode of the SystemC CPU             *)
(* (riscv_emulator/src/rv32im_cpu.cpp) and execute of the reference CPU    *)
(* (riscv_emulator/src/rv32im_reference_cpu.cpp), each written by hand.    *)
(* The other modules take instructions as records of names; Instruction    *)
(* names the fields of a word for them.                                    *)
(*                                                                         *)
(* A word is the set of the positions of its one bits, and so is a field.  *)
(***************************************************************************)
EXTENDS Decode

CONSTANTS
  Canonical,            \* the words to start from
  MaxFlips              \* bits in which a word may differ from these

(* A word has 32 bits.                                                     *)
ASSUME CanonicalAssumption == Canonical \subseteq SUBSET (0 .. 31)

VARIABLES word, flips

Field(w, high, low) == {b - low : b \in w \cap (low .. high)}
Num(field) ==                    \* no field has more than 12 bits
  LET At(b, weight) == IF b \in field THEN weight ELSE 0
  IN At(0, 1) + At(1, 2) + At(2, 4) + At(3, 8) + At(4, 16) + At(5, 32) + At(6, 64)
       + At(7, 128) + At(8, 256) + At(9, 512) + At(10, 1024) + At(11, 2048)

(* The fields all three cut a word into; top holds rs2 and f7.             *)
Fields(w) ==
  [opcode |-> Num(Field(w, 6, 0)), rd |-> Num(Field(w, 11, 7)), f3 |-> Num(Field(w, 14, 12)),
   rs1 |-> Num(Field(w, 19, 15)), rs2 |-> Num(Field(w, 24, 20)), f7 |-> Num(Field(w, 31, 25)),
   top |-> Num(Field(w, 31, 20))]

ECALL == {0, 1, 4, 5, 6}                         \* \h00000073
EBREAK == {0, 1, 4, 5, 6, 20}                    \* \h00100073
MRET == {0, 1, 4, 5, 6, 21, 28, 29}              \* \h30200073
CsrAt == {\h300, \h301, \h304, \h305, \h340, \h341, \h342, \h343, \h344, \hf14}
CsrAddress ==
  [n \in CsrAt |->
     CASE n = \h300 -> "mstatus"  [] n = \h301 -> "misa" [] n = \h304 -> "mie"
       [] n = \h305 -> "mtvec"    [] n = \h340 -> "mscratch" [] n = \h341 -> "mepc"
       [] n = \h342 -> "mcause"   [] n = \h343 -> "mtval" [] n = \h344 -> "mip"
       [] n = \hf14 -> "mhartid"]

IntegerTable == <<"ADD", "SLL", "SLT", "SLTU", "XOR", "SRL", "OR", "AND">>
MulDivTable == <<"MUL", "MULH", "MULHSU", "MULHU", "DIV", "DIVU", "REM", "REMU">>
CsrTable == <<"reserved", "CSRRW", "CSRRS", "CSRRC", "reserved", "CSRRWI", "CSRRSI", "CSRRCI">>
BranchTable == <<"BEQ", "BNE", "reserved", "reserved", "BLT", "BGE", "BLTU", "BGEU">>

-----------------------------------------------------------------------------
(* The decoder of the RTL.                                                 *)
SignBits(w, lowest) == IF 31 \in w THEN lowest .. 31 ELSE {}
rtl_immediate(w, i) ==
  IF i.opcode = \h63
  THEN SignBits(w, 12) \cup (IF 7 \in w THEN {11} ELSE {})
         \cup {b - 20 : b \in w \cap 25 .. 30} \cup {b - 7 : b \in w \cap 8 .. 11}
  ELSE SignBits(w, 12) \cup Field(w, 31, 20)

rtl_op(i) ==
  CASE i.opcode = \h33 /\ i.f7 = 1 -> MulDivTable[i.f3 + 1]
    [] i.opcode = \h33 /\ i.f7 = \h20 /\ i.f3 = 0 -> "SUB"
    [] i.opcode \in {\h13, \h33} /\ i.f7 = \h20 /\ i.f3 = 5 -> "SRA"
    [] i.opcode = \h63 -> BranchTable[i.f3 + 1]
    [] i.opcode = \h73 -> "ADD"
    [] OTHER -> IntegerTable[i.f3 + 1]

rtl_csr_write(i) == i.f3 \in {1, 5} \/ i.rs1 # 0
rtl_csr_legal(i) ==
  i.top \in CsrAt /\ i.f3 # 4 /\ ~(i.top = \hf14 /\ rtl_csr_write(i))

rtl_legal_any_shift(w, i) ==
  CASE i.opcode = \h13 -> TRUE
    [] i.opcode = \h33 -> i.f7 \in {0, 1} \/ (i.f7 = \h20 /\ i.f3 \in {0, 5})
    [] i.opcode = \h63 -> i.f3 \notin {2, 3}
    [] i.opcode = \h73 ->
         ENABLE_TRAPS /\ IF i.f3 = 0 THEN w \in {ECALL, EBREAK, MRET} ELSE rtl_csr_legal(i)
    [] OTHER -> FALSE

rtl_legal(w, i) ==
  CASE i.opcode = \h13 -> (i.f3 = 1 => i.f7 = 0) /\ (i.f3 = 5 => i.f7 \in {0, \h20})
    [] i.opcode = \h33 -> i.f7 \in {0, 1} \/ (i.f7 = \h20 /\ i.f3 \in {0, 5})
    [] i.opcode = \h63 -> i.f3 \notin {2, 3}
    [] i.opcode = \h73 ->
         ENABLE_TRAPS /\ IF i.f3 = 0 THEN w \in {ECALL, EBREAK, MRET} ELSE rtl_csr_legal(i)
    [] OTHER -> FALSE

rtl_decode(w, i) ==
  LET ok == rtl_legal(w, i)
      bare == i.opcode = \h73 /\ i.f3 = 0
      call == w \in {ECALL, EBREAK}
  IN [op |-> IF ok THEN rtl_op(i) ELSE "ADD",
      rs1 |-> IF ok /\ ~bare THEN i.rs1 ELSE 0,
      rs2 |-> IF ok /\ i.opcode \notin {\h13, \h73} THEN i.rs2 ELSE 0,
      rd |-> IF ok /\ ~bare /\ i.opcode # \h63 THEN i.rd ELSE 0,
      immediate |-> rtl_immediate(w, i), immediate_b |-> i.opcode = \h13,
      terminal |-> ~ok \/ call, serial |-> ok /\ i.opcode = \h73 /\ ~call,
      fault |-> IF ~ok \/ call THEN FAULT_ILLEGAL ELSE FAULT_NONE,
      trap_cause |-> IF ~ok THEN CAUSE_ILLEGAL
                     ELSE IF w = ECALL THEN CAUSE_ECALL_M
                     ELSE IF w = EBREAK THEN CAUSE_BREAKPOINT ELSE 0]

-----------------------------------------------------------------------------
(* decode of the SystemC CPU: a first reading of the fields, corrected by  *)
(* the opcode's branch, overruled if the word is not legal.                *)
Shifted(w, n) == {b - n : b \in w}
ExtendedFrom(field, sign) == IF sign \in field THEN field \cup (sign .. 31) ELSE field
first_reading(w, i) ==
  [op |-> "ADD", rs1 |-> i.rs1, rs2 |-> i.rs2, rd |-> i.rd,
   immediate |-> ExtendedFrom(Shifted(w, 20) \cap 0 .. 11, 11), immediate_b |-> FALSE,
   terminal |-> FALSE, serial |-> FALSE, fault |-> FAULT_NONE, trap_cause |-> 0]

branch_immediate(w) ==
  ExtendedFrom((Shifted(w, 19) \cap {12}) \cup (Shifted(w, 20) \cap 5 .. 10)
                 \cup (Shifted(w, 7) \cap 1 .. 4) \cup (Shifted(w, -4) \cap {11}), 12)

by_opcode(w, i, d) ==
  LET integer == IntegerTable[i.f3 + 1]
      If(p, e) == [legal |-> p, d |-> e]
  IN CASE i.opcode = \h13 ->
            If((i.f3 = 1 => i.f7 = 0) /\ (i.f3 = 5 => i.f7 \in {0, 32}),
               [d EXCEPT !.immediate_b = TRUE, !.rs2 = 0,
                         !.op = IF i.f3 = 5 /\ i.f7 = 32 THEN "SRA" ELSE integer])
       [] i.opcode = \h33 /\ i.f7 = 1 -> If(TRUE, [d EXCEPT !.op = MulDivTable[i.f3 + 1]])
       [] i.opcode = \h33 /\ i.f7 = 32 /\ i.f3 \in {0, 5} ->
            If(TRUE, [d EXCEPT !.op = IF i.f3 = 0 THEN "SUB" ELSE "SRA"])
       [] i.opcode = \h33 /\ i.f7 # 1 /\ ~(i.f7 = 32 /\ i.f3 \in {0, 5}) ->
            If(i.f7 = 0, [d EXCEPT !.op = integer])
       [] i.opcode = \h63 ->
            If(BranchTable[i.f3 + 1] # "reserved",
               [d EXCEPT !.rd = 0, !.op = BranchTable[i.f3 + 1], !.immediate = branch_immediate(w)])
       [] i.opcode = \h73 /\ i.f3 = 0 /\ w \in {ECALL, EBREAK} ->
            If(ENABLE_TRAPS, [d EXCEPT !.rd = 0, !.rs1 = 0, !.rs2 = 0, !.terminal = TRUE,
                                       !.fault = FAULT_ILLEGAL, !.trap_cause = IF w = ECALL THEN 11 ELSE 3])
       [] i.opcode = \h73 /\ i.f3 = 0 /\ w \notin {ECALL, EBREAK} ->
            If(ENABLE_TRAPS /\ w = MRET, [d EXCEPT !.rd = 0, !.rs1 = 0, !.rs2 = 0, !.serial = TRUE])
       [] i.opcode = \h73 /\ i.f3 # 0 ->
            If(/\ ENABLE_TRAPS /\ i.f3 # 4 /\ i.top \in CsrAt
               /\ ~(i.top = \hf14 /\ (i.f3 \in {1, 5} \/ i.rs1 # 0)),
               [d EXCEPT !.serial = TRUE, !.rs2 = 0])
       [] OTHER -> If(FALSE, d)

overruled(x) ==
  IF x.legal THEN x.d
  ELSE [x.d EXCEPT !.op = "ADD", !.rs1 = 0, !.rs2 = 0, !.rd = 0, !.terminal = TRUE,
                   !.serial = FALSE, !.fault = FAULT_ILLEGAL, !.trap_cause = 2]
systemc_decode(w, i) == overruled(by_opcode(w, i, first_reading(w, i)))

-----------------------------------------------------------------------------
(* execute of the reference CPU, which decodes as it goes: the operation,  *)
(* the register that is written, the operands; what it does not read is 0  *)
(* and {}.                                                                 *)
NoOperation == [op |-> "reserved", rd |-> 0, rs1 |-> 0, rs2 |-> 0, immediate |-> {}, csr |-> "none"]
sign_extend(field, width) == ExtendedFrom(field, width - 1)

reference_branch(w, i) ==
  LET offset == (IF 31 \in w THEN {12} ELSE {}) \cup (IF 7 \in w THEN {11} ELSE {})
                  \cup Shifted(Field(w, 30, 25), -5) \cup Shifted(Field(w, 11, 8), -1)
  IN IF i.f3 \in {2, 3} THEN NoOperation
     ELSE [NoOperation EXCEPT !.op = BranchTable[i.f3 + 1], !.rs1 = i.rs1, !.rs2 = i.rs2,
                              !.immediate = sign_extend(offset, 13)]

reference_immediate(w, i) ==
  IF (i.f3 = 1 /\ i.f7 # 0) \/ (i.f3 = 5 /\ i.f7 \notin {0, \h20}) THEN NoOperation
  ELSE [NoOperation EXCEPT !.op = IF i.f3 = 5 /\ i.f7 = \h20 THEN "SRA" ELSE IntegerTable[i.f3 + 1],
                           !.rd = i.rd, !.rs1 = i.rs1, !.immediate = sign_extend(Field(w, 31, 20), 12)]

reference_system(w, i) ==
  LET known == i.top \in CsrAt
      writes == i.f3 \in {1, 5} \/ i.rs1 # 0
  IN CASE w = ECALL -> [NoOperation EXCEPT !.op = "ECALL"]
       [] w = EBREAK -> [NoOperation EXCEPT !.op = "EBREAK"]
       [] w = MRET -> [NoOperation EXCEPT !.op = "MRET"]
       [] i.f3 # 0 /\ known /\ i.f3 # 4 /\ ~(i.top = \hf14 /\ writes) ->
            [NoOperation EXCEPT !.op = CsrTable[i.f3 + 1], !.rd = i.rd, !.rs1 = i.rs1,
                                !.csr = CsrAddress[i.top]]
       [] OTHER -> NoOperation

reference_register(i) ==
  LET Does(op) == [NoOperation EXCEPT !.op = op, !.rd = i.rd, !.rs1 = i.rs1, !.rs2 = i.rs2]
  IN CASE i.f7 = 1 -> Does(MulDivTable[i.f3 + 1])
       [] i.f7 = 0 -> Does(IntegerTable[i.f3 + 1])
       [] i.f7 = \h20 /\ i.f3 = 0 -> Does("SUB")
       [] i.f7 = \h20 /\ i.f3 = 5 -> Does("SRA")
       [] OTHER -> NoOperation

reference_execute(w, i) ==
  CASE i.opcode = \h63 -> reference_branch(w, i)
    [] i.opcode = \h13 -> reference_immediate(w, i)
    [] i.opcode = \h73 /\ ENABLE_TRAPS -> reference_system(w, i)
    [] i.opcode = \h33 -> reference_register(i)
    [] OTHER -> NoOperation

-----------------------------------------------------------------------------
(* The names the other modules use.                                        *)
Category(opcode) ==
  CASE opcode = \h13 -> "OP-IMM" [] opcode = \h33 -> "OP" [] opcode = \h63 -> "BRANCH"
    [] opcode = \h73 -> "SYSTEM" [] OTHER -> "other"
system_name(w, i) ==
  CASE w = ECALL -> "ECALL" [] w = EBREAK -> "EBREAK" [] w = MRET -> "MRET"
    [] OTHER -> CsrTable[i.f3 + 1]

Instruction(w, i) ==
  [opcode |-> Category(i.opcode),
   op |-> IF i.opcode = \h73 THEN system_name(w, i)
          ELSE IF rtl_legal(w, i) THEN rtl_op(i) ELSE "reserved",
   rd |-> i.rd, rs1 |-> i.rs1, rs2 |-> i.rs2, imm |-> rtl_immediate(w, i),
   csr |-> IF i.top \in CsrAt THEN CsrAddress[i.top] ELSE "none", bits |-> w]

-----------------------------------------------------------------------------
(* The words: some to start from, and all that differ from these in a few  *)
(* bits.                                                                   *)
Start == word \in Canonical /\ flips = 0
Flip ==
  /\ flips < MaxFlips /\ flips' = flips + 1
  /\ \E b \in 0 .. 31 : word' = (word \ {b}) \cup ({b} \ word)
WordSpec == Start /\ [][Flip]_<<word, flips>>

SameDecoding(w, i) == systemc_decode(w, i) = rtl_decode(w, i)
SameNames(r, n) ==               \* an entry that ends has no use for an immediate
  /\ \A f \in DOMAIN r \ {"immediate", "immediate_b"} : n[f] = r[f]
  /\ ~r.terminal => n.immediate = r.immediate /\ n.immediate_b = r.immediate_b
SameAsReference(r, n, x) ==
  /\ x.op = "reserved" <=> r.fault = FAULT_ILLEGAL /\ r.trap_cause = CAUSE_ILLEGAL
  /\ x.op # "reserved" =>
       /\ x.op = n.op /\ x.rd = r.rd /\ x.rs1 = r.rs1 /\ x.rs2 = r.rs2
       /\ n.opcode \in {"OP-IMM", "BRANCH"} => x.immediate = r.immediate
       /\ n.op \in CsrOps => x.csr = n.csr

(* The three CPUs read every word alike: they execute the same words, as   *)
(* the same operation on the same operands, and refuse the same words; and *)
(* the decoder of module Decode, which works on names, is the one of the   *)
(* RTL (rv32_decode.sv:22-141, rv32im_cpu.cpp:140-229,                     *)
(* rv32im_reference_cpu.cpp:177-429).                                      *)
DecodersAgree ==
  LET i == Fields(word)
      n == Instruction(word, i)
      r == rtl_decode(word, i)
  IN /\ SameDecoding(word, i)
     /\ SameNames(r, rv32_decode([pc |-> 0, instruction |-> n, status |-> "ok"]))
     /\ SameAsReference(r, n, reference_execute(word, i))
=============================================================================
