-------------------------------- MODULE Isa --------------------------------
(***************************************************************************)
(* What a core promises its programmer: the reference CPU of the           *)
(* repository (riscv_emulator/src/rv32im_reference_cpu.cpp), one           *)
(* instruction after the other, without pipeline, memory protocol or time. *)
(* A step retires one instruction or two in a row, ends the program, takes *)
(* a trap or an interrupt, or does nothing; retired is what the retirement *)
(* outputs announce of it.                                                 *)
(***************************************************************************)
EXTENDS IntegerAlu, MulDivReference

VARIABLES
  program,              \* sequence of instruction records (see module Decode)
  irq_external,         \* the interrupt line
  arch,                 \* architectural state: x, pc, csr, halted, fault, fault_code
  retired,              \* instructions retired by the last step: [pc, rd, value]
  resets                \* edges with reset asserted so far

isaVars == <<program, arch, retired, resets>>

-----------------------------------------------------------------------------
(* What an instruction of OP or OP-IMM computes.                           *)
Value(op, a, b) == IF is_muldiv(op) THEN MulDivValue(op, a, b) ELSE IntegerValue(op, a, b)

-----------------------------------------------------------------------------
(* Control and status registers.                                           *)
AsFlag(p, b) == IF p THEN 2 ^ b ELSE 0

read_csr(m, address) ==
  CASE address = "mstatus" -> (6144 + AsFlag(m.csr.mpie, 7) + AsFlag(m.csr.mie, 3)) % WordModulus
    [] address = "misa"    -> 1073746176 % WordModulus
    [] address = "mie"     -> AsFlag(m.csr.meie, 11)
    [] address = "mip"     -> AsFlag(irq_external, 11)
    [] address = "mhartid" -> 0
    [] OTHER -> m.csr[address]

write_csr(m, address, value) ==
  CASE address = "mstatus" ->
         [m EXCEPT !.csr.mie = Bit(value, 3) = 1, !.csr.mpie = Bit(value, 7) = 1]
    [] address = "mie" -> [m EXCEPT !.csr.meie = Bit(value, 11) = 1]
    [] address \in {"mtvec", "mepc"} -> [m EXCEPT !.csr[address] = value - (value % 4)]
    [] address \in {"mscratch", "mcause", "mtval"} -> [m EXCEPT !.csr[address] = value]
    [] OTHER -> m

Trap(m, cause, tval) ==
  [m EXCEPT !.csr.mpie = m.csr.mie, !.csr.mie = FALSE, !.csr.mepc = m.pc,
            !.csr.mcause = cause, !.csr.mtval = tval, !.pc = m.csr.mtvec]

raise_fault(m, code, cause, tval) ==
  IF ENABLE_TRAPS THEN Trap(m, cause, tval)
  ELSE [m EXCEPT !.fault = TRUE, !.fault_code = code]

-----------------------------------------------------------------------------
(* An outcome of execute: the next state and what retires, if anything.    *)
Retire(m, rd, value, next_pc) ==
  [m |-> [m EXCEPT !.x[rd] = IF rd = 0 THEN 0 ELSE value, !.pc = next_pc],
   retired |-> <<[pc |-> m.pc, rd |-> rd, value |-> IF rd = 0 THEN 0 ELSE value]>>]
NoRetire(m) == [m |-> m, retired |-> <<>>]
NextOf(m) == (m.pc + 4) % WordModulus
Illegal(m, i) == NoRetire(raise_fault(m, FAULT_ILLEGAL, CAUSE_ILLEGAL, i.bits))

Branch(m, i) ==
  LET taken  == BranchTaken(i.op, m.x[i.rs1], m.x[i.rs2])
      target == IF taken THEN (m.pc + i.imm) % WordModulus ELSE NextOf(m)
  IN IF taken /\ target % 4 # 0
     THEN NoRetire(raise_fault(m, FAULT_MISALIGNED, CAUSE_INSTR_MISALIGNED, target))
     ELSE Retire(m, 0, 0, target)

Csr(m, i) ==
  LET known == i.csr \in {"mstatus", "misa", "mie", "mtvec", "mscratch", "mepc",
                          "mcause", "mtval", "mip", "mhartid"}
      writes == i.op \in {"CSRRW", "CSRRWI"} \/ i.rs1 # 0
      old == read_csr(m, i.csr)
      source == IF i.op \in {"CSRRWI", "CSRRSI", "CSRRCI"} THEN i.rs1 ELSE m.x[i.rs1]
      value == CASE i.op \in {"CSRRW", "CSRRWI"} -> source
                 [] i.op \in {"CSRRS", "CSRRSI"} -> IntegerValue("OR", old, source)
                 [] i.op \in {"CSRRC", "CSRRCI"} ->
                      IntegerValue("AND", old, WordModulus - 1 - source)
  IN IF ~known \/ (i.csr = "mhartid" /\ writes) THEN Illegal(m, i)
     ELSE Retire(IF writes THEN write_csr(m, i.csr, value) ELSE m, i.rd, old, NextOf(m))

Mret(m) ==
  Retire([m EXCEPT !.csr.mie = m.csr.mpie, !.csr.mpie = TRUE], 0, 0, m.csr.mepc)

System(m, i) ==
  CASE ~ENABLE_TRAPS -> Illegal(m, i)
    [] ENABLE_TRAPS /\ i.op = "ECALL" -> NoRetire(Trap(m, CAUSE_ECALL_M, 0))
    [] ENABLE_TRAPS /\ i.op = "EBREAK" -> NoRetire(Trap(m, CAUSE_BREAKPOINT, 0))
    [] ENABLE_TRAPS /\ i.op = "MRET" -> Mret(m)
    [] ENABLE_TRAPS /\ i.op \in {"CSRRW", "CSRRS", "CSRRC", "CSRRWI", "CSRRSI", "CSRRCI"} ->
         Csr(m, i)
    [] OTHER -> Illegal(m, i)

execute(m, i) ==
  CASE i.opcode = "BRANCH" /\ i.op \in BranchOps -> Branch(m, i)
    [] i.opcode = "OP-IMM" /\ i.op \in IntegerOps \ {"SUB"} ->
         Retire(m, i.rd, Value(i.op, m.x[i.rs1], i.imm), NextOf(m))
    [] i.opcode = "OP" /\ i.op \in IntegerOps \cup MulOps \cup DivOps ->
         Retire(m, i.rd, Value(i.op, m.x[i.rs1], m.x[i.rs2]), NextOf(m))
    [] i.opcode = "SYSTEM" -> System(m, i)
    [] OTHER -> Illegal(m, i)

(* What a word answered with a status does.                                *)
Answer(m, status, i) ==
  CASE status = "end" -> NoRetire([m EXCEPT !.halted = TRUE])
    [] status \notin {"end", "ok"} ->
         NoRetire(raise_fault(m, FAULT_ACCESS, CAUSE_INSTR_ACCESS, m.pc))
    [] OTHER -> execute(m, i)

Fetched(m) ==
  IF m.pc % 4 # 0 \/ m.pc > 4 * Len(program) THEN "access_fault"
  ELSE IF m.pc = 4 * Len(program) THEN "end" ELSE "ok"
StepOf(m) == Answer(m, Fetched(m), program[m.pc \div 4 + 1])

-----------------------------------------------------------------------------
ResetState ==
  [x |-> [r \in Arch |-> 0], pc |-> 0, halted |-> FALSE, fault |-> FALSE, fault_code |-> FAULT_NONE,
   csr |-> [mie |-> FALSE, mpie |-> FALSE, meie |-> FALSE,
            mtvec |-> 0, mscratch |-> 0, mepc |-> 0, mcause |-> 0, mtval |-> 0]]

IsaInit == arch = ResetState /\ retired = <<>>

Running == ~arch.halted /\ ~arch.fault

ExecuteOne ==
  /\ Running
  /\ LET outcome == StepOf(arch) IN arch' = outcome.m /\ retired' = outcome.retired

ExecuteTwo ==
  /\ Running /\ ISSUE_WIDTH = 2
  /\ LET first == StepOf(arch) IN
       /\ first.retired # <<>>
       /\ LET second == StepOf(first.m) IN
            /\ second.retired # <<>>
            /\ arch' = second.m /\ retired' = first.retired \o second.retired

Interrupt ==
  /\ Running /\ ENABLE_TRAPS /\ arch.csr.mie /\ arch.csr.meie /\ irq_external
  /\ arch' = Trap(arch, CAUSE_EXTERNAL, 0) /\ retired' = <<>>

Idle == UNCHANGED arch /\ retired' = <<>>

(* Reset leaves nothing behind but the program.                            *)
Reset == resets' # resets /\ arch' = ResetState /\ retired' = <<>>

IsaNext ==
  /\ \/ (ExecuteOne \/ ExecuteTwo \/ Interrupt \/ Idle) /\ resets' = resets
     \/ Reset
  /\ program' = program

(* The interrupt line is read, not written: it changes when it likes.      *)
IsaSpec == IsaInit /\ [][IsaNext]_isaVars
=============================================================================
