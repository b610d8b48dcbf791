----------------------------- MODULE MachineCsr ----------------------------
(***************************************************************************)
(* The machine-mode control and status registers (lib/machine_csr.sv).     *)
(***************************************************************************)
EXTENDS IntegerAlu

(* The registers have bits up to 11, and a CSR instruction may take the    *)
(* number of a register as its operand.                                    *)
ASSUME TrapsAssumption == ENABLE_TRAPS => XLEN >= 16 /\ ArchRegs <= WordModulus

VARIABLE csr

CsrRegisters ==
  [mie : BOOLEAN, mpie : BOOLEAN, meie : BOOLEAN,
   mtvec : Word, mscratch : Word, mepc : Word, mcause : Word, mtval : Word]

Flag(p, b) == IF p THEN 2 ^ b ELSE 0
RV32IM_MISA == 1073746176 % WordModulus       \* 32'h4000_1100
Aligned(v) == v - (v % 4)

csr_read(address, irq_external) ==
  CASE address = "mstatus"  -> (6144 + Flag(csr.mpie, 7) + Flag(csr.mie, 3)) % WordModulus
    [] address = "misa"     -> RV32IM_MISA
    [] address = "mie"      -> Flag(csr.meie, 11)
    [] address = "mtvec"    -> csr.mtvec
    [] address = "mscratch" -> csr.mscratch
    [] address = "mepc"     -> csr.mepc
    [] address = "mcause"   -> csr.mcause
    [] address = "mtval"    -> csr.mtval
    [] address = "mip"      -> Flag(irq_external, 11)
    [] OTHER -> 0

csr_operand(i, source) ==
  IF i.op \in {"CSRRWI", "CSRRSI", "CSRRCI"} THEN i.rs1 ELSE source

csr_new_value(i, old, operand) ==
  CASE i.op \in {"CSRRW", "CSRRWI"} -> operand
    [] i.op \in {"CSRRS", "CSRRSI"} -> IntegerValue("OR", old, operand)
    [] i.op \in {"CSRRC", "CSRRCI"} -> IntegerValue("AND", old, WordModulus - 1 - operand)
    [] OTHER -> old

csr_written(i) ==
  \/ i.op \in {"CSRRW", "CSRRWI"}
  \/ i.op \in {"CSRRS", "CSRRSI", "CSRRC", "CSRRCI"} /\ i.rs1 # 0

interrupt_enabled(irq_external) == csr.mie /\ csr.meie /\ irq_external

WrittenCsr(address, value) ==
  CASE address = "mstatus"  -> [csr EXCEPT !.mie = Bit(value, 3) = 1, !.mpie = Bit(value, 7) = 1]
    [] address = "mie"      -> [csr EXCEPT !.meie = Bit(value, 11) = 1]
    [] address = "mtvec"    -> [csr EXCEPT !.mtvec = Aligned(value)]
    [] address = "mscratch" -> [csr EXCEPT !.mscratch = value]
    [] address = "mepc"     -> [csr EXCEPT !.mepc = Aligned(value)]
    [] address = "mcause"   -> [csr EXCEPT !.mcause = value]
    [] address = "mtval"    -> [csr EXCEPT !.mtval = value]
    [] OTHER -> csr

CsrResetValue ==
  [mie |-> FALSE, mpie |-> FALSE, meie |-> FALSE,
   mtvec |-> 0, mscratch |-> 0, mepc |-> 0, mcause |-> 0, mtval |-> 0]
CsrInit == csr = CsrResetValue
CsrReset == csr' = CsrResetValue

(* trap is [valid, pc, cause, tval]; commit holds when a CSR instruction i *)
(* retires, with source the value of its rs1.                              *)
CsrTick(trap, mret, commit, i, source, irq_external) ==
  csr' = IF trap.valid
         THEN [csr EXCEPT !.mpie = csr.mie, !.mie = FALSE, !.mepc = trap.pc,
                          !.mcause = trap.cause, !.mtval = trap.tval]
         ELSE IF mret THEN [csr EXCEPT !.mie = csr.mpie, !.mpie = TRUE]
         ELSE IF commit /\ csr_written(i)
         THEN WrittenCsr(i.csr, csr_new_value(i, csr_read(i.csr, irq_external), csr_operand(i, source)))
         ELSE csr
=============================================================================
