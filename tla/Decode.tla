------------------------------- MODULE Decode ------------------------------
(***************************************************************************)
(* The decoder (lib/rv32_decode.sv).  An instruction is a record of the    *)
(* fields the decoder reads, with the function codes already named:        *)
(*   opcode  "OP-IMM" | "OP" | "BRANCH" | "SYSTEM" | "other"               *)
(*   op      the operation, "ECALL" | "EBREAK" | "MRET" or one of CsrOps   *)
(*           under SYSTEM, "reserved" for any other code                   *)
(*   rd, rs1, rs2, imm, csr, and bits, the whole word as a value.  The     *)
(*           CSR operations whose name ends in I take rs1 itself as operand*)
(***************************************************************************)
EXTENDS Tiny5

instruction_t ==
  [opcode : STRING, op : STRING, rd : Arch, rs1 : Arch, rs2 : Arch, imm : Word,
   csr : STRING, bits : Word]

KnownCsr == {"mstatus", "misa", "mie", "mtvec", "mscratch", "mepc", "mcause",
             "mtval", "mip", "mhartid"}
CsrOps == {"CSRRW", "CSRRS", "CSRRC", "CSRRWI", "CSRRSI", "CSRRCI"}

(* Whether a CSR instruction writes: always CSRRW and CSRRWI, else if its  *)
(* rs1 field is not zero.                                                  *)
csr_write(i) == i.op \in {"CSRRW", "CSRRWI"} \/ i.rs1 # 0

legal(i) ==
  CASE i.opcode = "OP-IMM" -> i.op \in IntegerOps \ {"SUB"}
    [] i.opcode = "OP"     -> i.op \in IntegerOps \cup MulOps \cup DivOps
    [] i.opcode = "BRANCH" -> i.op \in BranchOps
    [] i.opcode = "SYSTEM" ->
         /\ ENABLE_TRAPS
         /\ \/ i.op \in {"ECALL", "EBREAK", "MRET"}
            \/ /\ i.op \in CsrOps /\ i.csr \in KnownCsr
               /\ ~(i.csr = "mhartid" /\ csr_write(i))
    [] OTHER -> FALSE

(* A word that is not an instruction, or not a legal one, becomes an entry *)
(* that ends the program (terminal) with its fault.                        *)
Terminal(fetched, fault, cause) ==
  [pc |-> fetched.pc, instruction |-> fetched.instruction, op |-> "ADD",
   rs1 |-> 0, rs2 |-> 0, rd |-> 0, immediate |-> 0, immediate_b |-> FALSE,
   terminal |-> TRUE, serial |-> FALSE, fault |-> fault, trap_cause |-> cause]

Legal(fetched) ==
  LET i == fetched.instruction
      system == i.opcode = "SYSTEM"
      bare == i.op \in {"ECALL", "EBREAK", "MRET"}
  IN [pc |-> fetched.pc, instruction |-> i,
      op |-> IF system THEN "ADD" ELSE i.op,
      rs1 |-> IF bare THEN 0 ELSE i.rs1,
      rs2 |-> IF i.opcode \in {"OP", "BRANCH"} THEN i.rs2 ELSE 0,
      rd |-> IF bare \/ i.opcode = "BRANCH" THEN 0 ELSE i.rd,
      immediate |-> i.imm,
      immediate_b |-> i.opcode = "OP-IMM",
      terminal |-> FALSE, serial |-> system,
      fault |-> FAULT_NONE, trap_cause |-> 0]

rv32_decode(fetched) ==
  CASE fetched.status = "end" -> Terminal(fetched, FAULT_NONE, 0)
    [] fetched.status = "access_fault" -> Terminal(fetched, FAULT_ACCESS, CAUSE_INSTR_ACCESS)
    [] fetched.status = "ok" /\ ~legal(fetched.instruction) ->
         Terminal(fetched, FAULT_ILLEGAL, CAUSE_ILLEGAL)
    [] fetched.status = "ok" /\ legal(fetched.instruction)
       /\ fetched.instruction.op = "ECALL" -> Terminal(fetched, FAULT_ILLEGAL, CAUSE_ECALL_M)
    [] fetched.status = "ok" /\ legal(fetched.instruction)
       /\ fetched.instruction.op = "EBREAK" -> Terminal(fetched, FAULT_ILLEGAL, CAUSE_BREAKPOINT)
    [] OTHER -> Legal(fetched)
=============================================================================
