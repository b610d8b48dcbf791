------------------------------- MODULE MCCore ------------------------------
(***************************************************************************)
(* Small instances of the pipeline.  A run takes as programs the sequences,*)
(* up to a length, of a menu of instructions chosen to collide: few        *)
(* registers, long and short operations, branches over and back, traps.    *)
(***************************************************************************)
EXTENDS CoreProperties

OpImm(op, rd, rs1, imm) ==
  [opcode |-> "OP-IMM", op |-> op, rd |-> rd, rs1 |-> rs1, rs2 |-> 0,
   imm |-> imm % WordModulus, csr |-> "none", bits |-> 1]
Op(op, rd, rs1, rs2) ==
  [opcode |-> "OP", op |-> op, rd |-> rd, rs1 |-> rs1, rs2 |-> rs2, imm |-> 0,
   csr |-> "none", bits |-> 2]
Br(op, rs1, rs2, offset) ==
  [opcode |-> "BRANCH", op |-> op, rd |-> 0, rs1 |-> rs1, rs2 |-> rs2,
   imm |-> offset % WordModulus, csr |-> "none", bits |-> 3]
Sys(op, csrname, rd, rs1) ==
  [opcode |-> "SYSTEM", op |-> op, rd |-> rd, rs1 |-> rs1, rs2 |-> 0, imm |-> 0,
   csr |-> csrname, bits |-> 4]
IllegalWord ==
  [opcode |-> "other", op |-> "reserved", rd |-> 0, rs1 |-> 0, rs2 |-> 0, imm |-> 0,
   csr |-> "none", bits |-> 5]

Sequences(menu, n) == UNION {[1 .. k -> menu] : k \in 0 .. n}

NormalTiming == [request_wait_cycles |-> 0, response_latency_cycles |-> 1]
StalledTiming == [request_wait_cycles |-> 2, response_latency_cycles |-> 3]
NormalTimings == {NormalTiming}
BothTimings == {NormalTiming, StalledTiming}

(* Two divisions at the start, the second waiting for the first: behind    *)
(* them the queues and the frontend fill up, so that what follows, written *)
(* in pairs, finds room for none, one or two, is dispatched in pairs or    *)
(* across them, and uses every tag again.                                  *)
Waits == Op("ADD", 0, 2, 2)
Divisions == <<OpImm("ADD", 1, 0, 7), Op("DIV", 2, 1, 1), Op("DIV", 2, 2, 1)>>
InPairs(pairs) ==
  { Divisions \o shift \o a \o b \o c :
      shift \in {<<>>, <<Waits>>}, a \in pairs, b \in pairs, c \in pairs }

(* Read after write, write after write, write after read, short after long,*)
(* entries that need no register.                                          *)
HazardPairs ==
  { <<OpImm("ADD", 1, 1, -1), Op("REM", 1, 2, 1)>>, <<Op("SUB", 2, 2, 1), OpImm("ADD", 1, 1, -1)>>,
    <<Waits, Waits>>, <<Op("ADD", 0, 1, 1), Op("ADD", 0, 1, 1)>>,
    <<Br("BNE", 2, 0, 8), OpImm("ADD", 1, 2, 1)>> }
HazardPrograms == InPairs(HazardPairs)

(* Every operation on corner operands, with both timings of the memory.    *)
ValuePrograms ==
  { <<OpImm("ADD", 1, 0, a), OpImm("ADD", 2, 0, b), Op(op, 1, 1, 2), Op("XOR", 2, 1, 2)>> :
      a \in {-128, 7}, b \in {-1, 0, 3}, op \in IntegerOps \cup MulOps \cup DivOps }

(* One at a time: the ends of a program, and what may come before them.    *)
SingleMenu ==
  { Op("DIV", 1, 2, 0), OpImm("ADD", 2, 1, 3), Br("BNE", 1, 2, 8), Br("BGE", 2, 1, 6),
    Br("BEQ", 0, 0, 64), IllegalWord }
SinglePrograms == ValuePrograms \cup Sequences(SingleMenu, 3)

(* Taken and not taken, back and over, onto a misaligned address, or past  *)
(* one; words that are not instructions, on either path.                   *)
BranchPairs ==
  { <<Br("BNE", 1, 2, 8), IllegalWord>>, <<Br("BEQ", 1, 2, 6), Br("BNE", 0, 0, 8)>>,
    <<OpImm("ADD", 2, 2, 3), Br("BLTU", 2, 1, -4)>>, <<Br("BEQ", 1, 1, 6), OpImm("ADD", 2, 2, 3)>>,
    <<IllegalWord, OpImm("ADD", 1, 1, 1)>> }
BranchPrograms == InPairs(BranchPairs)

(* Machine mode.  The prologue points mtvec at the handler and enables the *)
(* external interrupt; -2040 has bit 3 of mstatus and bit 11 of mie.  The  *)
(* body jumps over the handler to the end of the program.                  *)
WithHandler(body, handler) ==
  << OpImm("ADD", 1, 0, -2040), Sys("CSRRW", "mie", 0, 1),
     OpImm("ADD", 2, 0, 24 + 4 * Len(body)), Sys("CSRRW", "mtvec", 0, 2),
     Sys("CSRRW", "mstatus", 0, 1) >>
  \o body \o << Br("BEQ", 0, 0, 4 + 4 * Len(handler)) >> \o handler

(* Exceptions end in a handler that reads the cause and runs off the end.  *)
ExceptionMenu ==
  { Sys("ECALL", "none", 0, 0), Sys("CSRRS", "mscratch", 1, 2), Op("DIV", 2, 1, 2),
    Br("BEQ", 1, 1, 6), IllegalWord }
ExceptionPrograms(n) ==
  { WithHandler(b, <<Sys("CSRRS", "mcause", 2, 0)>>) : b \in Sequences(ExceptionMenu, n) }

(* Interrupts return from their handler to where they struck.              *)
InterruptBodies ==
  { <<Op("DIV", 2, 1, 2), OpImm("ADD", 1, 1, 1), Op("ADD", 1, 1, 2)>>,
    <<Op("DIV", 2, 1, 1), Br("BNE", 2, 0, 8), OpImm("ADD", 1, 1, 1)>>,
    <<Sys("CSRRC", "mstatus", 1, 1), OpImm("ADD", 1, 0, 1), Sys("EBREAK", "none", 0, 0)>>,
    <<Sys("CSRRWI", "mscratch", 1, 2), Sys("CSRRSI", "mscratch", 2, 1),
      Sys("CSRRCI", "mhartid", 1, 2)>> }
InterruptPrograms ==
  { WithHandler(b, <<Sys("CSRRW", "mscratch", 2, 1), Sys("MRET", "none", 0, 0)>>) :
      b \in InterruptBodies }

TrapPrograms == ExceptionPrograms(2) \cup InterruptPrograms
=============================================================================
