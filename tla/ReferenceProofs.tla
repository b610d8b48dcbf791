--------------------------- MODULE ReferenceProofs --------------------------
(***************************************************************************)
(* The reference CPU is a fair judge of the others.                        *)
(*                                                                         *)
(* It reads what they read: the three decoders agree on every word, not    *)
(* only on those TLC reaches, which are the canonical ones and their       *)
(* neighbours (DecodersAlwaysAgree).  The proof goes by the opcode and     *)
(* assumes of the word that it is a set of bit positions.  Its plan:       *)
(*   - the fields of a word: the function code indexes a table, and the    *)
(*     immediates, cut and shifted three ways, are the same set of bits;   *)
(*   - the SystemC CPU: its reading is a record of ten fields of which an  *)
(*     opcode's branch corrects some; opcode by opcode, what is left is    *)
(*     what the RTL computes field by field;                               *)
(*   - the names: module Decode finds legal what the RTL finds legal, and  *)
(*     makes the same of it;                                               *)
(*   - the reference CPU: it executes the operation so named.              *)
(*                                                                         *)
(* And it executes the instruction set: side by side with the others, with *)
(* its own memory and at its own pace (ReferenceImplementsIsa).            *)
(***************************************************************************)
EXTENDS Lockstep, Encoding, TLAPS

-----------------------------------------------------------------------------
(***************************************************************************)
(* What the proofs need of the fields of a word: a function code indexes   *)
(* its table, and the three bare system instructions have their opcode and *)
(* function code.                                                          *)
(***************************************************************************)
Readable(w, i) ==
  /\ i.f3 \in 0 .. 7
  /\ w \in {ECALL, EBREAK, MRET} => i.opcode = \h73 /\ i.f3 = 0

(* A field of three bits is one of eight numbers.                          *)
LEMMA ThreeBits ==
  ASSUME NEW w \in SUBSET (0 .. 31)
  PROVE  Num(Field(w, 14, 12)) \in 0 .. 7
<1>1. \A b \in Field(w, 14, 12) : b \in 0 .. 2
  BY DEF Field
<1> QED
  BY <1>1 DEF Num

(* The system instructions without operands.                               *)
LEMMA BareWords ==
  /\ \A w \in {ECALL, EBREAK, MRET} : Num(Field(w, 6, 0)) = \h73 /\ Num(Field(w, 14, 12)) = 0
  /\ ECALL # EBREAK /\ ECALL # MRET /\ EBREAK # MRET
<1> DEFINE Low == {0, 1, 4, 5, 6}
<1>1. \A w \in {ECALL, EBREAK, MRET} : Field(w, 6, 0) = Low /\ Field(w, 14, 12) = {}
  BY DEF Field, ECALL, EBREAK, MRET
<1>2. Num(Low) = \h73 /\ Num({}) = 0
  BY DEF Num
<1>3. ECALL # EBREAK /\ ECALL # MRET /\ EBREAK # MRET
  BY DEF ECALL, EBREAK, MRET
<1> QED
  BY <1>1, <1>2, <1>3

(* So are the fields of every word.                                        *)
LEMMA FieldsReadable ==
  ASSUME NEW w \in SUBSET (0 .. 31)
  PROVE  Readable(w, Fields(w))
  BY ThreeBits, BareWords DEF Readable, Fields

(* The immediate of an instruction that is not a branch.                   *)
LEMMA PlainImmediate ==
  ASSUME NEW w \in SUBSET (0 .. 31)
  PROVE  /\ SignBits(w, 12) \cup Field(w, 31, 20) = ExtendedFrom(Shifted(w, 20) \cap 0 .. 11, 11)
         /\ SignBits(w, 12) \cup Field(w, 31, 20) = sign_extend(Field(w, 31, 20), 12)
<1> DEFINE F == Field(w, 31, 20)
<1>1. Shifted(w, 20) \cap 0 .. 11 = F
  BY DEF Shifted, Field
<1>2. 11 \in F <=> 31 \in w
  BY DEF Field
<1> HIDE DEF F
<1>3. SignBits(w, 12) \cup F = ExtendedFrom(F, 11)
  BY <1>2 DEF SignBits, ExtendedFrom
<1> QED
  BY <1>1, <1>3 DEF F, sign_extend

(* The offset of a branch.                                                 *)
LEMMA BranchOffset ==
  ASSUME NEW w \in SUBSET (0 .. 31), NEW i, i.opcode = \h63
  PROVE  /\ rtl_immediate(w, i) = branch_immediate(w)
         /\ rtl_immediate(w, i)
              = sign_extend((IF 31 \in w THEN {12} ELSE {}) \cup (IF 7 \in w THEN {11} ELSE {})
                              \cup Shifted(Field(w, 30, 25), -5) \cup Shifted(Field(w, 11, 8), -1), 13)
<1> DEFINE High == {b - 20 : b \in w \cap 25 .. 30}
           Below == {b - 7 : b \in w \cap 8 .. 11}
           Seven == IF 7 \in w THEN {11} ELSE {}
           Top == IF 31 \in w THEN {12} ELSE {}
           Rest == Seven \cup High \cup Below
<1>1. rtl_immediate(w, i) = SignBits(w, 12) \cup Rest
  BY DEF rtl_immediate
<1>2. /\ Shifted(w, 19) \cap {12} = Top /\ Shifted(w, 20) \cap 5 .. 10 = High
      /\ Shifted(w, 7) \cap 1 .. 4 = Below /\ Shifted(w, -4) \cap {11} = Seven
  BY DEF Shifted
<1>3. Shifted(Field(w, 30, 25), -5) = High /\ Shifted(Field(w, 11, 8), -1) = Below
  <2>1. Shifted(Field(w, 30, 25), -5) = High
    <3> DEFINE F == Field(w, 30, 25)
    <3>1. \A c : c \in F <=> \E b \in w \cap 25 .. 30 : c = b - 25
      BY DEF Field
    <3> HIDE DEF F
    <3>2. \A y : y \in Shifted(F, -5) <=> \E c \in F : y = c - (-5)
      BY DEF Shifted
    <3>3. \A b \in w : (b - 25) - (-5) = b - 20
      OBVIOUS
    <3>4. \A y : y \in Shifted(F, -5) <=> y \in High
      BY <3>1, <3>2, <3>3
    <3> QED
      BY <3>4, Zenon DEF F, Shifted, High
  <2>2. Shifted(Field(w, 11, 8), -1) = Below
    <3> DEFINE F == Field(w, 11, 8)
    <3>1. \A c : c \in F <=> \E b \in w \cap 8 .. 11 : c = b - 8
      BY DEF Field
    <3> HIDE DEF F
    <3>2. \A y : y \in Shifted(F, -1) <=> \E c \in F : y = c - (-1)
      BY DEF Shifted
    <3>3. \A b \in w : (b - 8) - (-1) = b - 7
      OBVIOUS
    <3>4. \A y : y \in Shifted(F, -1) <=> y \in Below
      BY <3>1, <3>2, <3>3
    <3> QED
      BY <3>4, Zenon DEF F, Shifted, Below
  <2> QED
    BY <2>1, <2>2
<1>4. 12 \in Top \cup Rest <=> 31 \in w
  OBVIOUS
<1>5. /\ Top \cup High \cup Below \cup Seven = Top \cup Rest
      /\ Top \cup Seven \cup High \cup Below = Top \cup Rest
  OBVIOUS
<1>6. 31 \in w => Top = {12}
  OBVIOUS
<1>7. 31 \notin w => Top = {}
  OBVIOUS
<1> HIDE DEF High, Below, Seven, Top, Rest
<1>8. ExtendedFrom(Top \cup Rest, 12) = SignBits(w, 12) \cup Rest
  <2>1. CASE 31 \in w
    <3>1. {12} \cup (12 .. 31) = 12 .. 31
      OBVIOUS
    <3> QED
      BY <2>1, <3>1, <1>4, <1>6 DEF ExtendedFrom, SignBits
  <2>2. CASE 31 \notin w
    BY <2>2, <1>4, <1>7 DEF ExtendedFrom, SignBits
  <2> QED
    BY <2>1, <2>2
<1>9. branch_immediate(w) = ExtendedFrom(Top \cup Rest, 12)
  BY <1>2, <1>5 DEF branch_immediate
<1> QED
  BY <1>1, <1>3, <1>5, <1>8, <1>9 DEF sign_extend, Top, Seven

(* The operations the tables name.                                         *)
LEMMA Tables ==
  ASSUME NEW f3 \in 0 .. 7
  PROVE  /\ IntegerTable[f3 + 1] \in IntegerOps \ {"SUB", "SRA"}
         /\ MulDivTable[f3 + 1] \in MulOps \cup DivOps
         /\ IF f3 \in {2, 3} THEN BranchTable[f3 + 1] = "reserved" ELSE BranchTable[f3 + 1] \in BranchOps
         /\ IF f3 \in {0, 4} THEN CsrTable[f3 + 1] = "reserved" ELSE CsrTable[f3 + 1] \in CsrOps
         /\ CsrTable[f3 + 1] \in {"CSRRW", "CSRRWI"} <=> f3 \in {1, 5}
<1>1. f3 = 0 \/ f3 = 1 \/ f3 = 2 \/ f3 = 3 \/ f3 = 4 \/ f3 = 5 \/ f3 = 6 \/ f3 = 7
  OBVIOUS
<1> QED
  BY <1>1 DEF IntegerTable, MulDivTable, BranchTable, CsrTable, IntegerOps, MulOps, DivOps, BranchOps, CsrOps

(* A reading of the SystemC CPU, and with it whether the word is legal.    *)
Reading(op, rs1, rs2, rd, immediate, immediate_b, terminal, serial, code, cause) ==
  [op |-> op, rs1 |-> rs1, rs2 |-> rs2, rd |-> rd, immediate |-> immediate,
   immediate_b |-> immediate_b, terminal |-> terminal, serial |-> serial, fault |-> code,
   trap_cause |-> cause]
ReadAs(w, i, g, d) == by_opcode(w, i, first_reading(w, i)) = [legal |-> g, d |-> d]

(* The truth values as fields of a reading.                                *)
Truths(yes, no) == yes = TRUE /\ no = FALSE

(* What the SystemC CPU reads at first.                                    *)
LEMMA FirstReading ==
  ASSUME NEW w, NEW i, NEW yes, NEW no, Truths(yes, no)
  PROVE  first_reading(w, i)
           = Reading("ADD", i.rs1, i.rs2, i.rd, first_reading(w, i).immediate, no, no, no,
                     FAULT_NONE, 0)
<1> DEFINE imm == ExtendedFrom(Shifted(w, 20) \cap 0 .. 11, 11)
<1>1. first_reading(w, i)
        = Reading("ADD", i.rs1, i.rs2, i.rd, imm, no, no, no, FAULT_NONE, 0)
  BY Zenon DEF first_reading, Reading, Truths
<1> HIDE DEF imm
<1>2. first_reading(w, i).immediate = imm
  BY <1>1 DEF Reading
<1> QED
  BY <1>1, <1>2

(* A word that the branch of its opcode finds not legal.                   *)
LEMMA Refused ==
  ASSUME NEW w, NEW i, ~rtl_legal(w, i), NEW g, ~g, NEW ib, ib = (i.opcode = \h13),
         NEW op, NEW rs1, NEW rs2, NEW rd, NEW terminal, NEW serial, NEW code, NEW cause,
         ReadAs(w, i, g, Reading(op, rs1, rs2, rd, rtl_immediate(w, i), ib,
                                 terminal, serial, code, cause))
  PROVE  SameDecoding(w, i)
<1> DEFINE d == Reading(op, rs1, rs2, rd, rtl_immediate(w, i), ib, terminal, serial, code, cause)
<1>1. systemc_decode(w, i) = overruled([legal |-> g, d |-> d])
  BY DEF systemc_decode, ReadAs
<1>2. systemc_decode(w, i) =
        [d EXCEPT !.op = "ADD", !.rs1 = 0, !.rs2 = 0, !.rd = 0, !.terminal = TRUE,
                  !.serial = FALSE, !.fault = FAULT_ILLEGAL, !.trap_cause = 2]
  <2> HIDE DEF d
  <2> QED
    BY <1>1 DEF overruled
<1>3. systemc_decode(w, i) =
        [op |-> "ADD", rs1 |-> 0, rs2 |-> 0, rd |-> 0, immediate |-> rtl_immediate(w, i),
         immediate_b |-> ib, terminal |-> TRUE, serial |-> FALSE, fault |-> FAULT_ILLEGAL,
         trap_cause |-> 2]
  BY <1>2 DEF Reading
<1>4. rtl_decode(w, i) =
        [op |-> "ADD", rs1 |-> 0, rs2 |-> 0, rd |-> 0, immediate |-> rtl_immediate(w, i),
         immediate_b |-> ib, terminal |-> TRUE, serial |-> FALSE, fault |-> FAULT_ILLEGAL,
         trap_cause |-> 2]
  BY DEF rtl_decode, CAUSE_ILLEGAL
<1> QED
  BY <1>3, <1>4 DEF SameDecoding

(* A word that it finds legal is read as it says.                          *)
LEMMA Accepted ==
  ASSUME NEW w, NEW i, NEW g, g, NEW d, ReadAs(w, i, g, d), rtl_decode(w, i) = d
  PROVE  SameDecoding(w, i)
<1>1. systemc_decode(w, i) = overruled([legal |-> g, d |-> d])
  BY DEF systemc_decode, ReadAs
<1> QED
  BY <1>1 DEF overruled, SameDecoding

(* Fields of a reading that are corrected together.                        *)
WithImmediate(d, v0, v1, v2) ==
  [d EXCEPT !.immediate_b = v0, !.rs2 = v1, !.op = v2]
WithBranch(d, v0, v1, v2) ==
  [d EXCEPT !.rd = v0, !.op = v1, !.immediate = v2]
WithCall(d, v0, v1, v2, v3, v4, v5) ==
  [d EXCEPT !.rd = v0, !.rs1 = v1, !.rs2 = v2, !.terminal = v3, !.fault = v4, !.trap_cause = v5]
WithMret(d, v0, v1, v2, v3) ==
  [d EXCEPT !.rd = v0, !.rs1 = v1, !.rs2 = v2, !.serial = v3]
WithCsr(d, v0, v1) ==
  [d EXCEPT !.serial = v0, !.rs2 = v1]

(* Correcting fields of a reading, one after the other, changes these and  *)
(* no others: an immediate operation,                                      *)
LEMMA ChangeImmediate ==
  ASSUME NEW op, NEW rs1, NEW rs2, NEW rd, NEW imm, NEW ib, NEW t, NEW s, NEW f, NEW c,
         NEW v0, NEW v1, NEW v2
  PROVE  WithImmediate(Reading(op, rs1, rs2, rd, imm, ib, t, s, f, c), v0, v1, v2)
           = Reading(v2, rs1, v1, rd, imm, v0, t, s, f, c)
<1> DEFINE d0 == Reading(op, rs1, rs2, rd, imm, ib, t, s, f, c)
           d1 == Reading(op, rs1, rs2, rd, imm, v0, t, s, f, c)
           d2 == Reading(op, rs1, v1, rd, imm, v0, t, s, f, c)
           d3 == Reading(v2, rs1, v1, rd, imm, v0, t, s, f, c)
<1>1. [d0 EXCEPT !.immediate_b = v0] = d1
  BY DEF Reading
<1>2. [d1 EXCEPT !.rs2 = v1] = d2
  BY DEF Reading
<1>3. [d2 EXCEPT !.op = v2] = d3
  BY DEF Reading
<1> HIDE DEF d0, d1, d2, d3
<1>4. [[[d0 EXCEPT !.immediate_b = v0] EXCEPT !.rs2 = v1] EXCEPT !.op = v2]
        = [d0 EXCEPT !.immediate_b = v0, !.rs2 = v1, !.op = v2]
  OBVIOUS
<1>5. [[[d0 EXCEPT !.immediate_b = v0] EXCEPT !.rs2 = v1] EXCEPT !.op = v2] = d3
  BY <1>1, <1>2, <1>3, Zenon
<1> QED
  BY <1>4, <1>5 DEF d0, d3, WithImmediate

(* a branch,                                                               *)
LEMMA ChangeBranch ==
  ASSUME NEW op, NEW rs1, NEW rs2, NEW rd, NEW imm, NEW ib, NEW t, NEW s, NEW f, NEW c,
         NEW v0, NEW v1, NEW v2
  PROVE  WithBranch(Reading(op, rs1, rs2, rd, imm, ib, t, s, f, c), v0, v1, v2)
           = Reading(v1, rs1, rs2, v0, v2, ib, t, s, f, c)
<1> DEFINE d0 == Reading(op, rs1, rs2, rd, imm, ib, t, s, f, c)
           d1 == Reading(op, rs1, rs2, v0, imm, ib, t, s, f, c)
           d2 == Reading(v1, rs1, rs2, v0, imm, ib, t, s, f, c)
           d3 == Reading(v1, rs1, rs2, v0, v2, ib, t, s, f, c)
<1>1. [d0 EXCEPT !.rd = v0] = d1
  BY DEF Reading
<1>2. [d1 EXCEPT !.op = v1] = d2
  BY DEF Reading
<1>3. [d2 EXCEPT !.immediate = v2] = d3
  BY DEF Reading
<1> HIDE DEF d0, d1, d2, d3
<1>4. [[[d0 EXCEPT !.rd = v0] EXCEPT !.op = v1] EXCEPT !.immediate = v2]
        = [d0 EXCEPT !.rd = v0, !.op = v1, !.immediate = v2]
  OBVIOUS
<1>5. [[[d0 EXCEPT !.rd = v0] EXCEPT !.op = v1] EXCEPT !.immediate = v2] = d3
  BY <1>1, <1>2, <1>3, Zenon
<1> QED
  BY <1>4, <1>5 DEF d0, d3, WithBranch

(* ECALL and EBREAK,                                                       *)
LEMMA ChangeCall ==
  ASSUME NEW op, NEW rs1, NEW rs2, NEW rd, NEW imm, NEW ib, NEW t, NEW s, NEW f, NEW c,
         NEW v0, NEW v1, NEW v2, NEW v3, NEW v4, NEW v5
  PROVE  WithCall(Reading(op, rs1, rs2, rd, imm, ib, t, s, f, c), v0, v1, v2, v3, v4, v5)
           = Reading(op, v1, v2, v0, imm, ib, v3, s, v4, v5)
<1> DEFINE d0 == Reading(op, rs1, rs2, rd, imm, ib, t, s, f, c)
           d1 == Reading(op, rs1, rs2, v0, imm, ib, t, s, f, c)
           d2 == Reading(op, v1, rs2, v0, imm, ib, t, s, f, c)
           d3 == Reading(op, v1, v2, v0, imm, ib, t, s, f, c)
           d4 == Reading(op, v1, v2, v0, imm, ib, v3, s, f, c)
           d5 == Reading(op, v1, v2, v0, imm, ib, v3, s, v4, c)
           d6 == Reading(op, v1, v2, v0, imm, ib, v3, s, v4, v5)
<1>1. [d0 EXCEPT !.rd = v0] = d1
  BY DEF Reading
<1>2. [d1 EXCEPT !.rs1 = v1] = d2
  BY DEF Reading
<1>3. [d2 EXCEPT !.rs2 = v2] = d3
  BY DEF Reading
<1>4. [d3 EXCEPT !.terminal = v3] = d4
  BY DEF Reading
<1>5. [d4 EXCEPT !.fault = v4] = d5
  BY DEF Reading
<1>6. [d5 EXCEPT !.trap_cause = v5] = d6
  BY DEF Reading
<1> HIDE DEF d0, d1, d2, d3, d4, d5, d6
<1>7. [[[[[[d0 EXCEPT !.rd = v0] EXCEPT !.rs1 = v1] EXCEPT !.rs2 = v2] EXCEPT !.terminal = v3] EXCEPT !.fault = v4] EXCEPT !.trap_cause = v5]
        = [d0 EXCEPT !.rd = v0, !.rs1 = v1, !.rs2 = v2, !.terminal = v3, !.fault = v4, !.trap_cause = v5]
  OBVIOUS
<1>8. [[[[[[d0 EXCEPT !.rd = v0] EXCEPT !.rs1 = v1] EXCEPT !.rs2 = v2] EXCEPT !.terminal = v3] EXCEPT !.fault = v4] EXCEPT !.trap_cause = v5] = d6
  BY <1>1, <1>2, <1>3, <1>4, <1>5, <1>6, Zenon
<1> QED
  BY <1>7, <1>8 DEF d0, d6, WithCall

(* MRET,                                                                   *)
LEMMA ChangeMret ==
  ASSUME NEW op, NEW rs1, NEW rs2, NEW rd, NEW imm, NEW ib, NEW t, NEW s, NEW f, NEW c,
         NEW v0, NEW v1, NEW v2, NEW v3
  PROVE  WithMret(Reading(op, rs1, rs2, rd, imm, ib, t, s, f, c), v0, v1, v2, v3)
           = Reading(op, v1, v2, v0, imm, ib, t, v3, f, c)
<1> DEFINE d0 == Reading(op, rs1, rs2, rd, imm, ib, t, s, f, c)
           d1 == Reading(op, rs1, rs2, v0, imm, ib, t, s, f, c)
           d2 == Reading(op, v1, rs2, v0, imm, ib, t, s, f, c)
           d3 == Reading(op, v1, v2, v0, imm, ib, t, s, f, c)
           d4 == Reading(op, v1, v2, v0, imm, ib, t, v3, f, c)
<1>1. [d0 EXCEPT !.rd = v0] = d1
  BY DEF Reading
<1>2. [d1 EXCEPT !.rs1 = v1] = d2
  BY DEF Reading
<1>3. [d2 EXCEPT !.rs2 = v2] = d3
  BY DEF Reading
<1>4. [d3 EXCEPT !.serial = v3] = d4
  BY DEF Reading
<1> HIDE DEF d0, d1, d2, d3, d4
<1>5. [[[[d0 EXCEPT !.rd = v0] EXCEPT !.rs1 = v1] EXCEPT !.rs2 = v2] EXCEPT !.serial = v3]
        = [d0 EXCEPT !.rd = v0, !.rs1 = v1, !.rs2 = v2, !.serial = v3]
  OBVIOUS
<1>6. [[[[d0 EXCEPT !.rd = v0] EXCEPT !.rs1 = v1] EXCEPT !.rs2 = v2] EXCEPT !.serial = v3] = d4
  BY <1>1, <1>2, <1>3, <1>4, Zenon
<1> QED
  BY <1>5, <1>6 DEF d0, d4, WithMret

(* a CSR instruction.                                                      *)
LEMMA ChangeCsr ==
  ASSUME NEW op, NEW rs1, NEW rs2, NEW rd, NEW imm, NEW ib, NEW t, NEW s, NEW f, NEW c,
         NEW v0, NEW v1
  PROVE  WithCsr(Reading(op, rs1, rs2, rd, imm, ib, t, s, f, c), v0, v1)
           = Reading(op, rs1, v1, rd, imm, ib, t, v0, f, c)
<1> DEFINE d0 == Reading(op, rs1, rs2, rd, imm, ib, t, s, f, c)
           d1 == Reading(op, rs1, rs2, rd, imm, ib, t, v0, f, c)
           d2 == Reading(op, rs1, v1, rd, imm, ib, t, v0, f, c)
<1>1. [d0 EXCEPT !.serial = v0] = d1
  BY DEF Reading
<1>2. [d1 EXCEPT !.rs2 = v1] = d2
  BY DEF Reading
<1> HIDE DEF d0, d1, d2
<1>3. [[d0 EXCEPT !.serial = v0] EXCEPT !.rs2 = v1]
        = [d0 EXCEPT !.serial = v0, !.rs2 = v1]
  OBVIOUS
<1>4. [[d0 EXCEPT !.serial = v0] EXCEPT !.rs2 = v1] = d2
  BY <1>1, <1>2, Zenon
<1> QED
  BY <1>3, <1>4 DEF d0, d2, WithCsr

(* The decoder of the RTL, on what it finds legal.                         *)
PlainFields(i, rs2, rd, ib) ==
  /\ i.opcode # \h73 /\ ib = (i.opcode = \h13)
  /\ rs2 = IF i.opcode = \h13 THEN 0 ELSE i.rs2
  /\ rd = IF i.opcode = \h63 THEN 0 ELSE i.rd

(* Of an instruction outside SYSTEM it keeps the fields it needs.          *)
LEMMA RtlPlain ==
  ASSUME NEW w, NEW i, rtl_legal(w, i), Readable(w, i), NEW yes, NEW no, Truths(yes, no),
         NEW rs2, NEW rd, NEW ib, PlainFields(i, rs2, rd, ib)
  PROVE  rtl_decode(w, i)
           = Reading(rtl_op(i), i.rs1, rs2, rd, rtl_immediate(w, i), ib, no, no, FAULT_NONE, 0)
<1>1. w \notin {ECALL, EBREAK, MRET}
  BY DEF Readable, PlainFields
<1> DEFINE d == rtl_decode(w, i)
<1>2. /\ d.op = rtl_op(i) /\ d.rs1 = i.rs1 /\ d.rs2 = rs2 /\ d.rd = rd
      /\ d.immediate = rtl_immediate(w, i) /\ d.immediate_b = ib
  BY DEF rtl_decode, PlainFields
<1>3. d.terminal = no /\ d.serial = no /\ d.fault = FAULT_NONE /\ d.trap_cause = 0
  BY <1>1 DEF rtl_decode, Truths, PlainFields
<1>4. d = Reading(d.op, d.rs1, d.rs2, d.rd, d.immediate, d.immediate_b, d.terminal, d.serial,
                  d.fault, d.trap_cause)
  BY DEF rtl_decode, Reading
<1> HIDE DEF d
<1>5. d = Reading(rtl_op(i), i.rs1, rs2, rd, rtl_immediate(w, i), ib, no, no, FAULT_NONE, 0)
  BY <1>2, <1>3, <1>4, Zenon
<1> QED
  BY <1>5 DEF d

(* The SystemC CPU reads as the RTL does, opcode by opcode.  OP-IMM: an    *)
(* immediate in place of the second register.                              *)
LEMMA ReadImmediate ==
  ASSUME NEW w \in SUBSET (0 .. 31), NEW i, Readable(w, i), i.opcode = \h13,
         NEW yes, NEW no, Truths(yes, no)
  PROVE  SameDecoding(w, i)
<1> DEFINE op == IF i.f3 = 5 /\ i.f7 = 32 THEN "SRA" ELSE IntegerTable[i.f3 + 1]
           imm == rtl_immediate(w, i)
           d == Reading(op, i.rs1, 0, i.rd, imm, yes, no, no, FAULT_NONE, 0)
           g == (i.f3 = 1 => i.f7 = 0) /\ (i.f3 = 5 => i.f7 \in {0, 32})
<1>1. imm = first_reading(w, i).immediate
  BY PlainImmediate DEF rtl_immediate, first_reading
<1>2. by_opcode(w, i, first_reading(w, i)) =
        [legal |-> g, d |-> WithImmediate(first_reading(w, i), TRUE, 0, op)]
  BY DEF by_opcode, WithImmediate
<1>3. first_reading(w, i) = Reading("ADD", i.rs1, i.rs2, i.rd, imm, no, no, no, FAULT_NONE, 0)
  BY <1>1, FirstReading
<1>5. rtl_legal(w, i) = g
  BY DEF rtl_legal
<1>6. rtl_op(i) = op
  BY DEF rtl_op
<1> HIDE DEF op, g, imm
<1>4. ReadAs(w, i, g, d)
  <2>1. WithImmediate(first_reading(w, i), yes, 0, op) = d
    BY <1>3, ChangeImmediate
  <2>2. WithImmediate(first_reading(w, i), TRUE, 0, op) = d
    BY <2>1, Zenon DEF Truths
  <2> QED
    BY <1>2, <2>2, Zenon DEF ReadAs
<1>7. yes = (i.opcode = \h13)
  BY DEF Truths
<1>8. CASE g
  <2>1. rtl_legal(w, i)
    BY <1>5, <1>8
  <2>2. PlainFields(i, 0, i.rd, yes)
    BY <1>7 DEF PlainFields
  <2>3. rtl_decode(w, i)
          = Reading(rtl_op(i), i.rs1, 0, i.rd, rtl_immediate(w, i), yes, no, no, FAULT_NONE, 0)
    BY <2>1, <2>2, RtlPlain
  <2>4. rtl_decode(w, i) = d
    BY <2>3, <1>6 DEF imm
  <2> QED
    BY <1>4, <2>4, <1>8, Accepted
<1>9. CASE ~g
  BY <1>4, <1>5, <1>7, <1>9, Refused DEF imm
<1> QED
  BY <1>8, <1>9

(* Correcting the operation alone.                                         *)
WithOp(d, a) == [d EXCEPT !.op = a]

(* It leaves the other fields alone.                                       *)
LEMMA ChangeOp ==
  ASSUME NEW op, NEW rs1, NEW rs2, NEW rd, NEW imm, NEW ib, NEW t, NEW s, NEW f, NEW c, NEW a
  PROVE  WithOp(Reading(op, rs1, rs2, rd, imm, ib, t, s, f, c), a)
           = Reading(a, rs1, rs2, rd, imm, ib, t, s, f, c)
  BY DEF Reading, WithOp

(* The operand flag of an instruction that is not an immediate one.        *)
LEMMA NotImmediate ==
  ASSUME NEW i, i.opcode # \h13, NEW yes, NEW no, Truths(yes, no)
  PROVE  no = (i.opcode = \h13)
<1>1. (i.opcode = \h13) = FALSE
  OBVIOUS
<1> QED
  BY <1>1, Zenon DEF Truths

(* OP: multiply and divide, subtract and arithmetic shift, or the table.   *)
LEMMA ReadRegister ==
  ASSUME NEW w \in SUBSET (0 .. 31), NEW i, Readable(w, i), i.opcode = \h33,
         NEW yes, NEW no, Truths(yes, no)
  PROVE  SameDecoding(w, i)
<1> DEFINE shift == i.f7 = 32 /\ i.f3 \in {0, 5}
           op == IF i.f7 = 1 THEN MulDivTable[i.f3 + 1]
                 ELSE IF shift THEN IF i.f3 = 0 THEN "SUB" ELSE "SRA"
                 ELSE IntegerTable[i.f3 + 1]
           imm == rtl_immediate(w, i)
           d == Reading(op, i.rs1, i.rs2, i.rd, imm, no, no, no, FAULT_NONE, 0)
           g == i.f7 \in {0, 1} \/ shift
           fr == first_reading(w, i)
<1>1. imm = fr.immediate
  BY PlainImmediate DEF rtl_immediate, first_reading
<1>2. fr = Reading("ADD", i.rs1, i.rs2, i.rd, imm, no, no, no, FAULT_NONE, 0)
  BY <1>1, FirstReading
<1>3. by_opcode(w, i, fr) = [legal |-> g, d |-> WithOp(fr, op)]
  <2> HIDE DEF fr
  <2>1. CASE i.f7 = 1
    <3>1. by_opcode(w, i, fr) = [legal |-> TRUE, d |-> WithOp(fr, MulDivTable[i.f3 + 1])]
      BY <2>1 DEF by_opcode, WithOp
    <3>2. g = TRUE /\ op = MulDivTable[i.f3 + 1]
      BY <2>1
    <3> QED
      BY <3>1, <3>2, Zenon
  <2>2. CASE shift
    <3>1. by_opcode(w, i, fr) = [legal |-> TRUE, d |-> WithOp(fr, IF i.f3 = 0 THEN "SUB" ELSE "SRA")]
      BY <2>2 DEF by_opcode, WithOp
    <3>2. g = TRUE /\ op = IF i.f3 = 0 THEN "SUB" ELSE "SRA"
      BY <2>2
    <3> QED
      BY <3>1, <3>2, Zenon
  <2>3. CASE i.f7 # 1 /\ ~shift
    <3>1. by_opcode(w, i, fr) = [legal |-> i.f7 = 0, d |-> WithOp(fr, IntegerTable[i.f3 + 1])]
      BY <2>3 DEF by_opcode, WithOp
    <3>2. g = (i.f7 = 0) /\ op = IntegerTable[i.f3 + 1]
      BY <2>3
    <3> QED
      BY <3>1, <3>2, Zenon
  <2> QED
    BY <2>1, <2>2, <2>3
<1>4. rtl_legal(w, i) = g
  BY DEF rtl_legal
<1>5. g => rtl_op(i) = op
  BY DEF rtl_op
<1> HIDE DEF op, g, imm, fr
<1>6. WithOp(fr, op) = d
  BY <1>2, ChangeOp
<1>7. ReadAs(w, i, g, d)
  BY <1>3, <1>6, Zenon DEF ReadAs, fr
<1>8. PlainFields(i, i.rs2, i.rd, no)
  <2>1. no = (i.opcode = \h13)
    BY NotImmediate
  <2> QED
    BY <2>1 DEF PlainFields
<1>9. CASE g
  <2>1. rtl_legal(w, i)
    BY <1>4, <1>9
  <2>2. rtl_decode(w, i)
          = Reading(rtl_op(i), i.rs1, i.rs2, i.rd, rtl_immediate(w, i), no, no, no, FAULT_NONE, 0)
    BY <2>1, <1>8, RtlPlain
  <2>3. rtl_decode(w, i) = d
    BY <1>5, <1>9, <2>2 DEF imm
  <2> QED
    BY <1>7, <1>9, <2>3, Accepted
<1>10. CASE ~g
  <2>1. no = (i.opcode = \h13)
    BY NotImmediate
  <2> QED
    BY <1>4, <1>7, <1>10, <2>1, Refused DEF imm
<1> QED
  BY <1>9, <1>10

(* BRANCH: no result, and the offset as the immediate.                     *)
LEMMA ReadBranch ==
  ASSUME NEW w \in SUBSET (0 .. 31), NEW i, Readable(w, i), i.opcode = \h63,
         NEW yes, NEW no, Truths(yes, no)
  PROVE  SameDecoding(w, i)
<1> DEFINE op == BranchTable[i.f3 + 1]
           imm == rtl_immediate(w, i)
           d == Reading(op, i.rs1, i.rs2, 0, imm, no, no, no, FAULT_NONE, 0)
           g == op # "reserved"
           fr == first_reading(w, i)
<1>1. branch_immediate(w) = imm
  BY BranchOffset
<1>2. fr = Reading("ADD", i.rs1, i.rs2, i.rd, fr.immediate, no, no, no, FAULT_NONE, 0)
  BY FirstReading
<1>3. by_opcode(w, i, fr) = [legal |-> g, d |-> WithBranch(fr, 0, op, branch_immediate(w))]
  <2> HIDE DEF fr
  <2> QED
    BY DEF by_opcode, WithBranch
<1>4. rtl_legal(w, i) = g
  <2>1. rtl_legal(w, i) = (i.f3 \notin {2, 3})
    BY DEF rtl_legal
  <2>2. g = (i.f3 \notin {2, 3})
    <3>1. i.f3 \in 0 .. 7
      BY DEF Readable
    <3> HIDE DEF op
    <3>2. IF i.f3 \in {2, 3} THEN op = "reserved" ELSE op \in BranchOps
      BY <3>1, Tables DEF op
    <3>3. "reserved" \notin BranchOps
      BY DEF BranchOps
    <3> QED
      BY <3>2, <3>3
  <2> QED
    BY <2>1, <2>2
<1>5. rtl_op(i) = op
  BY DEF rtl_op
<1> HIDE DEF op, g, imm, fr
<1>6. WithBranch(fr, 0, op, branch_immediate(w)) = d
  BY <1>1, <1>2, ChangeBranch
<1>7. ReadAs(w, i, g, d)
  BY <1>3, <1>6, Zenon DEF ReadAs, fr
<1>8. PlainFields(i, i.rs2, 0, no)
  <2>1. no = (i.opcode = \h13)
    BY NotImmediate
  <2> QED
    BY <2>1 DEF PlainFields
<1>9. CASE g
  <2>1. rtl_legal(w, i)
    BY <1>4, <1>9
  <2>2. rtl_decode(w, i)
          = Reading(rtl_op(i), i.rs1, i.rs2, 0, rtl_immediate(w, i), no, no, no, FAULT_NONE, 0)
    BY <2>1, <1>8, RtlPlain
  <2>3. rtl_decode(w, i) = d
    BY <1>5, <1>9, <2>2 DEF imm
  <2> QED
    BY <1>7, <1>9, <2>3, Accepted
<1>10. CASE ~g
  <2>1. no = (i.opcode = \h13)
    BY NotImmediate
  <2> QED
    BY <1>4, <1>7, <1>10, <2>1, Refused DEF imm
<1> QED
  BY <1>9, <1>10

(* What the RTL makes of the system instructions.                          *)
LEMMA RtlSystem ==
  ASSUME NEW w, NEW i, rtl_legal(w, i), i.opcode = \h73, NEW yes, NEW no, Truths(yes, no)
  PROVE  \E rs1, rd, t, s, f, c :
           /\ rtl_decode(w, i) = Reading("ADD", rs1, 0, rd, rtl_immediate(w, i), no, t, s, f, c)
           /\ i.f3 = 0 => rs1 = 0 /\ rd = 0
           /\ i.f3 # 0 => rs1 = i.rs1 /\ rd = i.rd
           /\ w \in {ECALL, EBREAK} =>
                t = yes /\ s = no /\ f = FAULT_ILLEGAL /\ c = IF w = ECALL THEN 11 ELSE 3
           /\ w \notin {ECALL, EBREAK} => t = no /\ s = yes /\ f = FAULT_NONE /\ c = 0
<1> DEFINE d == rtl_decode(w, i)
<1>1. d.op = "ADD" /\ d.rs2 = 0 /\ d.immediate = rtl_immediate(w, i) /\ d.immediate_b = FALSE
  <2>1. rtl_op(i) = "ADD"
    BY DEF rtl_op
  <2>2. (i.opcode = \h13) = FALSE
    OBVIOUS
  <2>3. d.immediate_b = (i.opcode = \h13)
    BY DEF rtl_decode
  <2>4. d.op = "ADD"
    BY <2>1 DEF rtl_decode
  <2>5. d.rs2 = 0 /\ d.immediate = rtl_immediate(w, i)
    BY DEF rtl_decode
  <2> HIDE DEF d
  <2> QED
    BY <2>2, <2>3, <2>4, <2>5
<1>2. i.f3 = 0 => d.rs1 = 0 /\ d.rd = 0
  BY DEF rtl_decode
<1>3. i.f3 # 0 => d.rs1 = i.rs1 /\ d.rd = i.rd
  BY DEF rtl_decode
<1>4. w \in {ECALL, EBREAK} =>
        /\ d.terminal = yes /\ d.serial = no /\ d.fault = FAULT_ILLEGAL
        /\ d.trap_cause = IF w = ECALL THEN 11 ELSE 3
  BY DEF rtl_decode, CAUSE_ECALL_M, CAUSE_BREAKPOINT, Truths
<1>5. w \notin {ECALL, EBREAK} =>
        d.terminal = no /\ d.serial = yes /\ d.fault = FAULT_NONE /\ d.trap_cause = 0
  BY DEF rtl_decode, Truths
<1>6. d = Reading(d.op, d.rs1, d.rs2, d.rd, d.immediate, d.immediate_b, d.terminal, d.serial,
                  d.fault, d.trap_cause)
  BY DEF rtl_decode, Reading
<1> HIDE DEF d
<1>7. d = Reading("ADD", d.rs1, 0, d.rd, rtl_immediate(w, i), no, d.terminal, d.serial, d.fault, d.trap_cause)
  BY <1>1, <1>6, Zenon DEF Truths
<1>8. rtl_decode(w, i)
        = Reading("ADD", d.rs1, 0, d.rd, rtl_immediate(w, i), no, d.terminal, d.serial, d.fault, d.trap_cause)
  BY <1>7, Zenon DEF d
<1> QED
  BY <1>2, <1>3, <1>4, <1>5, <1>8

(* SYSTEM: calls, return and the CSR instructions.                         *)
LEMMA ReadSystem ==
  ASSUME NEW w \in SUBSET (0 .. 31), NEW i, Readable(w, i), i.opcode = \h73,
         NEW yes, NEW no, Truths(yes, no)
  PROVE  SameDecoding(w, i)
<1> DEFINE imm == rtl_immediate(w, i)
           fr == first_reading(w, i)
           cause == IF w = ECALL THEN 11 ELSE 3
<1>1. imm = fr.immediate
  BY PlainImmediate DEF rtl_immediate, first_reading
<1>2. fr = Reading("ADD", i.rs1, i.rs2, i.rd, imm, no, no, no, FAULT_NONE, 0)
  BY <1>1, FirstReading
<1>3. no = (i.opcode = \h13)
  BY NotImmediate
<1>4. ASSUME NEW g, g <=> rtl_legal(w, i), NEW op, NEW rs1, NEW rs2, NEW rd, NEW t, NEW s, NEW f, NEW c,
             ReadAs(w, i, g, Reading(op, rs1, rs2, rd, imm, no, t, s, f, c)),
             g => rtl_decode(w, i) = Reading(op, rs1, rs2, rd, imm, no, t, s, f, c)
      PROVE  SameDecoding(w, i)
  <2>1. CASE g
    BY <1>4, <2>1, Accepted
  <2>2. CASE ~g
    BY <1>3, <1>4, <2>2, Refused
  <2> QED
    BY <2>1, <2>2
<1> HIDE DEF imm, fr, cause
<1>5. CASE i.f3 = 0 /\ w \in {ECALL, EBREAK}
  <2> DEFINE d == Reading("ADD", 0, 0, 0, imm, no, yes, no, FAULT_ILLEGAL, cause)
  <2>1. by_opcode(w, i, fr) = [legal |-> ENABLE_TRAPS, d |-> WithCall(fr, 0, 0, 0, TRUE, FAULT_ILLEGAL, cause)]
    BY <1>5 DEF by_opcode, WithCall, cause
  <2>2. WithCall(fr, 0, 0, 0, yes, FAULT_ILLEGAL, cause) = d
    BY <1>2, ChangeCall
  <2>3. ReadAs(w, i, ENABLE_TRAPS, d)
    BY <2>1, <2>2, Zenon DEF ReadAs, Truths, fr
  <2>4. rtl_legal(w, i) = ENABLE_TRAPS
    BY <1>5, ConfigurationAssumption DEF rtl_legal
  <2>5. ENABLE_TRAPS => rtl_decode(w, i) = d
    <3> SUFFICES ASSUME ENABLE_TRAPS PROVE rtl_decode(w, i) = d
      OBVIOUS
    <3>1. rtl_legal(w, i)
      BY <2>4
    <3> QED
      BY <1>5, <3>1, RtlSystem DEF imm, cause
  <2> QED
    BY <1>4, <2>3, <2>4, <2>5
<1>6. CASE i.f3 = 0 /\ w \notin {ECALL, EBREAK}
  <2> DEFINE d == Reading("ADD", 0, 0, 0, imm, no, no, yes, FAULT_NONE, 0)
             g == ENABLE_TRAPS /\ w = MRET
  <2>1. by_opcode(w, i, fr) = [legal |-> g, d |-> WithMret(fr, 0, 0, 0, TRUE)]
    BY <1>6 DEF by_opcode, WithMret
  <2>2. WithMret(fr, 0, 0, 0, yes) = d
    BY <1>2, ChangeMret
  <2>3. ReadAs(w, i, g, d)
    BY <2>1, <2>2, Zenon DEF ReadAs, Truths, fr
  <2>4. rtl_legal(w, i) = g
    BY <1>6, ConfigurationAssumption DEF rtl_legal
  <2>5. g => rtl_decode(w, i) = d
    <3> SUFFICES ASSUME g PROVE rtl_decode(w, i) = d
      OBVIOUS
    <3>1. rtl_legal(w, i)
      BY <2>4
    <3> QED
      BY <1>6, <3>1, RtlSystem DEF imm
  <2> HIDE DEF g
  <2> QED
    BY <1>4, <2>3, <2>4, <2>5
<1>7. CASE i.f3 # 0
  <2> DEFINE d == Reading("ADD", i.rs1, 0, i.rd, imm, no, no, yes, FAULT_NONE, 0)
             g == /\ ENABLE_TRAPS /\ i.f3 # 4 /\ i.top \in CsrAt
                  /\ ~(i.top = \hf14 /\ (i.f3 \in {1, 5} \/ i.rs1 # 0))
  <2>1. by_opcode(w, i, fr) = [legal |-> g, d |-> WithCsr(fr, TRUE, 0)]
    BY <1>7 DEF by_opcode, WithCsr
  <2>2. WithCsr(fr, yes, 0) = d
    BY <1>2, ChangeCsr
  <2>3. ReadAs(w, i, g, d)
    <3> HIDE DEF g, d
    <3> QED
      BY <2>1, <2>2, Zenon DEF ReadAs, Truths, fr
  <2>4. rtl_legal(w, i) <=> g
    <3>1. rtl_legal(w, i) <=> ENABLE_TRAPS /\ rtl_csr_legal(i)
      BY <1>7, ConfigurationAssumption DEF rtl_legal
    <3>2. rtl_csr_legal(i) <=> /\ i.f3 # 4 /\ i.top \in CsrAt
                               /\ ~(i.top = \hf14 /\ (i.f3 \in {1, 5} \/ i.rs1 # 0))
      BY DEF rtl_csr_legal, rtl_csr_write
    <3> QED
      BY <3>1, <3>2
  <2>5. w \notin {ECALL, EBREAK}
    BY <1>7 DEF Readable
  <2>6. g => rtl_decode(w, i) = d
    <3> SUFFICES ASSUME g PROVE rtl_decode(w, i) = d
      OBVIOUS
    <3>1. rtl_legal(w, i)
      BY <2>4
    <3> QED
      BY <1>7, <2>5, <3>1, RtlSystem DEF imm
  <2> HIDE DEF g
  <2> QED
    BY <1>4, <2>3, <2>4, <2>6
<1> QED
  BY <1>5, <1>6, <1>7

(* Any other opcode is refused.                                            *)
LEMMA ReadOther ==
  ASSUME NEW w \in SUBSET (0 .. 31), NEW i, Readable(w, i), i.opcode \notin {\h13, \h33, \h63, \h73},
         NEW yes, NEW no, Truths(yes, no)
  PROVE  SameDecoding(w, i)
<1> DEFINE fr == first_reading(w, i)
           imm == rtl_immediate(w, i)
<1>1. imm = fr.immediate
  BY PlainImmediate DEF rtl_immediate, first_reading
<1>2. fr = Reading("ADD", i.rs1, i.rs2, i.rd, imm, no, no, no, FAULT_NONE, 0)
  BY <1>1, FirstReading
<1>3. no = (i.opcode = \h13)
  BY NotImmediate
<1>4. by_opcode(w, i, fr) = [legal |-> FALSE, d |-> fr]
  <2> HIDE DEF fr
  <2> QED
    BY DEF by_opcode
<1>5. ~rtl_legal(w, i)
  BY DEF rtl_legal
<1> HIDE DEF fr, imm
<1>6. ReadAs(w, i, no, Reading("ADD", i.rs1, i.rs2, i.rd, imm, no, no, no, FAULT_NONE, 0))
  BY <1>2, <1>4, Zenon DEF ReadAs, Truths, fr
<1>7. ~no
  BY DEF Truths
<1> QED
  BY <1>3, <1>5, <1>6, <1>7, Refused DEF imm

(* The decoder of the SystemC CPU is the one of the RTL.                   *)
LEMMA SystemcDecodes ==
  ASSUME NEW w \in SUBSET (0 .. 31), NEW i, Readable(w, i)
  PROVE  SameDecoding(w, i)
<1> DEFINE yes == TRUE
           no == FALSE
<1>1. Truths(yes, no)
  BY DEF Truths
<1> HIDE DEF yes, no
<1> QED
  BY <1>1, ReadImmediate, ReadRegister, ReadBranch, ReadSystem, ReadOther

(* What the names of a word say of its legality.                           *)
LEMMA NamesLegal ==
  ASSUME NEW w, NEW i, Readable(w, i)
  PROVE  legal(Instruction(w, i)) <=> rtl_legal(w, i)
<1> DEFINE n == Instruction(w, i)
<1>t. i.f3 \in 0 .. 7
  BY DEF Readable
<1>1. CASE i.opcode = \h13
  <2>1. n.opcode = "OP-IMM" /\ n.op = IF rtl_legal(w, i) THEN rtl_op(i) ELSE "reserved"
    BY <1>1 DEF Instruction, Category
  <2>2. rtl_op(i) \in {"SRA", IntegerTable[i.f3 + 1]}
    BY <1>1 DEF rtl_op
  <2>3. "reserved" \notin IntegerOps /\ "SRA" \in IntegerOps \ {"SUB"}
    BY DEF IntegerOps
  <2>4. rtl_op(i) \in IntegerOps \ {"SUB"}
    BY <1>t, <2>2, <2>3, Tables
  <2> HIDE DEF n
  <2>5. legal(n) <=> n.op \in IntegerOps \ {"SUB"}
    BY <2>1 DEF legal
  <2> QED
    BY <2>1, <2>3, <2>4, <2>5 DEF n
<1>2. CASE i.opcode = \h33
  <2>1. n.opcode = "OP" /\ n.op = IF rtl_legal(w, i) THEN rtl_op(i) ELSE "reserved"
    BY <1>2 DEF Instruction, Category
  <2>2. rtl_op(i) \in {"SUB", "SRA", IntegerTable[i.f3 + 1], MulDivTable[i.f3 + 1]}
    BY <1>2 DEF rtl_op
  <2>3. "reserved" \notin IntegerOps \cup MulOps \cup DivOps /\ {"SUB", "SRA"} \subseteq IntegerOps
    BY DEF IntegerOps, MulOps, DivOps
  <2>4. rtl_op(i) \in IntegerOps \cup MulOps \cup DivOps
    BY <1>t, <2>2, <2>3, Tables
  <2> HIDE DEF n
  <2>5. legal(n) <=> n.op \in IntegerOps \cup MulOps \cup DivOps
    BY <2>1 DEF legal
  <2> QED
    BY <2>1, <2>3, <2>4, <2>5 DEF n
<1>3. CASE i.opcode = \h63
  <2>1. n.opcode = "BRANCH" /\ n.op = IF rtl_legal(w, i) THEN rtl_op(i) ELSE "reserved"
    BY <1>3 DEF Instruction, Category
  <2>2. rtl_op(i) = BranchTable[i.f3 + 1]
    BY <1>3 DEF rtl_op
  <2>3. "reserved" \notin BranchOps
    BY DEF BranchOps
  <2>4. rtl_legal(w, i) <=> i.f3 \notin {2, 3}
    BY <1>3 DEF rtl_legal
  <2>5. i.f3 \notin {2, 3} => rtl_op(i) \in BranchOps
    BY <1>t, <2>2, Tables
  <2> HIDE DEF n
  <2>6. legal(n) <=> n.op \in BranchOps
    BY <2>1 DEF legal
  <2> QED
    BY <2>1, <2>3, <2>4, <2>5, <2>6 DEF n
<1>4. CASE i.opcode = \h73
  <2>1. n.opcode = "SYSTEM" /\ n.op = system_name(w, i)
    BY <1>4 DEF Instruction, Category
  <2>2. n.rs1 = i.rs1 /\ n.csr = IF i.top \in CsrAt THEN CsrAddress[i.top] ELSE "none"
    BY DEF Instruction
  <2>3. /\ n.csr \in KnownCsr <=> i.top \in CsrAt
        /\ n.csr = "mhartid" <=> i.top = \hf14
    BY <2>2 DEF CsrAddress, CsrAt, KnownCsr
  <2> HIDE DEF n
  <2>4. legal(n) <=> /\ ENABLE_TRAPS
                     /\ \/ n.op \in {"ECALL", "EBREAK", "MRET"}
                        \/ /\ n.op \in CsrOps /\ n.csr \in KnownCsr
                           /\ ~(n.csr = "mhartid" /\ csr_write(n))
    BY <2>1 DEF legal
  <2>5. CASE w \in {ECALL, EBREAK, MRET}
    <3>1. n.op \in {"ECALL", "EBREAK", "MRET"}
      BY <2>1, <2>5 DEF system_name
    <3>2. i.f3 = 0
      BY <2>5 DEF Readable
    <3> QED
      BY <1>4, <2>4, <2>5, <3>1, <3>2 DEF rtl_legal, n
  <2>6. CASE w \notin {ECALL, EBREAK, MRET}
    <3>1. n.op = CsrTable[i.f3 + 1]
      BY <2>1, <2>6 DEF system_name
    <3>2. /\ n.op \notin {"ECALL", "EBREAK", "MRET"}
          /\ n.op \in CsrOps <=> i.f3 \notin {0, 4}
          /\ n.op \in {"CSRRW", "CSRRWI"} <=> i.f3 \in {1, 5}
      <4>1. /\ CsrOps \cap {"ECALL", "EBREAK", "MRET", "reserved"} = {}
            /\ "reserved" \notin {"ECALL", "EBREAK", "MRET"}
        BY DEF CsrOps
      <4> QED
        BY <1>t, <3>1, <4>1, Tables
    <3>3. csr_write(n) <=> i.f3 \in {1, 5} \/ i.rs1 # 0
      BY <2>2, <3>2 DEF csr_write
    <3>4. legal(n) <=> /\ ENABLE_TRAPS /\ i.f3 \notin {0, 4} /\ i.top \in CsrAt
                       /\ ~(i.top = \hf14 /\ (i.f3 \in {1, 5} \/ i.rs1 # 0))
      BY <2>3, <2>4, <3>2, <3>3
    <3>5. rtl_csr_legal(i) <=> /\ i.f3 # 4 /\ i.top \in CsrAt
                               /\ ~(i.top = \hf14 /\ (i.f3 \in {1, 5} \/ i.rs1 # 0))
      BY DEF rtl_csr_legal, rtl_csr_write
    <3>6. rtl_legal(w, i) <=> ENABLE_TRAPS /\ i.f3 # 0 /\ rtl_csr_legal(i)
      BY <1>4, <2>6 DEF rtl_legal
    <3> QED
      BY <3>4, <3>5, <3>6 DEF n
  <2> QED
    BY <2>5, <2>6
<1>5. CASE i.opcode \notin {\h13, \h33, \h63, \h73}
  <2>1. n.opcode = "other"
    BY <1>5 DEF Instruction, Category
  <2>2. ~rtl_legal(w, i)
    BY <1>5 DEF rtl_legal
  <2> HIDE DEF n
  <2>3. ~legal(n)
    BY <2>1 DEF legal
  <2> QED
    BY <2>2, <2>3 DEF n
<1> QED
  BY <1>1, <1>2, <1>3, <1>4, <1>5

(* What the names of a legal word say of it.                               *)
LEMMA NamesOf ==
  ASSUME NEW w, NEW i, Readable(w, i), rtl_legal(w, i)
  PROVE  LET n == Instruction(w, i)
         IN /\ i.opcode \in {\h13, \h33, \h63, \h73}
            /\ n.opcode = "SYSTEM" <=> i.opcode = \h73
            /\ n.opcode = "OP-IMM" <=> i.opcode = \h13
            /\ n.opcode = "BRANCH" <=> i.opcode = \h63
            /\ n.opcode \in {"OP", "BRANCH"} <=> i.opcode \in {\h33, \h63}
            /\ n.op = "ECALL" <=> w = ECALL
            /\ n.op = "EBREAK" <=> w = EBREAK
            /\ n.op \in {"ECALL", "EBREAK", "MRET"} <=> i.opcode = \h73 /\ i.f3 = 0
            /\ n.op \in {"ECALL", "EBREAK", "MRET"} <=> w \in {ECALL, EBREAK, MRET}
            /\ i.opcode # \h73 => n.op = rtl_op(i) /\ n.op \in op_t
            /\ i.opcode = \h73 => n.op = system_name(w, i)
            /\ n.op \in CsrOps <=> i.opcode = \h73 /\ i.f3 # 0
<1> DEFINE n == Instruction(w, i)
           Bare == {"ECALL", "EBREAK", "MRET"}
<1>t. i.f3 \in 0 .. 7
  BY DEF Readable
<1>1. i.opcode \in {\h13, \h33, \h63, \h73}
  BY DEF rtl_legal
<1>2. n.opcode = IF i.opcode = \h13 THEN "OP-IMM" ELSE IF i.opcode = \h33 THEN "OP"
                 ELSE IF i.opcode = \h63 THEN "BRANCH" ELSE "SYSTEM"
  BY <1>1 DEF Instruction, Category
<1>3. n.op = IF i.opcode = \h73 THEN system_name(w, i) ELSE rtl_op(i)
  BY DEF Instruction
<1>4. (Bare \cup CsrOps) \cap op_t = {} /\ Bare \cap CsrOps = {}
  BY DEF op_t, IntegerOps, MulOps, DivOps, BranchOps, CsrOps
<1>5. i.opcode # \h73 => rtl_op(i) \in op_t
  <2>1. CASE i.opcode = \h63
    <3>1. rtl_op(i) = BranchTable[i.f3 + 1] /\ i.f3 \notin {2, 3}
      BY <2>1 DEF rtl_op, rtl_legal
    <3> QED
      BY <1>t, <3>1, Tables DEF op_t
  <2>2. CASE i.opcode \in {\h13, \h33}
    <3>1. rtl_op(i) \in {"SUB", "SRA", IntegerTable[i.f3 + 1], MulDivTable[i.f3 + 1]}
      BY <2>2 DEF rtl_op
    <3>2. {"SUB", "SRA"} \subseteq IntegerOps
      BY DEF IntegerOps
    <3> QED
      BY <1>t, <3>1, <3>2, Tables DEF op_t
  <2> QED
    BY <1>1, <2>1, <2>2
<1>6. i.opcode # \h73 => w \notin {ECALL, EBREAK, MRET}
  BY DEF Readable
<1>7. i.opcode = \h73 /\ i.f3 = 0 => w \in {ECALL, EBREAK, MRET}
  BY DEF rtl_legal
<1>8. i.f3 # 0 => w \notin {ECALL, EBREAK, MRET}
  BY DEF Readable
<1>9. /\ w = ECALL => system_name(w, i) = "ECALL"
      /\ w = EBREAK => system_name(w, i) = "EBREAK"
      /\ w = MRET => system_name(w, i) = "MRET"
      /\ w \notin {ECALL, EBREAK, MRET} => system_name(w, i) = CsrTable[i.f3 + 1]
  BY BareWords DEF system_name
<1>10. i.opcode = \h73 /\ i.f3 # 0 => CsrTable[i.f3 + 1] \in CsrOps
  <2>1. i.opcode = \h73 /\ i.f3 # 0 => i.f3 # 4
    BY DEF rtl_legal, rtl_csr_legal
  <2> QED
    BY <1>t, <2>1, Tables
<1> HIDE DEF n
<1>11. CASE i.opcode # \h73
  BY <1>1, <1>2, <1>3, <1>4, <1>5, <1>6, <1>11 DEF n
<1>12. CASE i.opcode = \h73 /\ i.f3 # 0
  BY <1>2, <1>3, <1>4, <1>8, <1>9, <1>10, <1>12 DEF n
<1>13. CASE i.opcode = \h73 /\ i.f3 = 0
  BY <1>2, <1>3, <1>4, <1>7, <1>9, <1>13, BareWords DEF n
<1> QED
  BY <1>11, <1>12, <1>13

(* Module Decode makes of the names what the RTL makes of the bits.        *)
LEMMA NamesDecode ==
  ASSUME NEW w, NEW i, Readable(w, i)
  PROVE  SameNames(rtl_decode(w, i), rv32_decode([pc |-> 0, instruction |-> Instruction(w, i), status |-> "ok"]))
<1> DEFINE n == Instruction(w, i)
           f == [pc |-> 0, instruction |-> n, status |-> "ok"]
           r == rtl_decode(w, i)
           d == rv32_decode(f)
<1>1. DOMAIN r = {"op", "rs1", "rs2", "rd", "immediate", "immediate_b", "terminal", "serial", "fault", "trap_cause"}
  BY DEF rtl_decode
<1>2. SUFFICES /\ d.op = r.op /\ d.rs1 = r.rs1 /\ d.rs2 = r.rs2 /\ d.rd = r.rd
               /\ d.terminal = r.terminal /\ d.serial = r.serial /\ d.fault = r.fault
               /\ d.trap_cause = r.trap_cause
               /\ ~r.terminal => d.immediate = r.immediate /\ d.immediate_b = r.immediate_b
  <2> HIDE DEF d, r
  <2> QED
    BY <1>1 DEF SameNames, d, r
<1>3. f.status = "ok" /\ f.instruction = n
  OBVIOUS
<1>4. n.rd = i.rd /\ n.rs1 = i.rs1 /\ n.rs2 = i.rs2 /\ n.imm = rtl_immediate(w, i)
  BY DEF Instruction
<1>5. legal(n) <=> rtl_legal(w, i)
  BY NamesLegal
<1> HIDE DEF n, f
<1>6. CASE ~rtl_legal(w, i)
  <2>1. d = Terminal(f, FAULT_ILLEGAL, CAUSE_ILLEGAL)
    BY <1>3, <1>5, <1>6 DEF rv32_decode
  <2>2. /\ r.op = "ADD" /\ r.rs1 = 0 /\ r.rs2 = 0 /\ r.rd = 0 /\ r.terminal = TRUE
        /\ r.serial = FALSE /\ r.fault = FAULT_ILLEGAL /\ r.trap_cause = CAUSE_ILLEGAL
    BY <1>6 DEF rtl_decode
  <2> HIDE DEF r, d
  <2> QED
    BY <2>1, <2>2 DEF Terminal
<1>7. CASE rtl_legal(w, i) /\ w \in {ECALL, EBREAK}
  <2>1. (n.op = "ECALL" <=> w = ECALL) /\ (n.op = "EBREAK" <=> w = EBREAK)
    BY <1>7, NamesOf DEF n
  <2>2. d = Terminal(f, FAULT_ILLEGAL, IF w = ECALL THEN CAUSE_ECALL_M ELSE CAUSE_BREAKPOINT)
    BY <1>3, <1>5, <1>7, <2>1, BareWords DEF rv32_decode
  <2>3. i.opcode = \h73 /\ i.f3 = 0
    BY <1>7 DEF Readable
  <2>4. /\ r.op = "ADD" /\ r.rs1 = 0 /\ r.rs2 = 0 /\ r.rd = 0
    BY <1>7, <2>3 DEF rtl_decode, rtl_op
  <2>5. /\ r.terminal = TRUE /\ r.serial = FALSE /\ r.fault = FAULT_ILLEGAL
        /\ r.trap_cause = IF w = ECALL THEN CAUSE_ECALL_M ELSE CAUSE_BREAKPOINT
    BY <1>7, <2>3 DEF rtl_decode
  <2> HIDE DEF r, d
  <2> QED
    BY <2>2, <2>4, <2>5 DEF Terminal
<1>8. CASE rtl_legal(w, i) /\ w \notin {ECALL, EBREAK}
  <2>1. n.op # "ECALL" /\ n.op # "EBREAK"
    BY <1>8, NamesOf DEF n
  <2>2. d = Legal(f)
    BY <1>3, <1>5, <1>8, <2>1 DEF rv32_decode
  <2>3. /\ n.opcode = "SYSTEM" <=> i.opcode = \h73
        /\ n.opcode = "OP-IMM" <=> i.opcode = \h13
        /\ n.opcode = "BRANCH" <=> i.opcode = \h63
        /\ n.opcode \in {"OP", "BRANCH"} <=> i.opcode \in {\h33, \h63}
        /\ i.opcode \in {\h13, \h33, \h63, \h73}
        /\ n.op \in {"ECALL", "EBREAK", "MRET"} <=> i.opcode = \h73 /\ i.f3 = 0
        /\ i.opcode # \h73 => n.op = rtl_op(i)
    BY <1>8, NamesOf DEF n
  <2>4. i.opcode = \h73 => rtl_op(i) = "ADD"
    BY DEF rtl_op
  <2>5. /\ d.op = IF n.opcode = "SYSTEM" THEN "ADD" ELSE n.op
        /\ d.rs1 = IF n.op \in {"ECALL", "EBREAK", "MRET"} THEN 0 ELSE n.rs1
        /\ d.rs2 = IF n.opcode \in {"OP", "BRANCH"} THEN n.rs2 ELSE 0
        /\ d.rd = IF n.op \in {"ECALL", "EBREAK", "MRET"} \/ n.opcode = "BRANCH" THEN 0 ELSE n.rd
        /\ d.immediate = n.imm
    BY <1>3, <2>2 DEF Legal
  <2>6. /\ d.immediate_b = (n.opcode = "OP-IMM") /\ d.terminal = FALSE
        /\ d.serial = (n.opcode = "SYSTEM") /\ d.fault = FAULT_NONE /\ d.trap_cause = 0
    BY <1>3, <2>2 DEF Legal
  <2>7. r.op = rtl_op(i) /\ r.immediate = rtl_immediate(w, i)
    BY <1>8 DEF rtl_decode
  <2>8. /\ r.rs1 = IF i.opcode = \h73 /\ i.f3 = 0 THEN 0 ELSE i.rs1
        /\ r.rs2 = IF i.opcode \in {\h13, \h73} THEN 0 ELSE i.rs2
        /\ r.rd = IF i.opcode = \h63 \/ (i.opcode = \h73 /\ i.f3 = 0) THEN 0 ELSE i.rd
    BY <1>8 DEF rtl_decode
  <2>9. r.immediate_b = (i.opcode = \h13) /\ r.serial = (i.opcode = \h73)
    <3>1. CASE i.opcode = \h73
      BY <1>8, <3>1 DEF rtl_decode
    <3>2. CASE i.opcode # \h73
      BY <1>8, <3>2 DEF rtl_decode
    <3> QED
      BY <3>1, <3>2
  <2>10. r.terminal = FALSE /\ r.fault = FAULT_NONE /\ r.trap_cause = 0
    BY <1>8 DEF rtl_decode
  <2> HIDE DEF r, d
  <2>11. d.op = r.op /\ d.rs1 = r.rs1 /\ d.rs2 = r.rs2 /\ d.rd = r.rd /\ d.immediate = r.immediate
    BY <1>4, <2>3, <2>4, <2>5, <2>7, <2>8
  <2>12. d.immediate_b = r.immediate_b
    BY <2>3, <2>6, <2>9
  <2>13. d.serial = r.serial
    BY <2>3, <2>6, <2>9
  <2> QED
    BY <2>6, <2>10, <2>11, <2>12, <2>13
<1> QED
  BY <1>6, <1>7, <1>8

(* The reference CPU executes what the RTL finds legal.                    *)
LEMMA ReferenceReads ==
  ASSUME NEW w \in SUBSET (0 .. 31), NEW i, Readable(w, i)
  PROVE  LET x == reference_execute(w, i)
             n == Instruction(w, i)
         IN /\ ~rtl_legal(w, i) => x.op = "reserved"
            /\ rtl_legal(w, i) =>
                 /\ x.op = n.op
                 /\ x.rd = IF i.opcode = \h63 \/ (i.opcode = \h73 /\ i.f3 = 0) THEN 0 ELSE i.rd
                 /\ x.rs1 = IF i.opcode = \h73 /\ i.f3 = 0 THEN 0 ELSE i.rs1
                 /\ x.rs2 = IF i.opcode \in {\h13, \h73} THEN 0 ELSE i.rs2
                 /\ i.opcode \in {\h13, \h63} => x.immediate = rtl_immediate(w, i)
                 /\ i.opcode = \h73 /\ i.f3 # 0 => x.csr = CsrAddress[i.top]
<1> DEFINE x == reference_execute(w, i)
           n == Instruction(w, i)
           imm == sign_extend(Field(w, 31, 20), 12)
<1>t. i.f3 \in 0 .. 7
  BY DEF Readable
<1>n. NoOperation.op = "reserved"
  BY DEF NoOperation
<1>1. CASE i.opcode = \h63
  <2>1. x = reference_branch(w, i)
    BY <1>1 DEF reference_execute
  <2>2. rtl_legal(w, i) <=> i.f3 \notin {2, 3}
    BY <1>1 DEF rtl_legal
  <2>3. ASSUME i.f3 \in {2, 3} PROVE x.op = "reserved"
    BY <1>n, <2>1, <2>3 DEF reference_branch
  <2>4. ASSUME i.f3 \notin {2, 3}
        PROVE  /\ x.op = BranchTable[i.f3 + 1] /\ x.rd = 0 /\ x.rs1 = i.rs1 /\ x.rs2 = i.rs2
               /\ x.immediate = rtl_immediate(w, i)
    <3> DEFINE o == sign_extend((IF 31 \in w THEN {12} ELSE {}) \cup (IF 7 \in w THEN {11} ELSE {})
                              \cup Shifted(Field(w, 30, 25), -5) \cup Shifted(Field(w, 11, 8), -1), 13)
    <3>1. x = [NoOperation EXCEPT !.op = BranchTable[i.f3 + 1], !.rs1 = i.rs1, !.rs2 = i.rs2, !.immediate = o]
      BY <2>1, <2>4 DEF reference_branch
    <3>2. o = rtl_immediate(w, i)
      BY <1>1, BranchOffset
    <3> HIDE DEF o
    <3> QED
      BY <3>1, <3>2 DEF NoOperation
  <2>5. i.f3 \notin {2, 3} => n.op = BranchTable[i.f3 + 1]
    BY <1>1, <2>2, NamesOf DEF rtl_op
  <2> HIDE DEF x, n
  <2> QED
    BY <1>1, <2>2, <2>3, <2>4, <2>5 DEF x, n
<1>2. CASE i.opcode = \h13
  <2> DEFINE bad == (i.f3 = 1 /\ i.f7 # 0) \/ (i.f3 = 5 /\ i.f7 \notin {0, \h20})
             op == IF i.f3 = 5 /\ i.f7 = \h20 THEN "SRA" ELSE IntegerTable[i.f3 + 1]
  <2>1. x = reference_immediate(w, i)
    BY <1>2 DEF reference_execute
  <2>2. rtl_legal(w, i) <=> ~bad
    BY <1>2 DEF rtl_legal
  <2>3. ASSUME bad PROVE x.op = "reserved"
    BY <1>n, <2>1, <2>3 DEF reference_immediate
  <2>4. ASSUME ~bad
        PROVE  /\ x.op = op /\ x.rd = i.rd /\ x.rs1 = i.rs1 /\ x.rs2 = 0
               /\ x.immediate = rtl_immediate(w, i)
    <3>1. x = [NoOperation EXCEPT !.op = op, !.rd = i.rd, !.rs1 = i.rs1, !.immediate = imm]
      BY <2>1, <2>4 DEF reference_immediate
    <3>2. imm = rtl_immediate(w, i)
      <4>1. rtl_immediate(w, i) = SignBits(w, 12) \cup Field(w, 31, 20)
        BY <1>2 DEF rtl_immediate
      <4> QED
        BY <4>1, PlainImmediate
    <3> HIDE DEF imm, op
    <3> QED
      BY <3>1, <3>2 DEF NoOperation
  <2>5. ~bad => n.op = op
    <3>1. rtl_op(i) = op
      BY <1>2 DEF rtl_op
    <3> QED
      BY <1>2, <2>2, <3>1, NamesOf
  <2> HIDE DEF x, n, bad, op
  <2> QED
    BY <1>2, <2>2, <2>3, <2>4, <2>5 DEF x, n
<1>3. CASE i.opcode = \h33
  <2> DEFINE ok == i.f7 \in {0, 1} \/ (i.f7 = \h20 /\ i.f3 \in {0, 5})
             op == IF i.f7 = 1 THEN MulDivTable[i.f3 + 1]
                   ELSE IF i.f7 = 0 THEN IntegerTable[i.f3 + 1]
                   ELSE IF i.f3 = 0 THEN "SUB" ELSE "SRA"
  <2>1. x = reference_register(i)
    BY <1>3 DEF reference_execute
  <2>2. rtl_legal(w, i) <=> ok
    BY <1>3 DEF rtl_legal
  <2>3. ASSUME ~ok PROVE x.op = "reserved"
    <3>1. x = NoOperation
      BY <2>1, <2>3 DEF reference_register
    <3> QED
      BY <1>n, <3>1
  <2>4. ASSUME ok
        PROVE  x.op = op /\ x.rd = i.rd /\ x.rs1 = i.rs1 /\ x.rs2 = i.rs2
    <3>1. x = [NoOperation EXCEPT !.op = op, !.rd = i.rd, !.rs1 = i.rs1, !.rs2 = i.rs2]
      <4>1. CASE i.f7 = 1
        BY <2>1, <4>1 DEF reference_register
      <4>2. CASE i.f7 = 0
        BY <2>1, <4>2 DEF reference_register
      <4>3. CASE i.f7 = \h20 /\ i.f3 = 0
        BY <2>1, <4>3 DEF reference_register
      <4>4. CASE i.f7 = \h20 /\ i.f3 = 5
        BY <2>1, <4>4 DEF reference_register
      <4> QED
        BY <2>4, <4>1, <4>2, <4>3, <4>4
    <3> HIDE DEF op
    <3> QED
      BY <3>1 DEF NoOperation
  <2>5. ok => n.op = op
    <3>1. ok => rtl_op(i) = op
      BY <1>3 DEF rtl_op
    <3> QED
      BY <1>3, <2>2, <3>1, NamesOf
  <2> HIDE DEF x, n, ok, op
  <2> QED
    BY <1>3, <2>2, <2>3, <2>4, <2>5 DEF x, n
<1>4. CASE i.opcode = \h73
  <2>1. ENABLE_TRAPS => x = reference_system(w, i)
    BY <1>4 DEF reference_execute
  <2>2. CASE ~ENABLE_TRAPS
    <3>1. ~rtl_legal(w, i)
      BY <1>4, <2>2 DEF rtl_legal
    <3>2. x = NoOperation
      BY <1>4, <2>2 DEF reference_execute
    <3> QED
      BY <1>n, <3>1, <3>2
  <2>3. CASE ENABLE_TRAPS /\ w \in {ECALL, EBREAK, MRET}
    <3>1. i.f3 = 0
      BY <2>3 DEF Readable
    <3>2. rtl_legal(w, i)
      BY <1>4, <2>3, <3>1 DEF rtl_legal
    <3>3. n.op = system_name(w, i)
      BY <1>4, <3>2, NamesOf
    <3>4. x = [NoOperation EXCEPT !.op = system_name(w, i)]
      <4>1. x = reference_system(w, i)
        BY <2>1, <2>3
      <4>2. reference_system(w, i) = [NoOperation EXCEPT !.op = system_name(w, i)]
        <5>1. CASE w = ECALL
          <6>1. reference_system(w, i) = [NoOperation EXCEPT !.op = "ECALL"]
            BY <3>1, <5>1, BareWords DEF reference_system
          <6>2. system_name(w, i) = "ECALL"
            BY <5>1, BareWords DEF system_name
          <6> QED
            BY <6>1, <6>2, Zenon
        <5>2. CASE w = EBREAK
          <6>1. reference_system(w, i) = [NoOperation EXCEPT !.op = "EBREAK"]
            BY <3>1, <5>2, BareWords DEF reference_system
          <6>2. system_name(w, i) = "EBREAK"
            BY <5>2, BareWords DEF system_name
          <6> QED
            BY <6>1, <6>2, Zenon
        <5>3. CASE w = MRET
          <6>1. reference_system(w, i) = [NoOperation EXCEPT !.op = "MRET"]
            BY <3>1, <5>3, BareWords DEF reference_system
          <6>2. system_name(w, i) = "MRET"
            BY <5>3, BareWords DEF system_name
          <6> QED
            BY <6>1, <6>2, Zenon
        <5> QED
          BY <2>3, <5>1, <5>2, <5>3
      <4> QED
        BY <4>1, <4>2, Zenon
    <3>5. x.op = system_name(w, i) /\ x.rd = 0 /\ x.rs1 = 0 /\ x.rs2 = 0
      BY <3>4 DEF NoOperation
    <3> HIDE DEF x, n
    <3> QED
      BY <1>4, <3>1, <3>2, <3>3, <3>5 DEF x, n
  <2>4. CASE ENABLE_TRAPS /\ w \notin {ECALL, EBREAK, MRET}
    <3> DEFINE ok == /\ i.f3 # 0 /\ i.top \in CsrAt /\ i.f3 # 4
                     /\ ~(i.top = \hf14 /\ (i.f3 \in {1, 5} \/ i.rs1 # 0))
    <3>1. rtl_csr_legal(i) <=> /\ i.f3 # 4 /\ i.top \in CsrAt
                               /\ ~(i.top = \hf14 /\ (i.f3 \in {1, 5} \/ i.rs1 # 0))
      BY DEF rtl_csr_legal, rtl_csr_write
    <3>2. rtl_legal(w, i) <=> i.f3 # 0 /\ rtl_csr_legal(i)
      BY <1>4, <2>4 DEF rtl_legal
    <3>3. rtl_legal(w, i) <=> ok
      BY <3>1, <3>2
    <3>4. ASSUME ~ok PROVE x.op = "reserved"
      <4>1. x = NoOperation
        BY <2>1, <2>4, <3>4 DEF reference_system
      <4> QED
        BY <1>n, <4>1
    <3>5. ASSUME ok
          PROVE  /\ x.op = CsrTable[i.f3 + 1] /\ x.rd = i.rd /\ x.rs1 = i.rs1 /\ x.rs2 = 0
                 /\ x.csr = CsrAddress[i.top]
      <4>1. x = [NoOperation EXCEPT !.op = CsrTable[i.f3 + 1], !.rd = i.rd, !.rs1 = i.rs1,
                                    !.csr = CsrAddress[i.top]]
        BY <2>1, <2>4, <3>5 DEF reference_system
      <4> QED
        BY <4>1 DEF NoOperation
    <3>6. ok => n.op = CsrTable[i.f3 + 1]
      <4>1. system_name(w, i) = CsrTable[i.f3 + 1]
        BY <2>4 DEF system_name
      <4> QED
        BY <1>4, <3>3, <4>1, NamesOf
    <3>7. ok => i.f3 # 0
      OBVIOUS
    <3> HIDE DEF x, n, ok
    <3> QED
      BY <1>4, <3>3, <3>4, <3>5, <3>6, <3>7 DEF x, n
  <2> QED
    BY <2>2, <2>3, <2>4
<1>5. CASE i.opcode \notin {\h13, \h33, \h63, \h73}
  <2>1. ~rtl_legal(w, i)
    BY <1>5 DEF rtl_legal
  <2>2. x = NoOperation
    BY <1>5 DEF reference_execute
  <2> QED
    BY <1>n, <2>1, <2>2
<1> QED
  BY <1>1, <1>2, <1>3, <1>4, <1>5

(* So it and the decoder agree on what to execute and on what.             *)
LEMMA ReferenceAgrees ==
  ASSUME NEW w \in SUBSET (0 .. 31), NEW i, Readable(w, i)
  PROVE  SameAsReference(rtl_decode(w, i), Instruction(w, i), reference_execute(w, i))
<1> DEFINE r == rtl_decode(w, i)
           n == Instruction(w, i)
           x == reference_execute(w, i)
<1>1. CASE ~rtl_legal(w, i)
  <2>1. r.fault = FAULT_ILLEGAL /\ r.trap_cause = CAUSE_ILLEGAL
    BY <1>1 DEF rtl_decode
  <2>2. x.op = "reserved"
    BY <1>1, ReferenceReads
  <2> HIDE DEF r, n, x
  <2> QED
    BY <2>1, <2>2 DEF SameAsReference, r, n, x
<1>2. CASE rtl_legal(w, i)
  <2>1. /\ r.rs1 = IF i.opcode = \h73 /\ i.f3 = 0 THEN 0 ELSE i.rs1
        /\ r.rs2 = IF i.opcode \in {\h13, \h73} THEN 0 ELSE i.rs2
        /\ r.rd = IF i.opcode = \h63 \/ (i.opcode = \h73 /\ i.f3 = 0) THEN 0 ELSE i.rd
        /\ r.immediate = rtl_immediate(w, i)
    BY <1>2 DEF rtl_decode
  <2>2. ~(r.fault = FAULT_ILLEGAL /\ r.trap_cause = CAUSE_ILLEGAL)
    BY <1>2 DEF rtl_decode, FAULT_NONE, FAULT_ILLEGAL, CAUSE_ILLEGAL, CAUSE_ECALL_M, CAUSE_BREAKPOINT
  <2>3. /\ x.op = n.op
        /\ x.rd = IF i.opcode = \h63 \/ (i.opcode = \h73 /\ i.f3 = 0) THEN 0 ELSE i.rd
        /\ x.rs1 = IF i.opcode = \h73 /\ i.f3 = 0 THEN 0 ELSE i.rs1
        /\ x.rs2 = IF i.opcode \in {\h13, \h73} THEN 0 ELSE i.rs2
        /\ i.opcode \in {\h13, \h63} => x.immediate = rtl_immediate(w, i)
        /\ i.opcode = \h73 /\ i.f3 # 0 => x.csr = CsrAddress[i.top]
    BY <1>2, ReferenceReads
  <2>4. /\ n.opcode = "OP-IMM" <=> i.opcode = \h13
        /\ n.opcode = "BRANCH" <=> i.opcode = \h63
        /\ n.op \in CsrOps <=> i.opcode = \h73 /\ i.f3 # 0
    BY <1>2, NamesOf
  <2>5. n.op # "reserved"
    <3>1. i.opcode # \h73 => n.op \in op_t
      BY <1>2, NamesOf
    <3>2. i.opcode = \h73 => n.op \in CsrOps \cup {"ECALL", "EBREAK", "MRET"}
      BY <1>2, NamesOf
    <3>3. "reserved" \notin op_t \cup CsrOps \cup {"ECALL", "EBREAK", "MRET"}
      BY DEF op_t, IntegerOps, MulOps, DivOps, BranchOps, CsrOps
    <3> QED
      BY <3>1, <3>2, <3>3
  <2>6. i.opcode = \h73 /\ i.f3 # 0 => n.csr = CsrAddress[i.top]
    <3>1. i.opcode = \h73 /\ i.f3 # 0 => i.top \in CsrAt
      BY <1>2 DEF rtl_legal, rtl_csr_legal
    <3> QED
      BY <3>1 DEF Instruction
  <2> HIDE DEF r, n, x
  <2>7. n.opcode \in {"OP-IMM", "BRANCH"} <=> i.opcode \in {\h13, \h63}
    BY <2>4
  <2> QED
    BY <2>1, <2>2, <2>3, <2>4, <2>5, <2>6, <2>7 DEF SameAsReference, r, n, x
<1> QED
  BY <1>1, <1>2

(* Every word is read alike.                                               *)
LEMMA AllWordsAgree ==
  ASSUME word \in SUBSET (0 .. 31)
  PROVE  DecodersAgree
  BY FieldsReadable, SystemcDecodes, NamesDecode, ReferenceAgrees DEF DecodersAgree

(* The words that are reached are words.                                   *)
THEOREM DecodersAlwaysAgree == WordSpec => []DecodersAgree
<1> DEFINE Inv == word \in SUBSET (0 .. 31)
<1>1. Start => Inv
  BY CanonicalAssumption DEF Start
<1>2. Inv /\ [Flip]_<<word, flips>> => Inv'
  BY DEF Flip
<1>3. Inv => DecodersAgree
  BY AllWordsAgree
<1> QED
  BY <1>1, <1>2, <1>3, PTL DEF WordSpec

-----------------------------------------------------------------------------
(* The reference CPU and its memory.  Between two instructions the channel *)
(* is quiet; a request stands for the instruction at the program counter,  *)
(* and so does the answer that the memory prepares or holds.               *)
ArchFields == {"x", "pc", "csr", "halted", "fault", "fault_code"}
Quiet ==
  /\ reference_state \in {"IssueRequest", "Stopped"} /\ ~reference_req_valid /\ ~reference_rsp_ready
  /\ refmem_state = "AcceptingRequest" /\ ~refmem_rsp.valid
Requesting ==
  /\ reference_state = "WaitForRequest" /\ reference_req_valid /\ ~reference_rsp_ready
  /\ reference_req_addr = reference_arch.pc
  /\ refmem_state = "AcceptingRequest" /\ ~refmem_rsp.valid
Awaiting ==
  /\ reference_state = "WaitForResponse" /\ ~reference_req_valid /\ reference_rsp_ready
  /\ refmem_address = reference_arch.pc
  /\ \/ refmem_state = "WaitingForResponse" /\ ~refmem_rsp.valid
     \/ /\ refmem_state = "HoldingResponse"
        /\ refmem_rsp = [valid |-> TRUE, data |-> ReferenceMemory!ReadWord(reference_arch.pc).data,
                         status |-> ReferenceMemory!ReadWord(reference_arch.pc).status]
ReferenceInv ==
  /\ resets \in Nat /\ DOMAIN reference_arch = ArchFields
  /\ DOMAIN refmem_rsp = {"valid", "data", "status"}
  /\ reference_state # "Stopped" => ~reference_arch.halted /\ ~reference_arch.fault
  /\ Quiet \/ Requesting \/ Awaiting

(* Whatever an instruction does, the machine keeps its fields.             *)
LEMMA FieldsStay ==
  ASSUME NEW m, NEW status, NEW i
  PROVE  DOMAIN Reference!Answer(m, status, i).m = DOMAIN m
<1>1. \A n, cause, tval : DOMAIN Reference!Trap(n, cause, tval) = DOMAIN n
  BY DEF Reference!Trap
<1>2. \A n, code, cause, tval : DOMAIN Reference!raise_fault(n, code, cause, tval) = DOMAIN n
  BY <1>1 DEF Reference!raise_fault
<1>3. \A n : Reference!NoRetire(n).m = n
  BY DEF Reference!NoRetire
<1>4. \A n, rd, value, next : DOMAIN Reference!Retire(n, rd, value, next).m = DOMAIN n
  BY DEF Reference!Retire
<1>5. \A n, address, value : DOMAIN Reference!write_csr(n, address, value) = DOMAIN n
  BY DEF Reference!write_csr
<1>6. \A j : DOMAIN Reference!Illegal(m, j).m = DOMAIN m
  BY <1>2, <1>3 DEF Reference!Illegal
<1>7. DOMAIN Reference!Branch(m, i).m = DOMAIN m
  BY <1>2, <1>3, <1>4 DEF Reference!Branch
<1>8. DOMAIN Reference!Csr(m, i).m = DOMAIN m
  <2> DEFINE known == i.csr \in {"mstatus", "misa", "mie", "mtvec", "mscratch", "mepc",
                                 "mcause", "mtval", "mip", "mhartid"}
             writes == i.op \in {"CSRRW", "CSRRWI"} \/ i.rs1 # 0
             old == Reference!read_csr(m, i.csr)
             source == IF i.op \in {"CSRRWI", "CSRRSI", "CSRRCI"} THEN i.rs1 ELSE m.x[i.rs1]
             value == CASE i.op \in {"CSRRW", "CSRRWI"} -> source
                        [] i.op \in {"CSRRS", "CSRRSI"} -> Reference!IntegerValue("OR", old, source)
                        [] i.op \in {"CSRRC", "CSRRCI"} ->
                             Reference!IntegerValue("AND", old, WordModulus - 1 - source)
             n == IF writes THEN Reference!write_csr(m, i.csr, value) ELSE m
             retire == Reference!Retire(n, i.rd, old, Reference!NextOf(m))
  <2>1. Reference!Csr(m, i) = IF ~known \/ (i.csr = "mhartid" /\ writes) THEN Reference!Illegal(m, i)
                             ELSE retire
    BY DEF Reference!Csr
  <2>2. DOMAIN n = DOMAIN m
    <3> HIDE DEF writes, value
    <3> QED
      BY <1>5
  <2> HIDE DEF n
  <2>3. DOMAIN retire.m = DOMAIN m
    BY <2>2, <1>4
  <2> HIDE DEF retire, known, writes
  <2> QED
    BY <2>1, <2>3, <1>6
<1>9. DOMAIN Reference!Mret(m).m = DOMAIN m
  <2> DEFINE n == [m EXCEPT !.csr.mie = m.csr.mpie, !.csr.mpie = TRUE]
  <2>1. Reference!Mret(m) = Reference!Retire(n, 0, 0, m.csr.mepc)
    BY DEF Reference!Mret
  <2>2. DOMAIN n = DOMAIN m
    OBVIOUS
  <2> HIDE DEF n
  <2> QED
    BY <2>1, <2>2, <1>4
<1>10. DOMAIN Reference!System(m, i).m = DOMAIN m
  BY <1>1, <1>3, <1>6, <1>8, <1>9 DEF Reference!System
<1>11. DOMAIN Reference!execute(m, i).m = DOMAIN m
  BY <1>4, <1>6, <1>7, <1>10 DEF Reference!execute
<1> QED
  BY <1>2, <1>3, <1>11 DEF Reference!Answer

(* What the memory answers for an address is what the instruction set      *)
(* executes there.                                                         *)
LEMMA AnswerIs ==
  ASSUME NEW m, NEW given, given = ReferenceMemory!ReadWord(m.pc)
  PROVE  Reference!Answer(m, given.status, given.data) = Reference!StepOf(m)
<1>1. CASE m.pc % 4 # 0 \/ m.pc > 4 * Len(program)
  <2>1. given.status = "access_fault" /\ Reference!Fetched(m) = "access_fault"
    BY <1>1 DEF ReferenceMemory!ReadWord, Reference!Fetched
  <2> QED
    BY <2>1 DEF Reference!StepOf, Reference!Answer
<1>2. CASE ~(m.pc % 4 # 0 \/ m.pc > 4 * Len(program)) /\ m.pc = 4 * Len(program)
  <2>1. given.status = "end" /\ Reference!Fetched(m) = "end"
    BY <1>2 DEF ReferenceMemory!ReadWord, Reference!Fetched
  <2> QED
    BY <2>1 DEF Reference!StepOf, Reference!Answer
<1>3. CASE ~(m.pc % 4 # 0 \/ m.pc > 4 * Len(program)) /\ m.pc # 4 * Len(program)
  <2>1. given.status = "ok" /\ Reference!Fetched(m) = "ok" /\ given.data = program[m.pc \div 4 + 1]
    BY <1>3 DEF ReferenceMemory!ReadWord, Reference!Fetched
  <2> QED
    BY <2>1 DEF Reference!StepOf
<1> QED
  BY <1>1, <1>2, <1>3

-----------------------------------------------------------------------------
(* An edge of the reference CPU and its memory.                            *)
ReferenceEdge ==
  /\ Reference!ReferenceTick(refmem_req_ready, refmem_rsp)
  /\ ReferenceMemory!MemTick(reference_req_valid, reference_req_addr, reference_rsp_ready)

(* Between two instructions: an interrupt may be taken, and the request    *)
(* goes out.                                                               *)
LEMMA QuietStep ==
  ASSUME ReferenceInv, Quiet, ReferenceEdge, resets' = resets
  PROVE  ReferenceInv' /\ (Reference!Interrupt \/ Reference!Idle)
<1>1. ~refmem_rsp'.valid /\ refmem_state' = "AcceptingRequest" /\ DOMAIN refmem_rsp' = {"valid", "data", "status"}
  BY DEF ReferenceInv, Quiet, ReferenceEdge, ReferenceMemory!MemTick, ReferenceMemory!AcceptRequest,
     ReferenceMemory!WaitForResponse, ReferenceMemory!HoldResponse
<1>2. CASE reference_state = "Stopped"
  <2>1. /\ reference_retired' = <<>> /\ reference_arch' = reference_arch /\ reference_state' = reference_state
        /\ reference_req_valid' = reference_req_valid /\ reference_rsp_ready' = reference_rsp_ready
    BY <1>2 DEF ReferenceEdge, Reference!ReferenceTick, Reference!IssueRequest, Reference!WaitForRequest,
       Reference!WaitForResponse, Reference!Stopped
  <2> QED
    BY <1>1, <1>2, <2>1 DEF ReferenceInv, Quiet, Reference!Idle
<1>3. CASE reference_state = "IssueRequest"
  <2> DEFINE m == IF Reference!interrupted THEN Reference!Trap(reference_arch, Reference!CAUSE_EXTERNAL, 0)
                  ELSE reference_arch
  <2>1. /\ reference_arch' = m /\ reference_retired' = <<>> /\ reference_state' = "WaitForRequest"
        /\ reference_req_valid' = TRUE /\ reference_req_addr' = m.pc
        /\ reference_rsp_ready' = reference_rsp_ready
    BY <1>3 DEF ReferenceEdge, Reference!ReferenceTick, Reference!IssueRequest, Reference!WaitForRequest,
       Reference!WaitForResponse, Reference!Stopped
  <2>2. DOMAIN m = ArchFields /\ m.halted = reference_arch.halted /\ m.fault = reference_arch.fault
    BY DEF ReferenceInv, Reference!Trap, ArchFields
  <2>3. Reference!Running
    BY <1>3 DEF ReferenceInv, Reference!Running
  <2>4. Reference!Interrupt \/ Reference!Idle
    BY <2>1, <2>3 DEF Reference!Interrupt, Reference!Idle, Reference!interrupted
  <2> HIDE DEF m
  <2>5. ReferenceInv'
    BY <1>1, <1>3, <2>1, <2>2 DEF ReferenceInv, Quiet, Requesting
  <2> QED
    BY <2>4, <2>5
<1> QED
  BY <1>2, <1>3 DEF Quiet

(* The request stands until the memory takes it.                           *)
LEMMA RequestStep ==
  ASSUME ReferenceInv, Requesting, ReferenceEdge, resets' = resets
  PROVE  ReferenceInv' /\ Reference!Idle
<1>1. /\ reference_arch' = reference_arch /\ reference_retired' = <<>>
      /\ reference_req_addr' = reference_req_addr
      /\ reference_state' = IF refmem_req_ready THEN "WaitForResponse" ELSE "WaitForRequest"
      /\ (reference_req_valid' <=> ~refmem_req_ready)
      /\ (reference_rsp_ready' <=> refmem_req_ready)
  BY DEF Requesting, ReferenceEdge, Reference!ReferenceTick, Reference!IssueRequest, Reference!WaitForRequest,
     Reference!WaitForResponse, Reference!Stopped
<1>2. /\ program' = program /\ refmem_rsp' = [refmem_rsp EXCEPT !.valid = FALSE]
      /\ refmem_state' = IF refmem_req_ready THEN "WaitingForResponse" ELSE "AcceptingRequest"
      /\ refmem_address' = IF refmem_req_ready THEN reference_req_addr ELSE refmem_address
  BY DEF Requesting, ReferenceEdge, ReferenceMemory!MemTick, ReferenceMemory!AcceptRequest,
     ReferenceMemory!WaitForResponse, ReferenceMemory!HoldResponse
<1>3. ~refmem_rsp'.valid /\ DOMAIN refmem_rsp' = {"valid", "data", "status"}
  BY <1>2 DEF ReferenceInv
<1>4. ReferenceInv'
  <2>1. CASE refmem_req_ready
    BY <1>1, <1>2, <1>3, <2>1 DEF ReferenceInv, Requesting, Awaiting
  <2>2. CASE ~refmem_req_ready
    BY <1>1, <1>2, <1>3, <2>2 DEF ReferenceInv, Requesting
  <2> QED
    BY <2>1, <2>2
<1> QED
  BY <1>1, <1>4 DEF Reference!Idle

(* The answer that the memory holds executes the instruction; until then   *)
(* nothing happens.                                                        *)
LEMMA AwaitStep ==
  ASSUME ReferenceInv, Awaiting, ReferenceEdge, resets' = resets
  PROVE  ReferenceInv' /\ (Reference!ExecuteOne \/ Reference!Idle)
<1>1. program' = program
  BY DEF ReferenceEdge, ReferenceMemory!MemTick
<1>2. CASE refmem_state = "WaitingForResponse" /\ ~refmem_rsp.valid
  <2>1. /\ reference_arch' = reference_arch /\ reference_retired' = <<>>
        /\ reference_state' = reference_state /\ reference_req_valid' = reference_req_valid
        /\ reference_rsp_ready' = reference_rsp_ready
    BY <1>2 DEF Awaiting, ReferenceEdge, Reference!ReferenceTick, Reference!IssueRequest,
       Reference!WaitForRequest, Reference!WaitForResponse, Reference!Stopped, Reference!answered
  <2> DEFINE given == ReferenceMemory!ReadWord(refmem_address)
  <2>2. /\ refmem_address' = refmem_address
        /\ \/ refmem_state' = refmem_state /\ refmem_rsp' = refmem_rsp
           \/ /\ refmem_state' = "HoldingResponse"
              /\ refmem_rsp' = [valid |-> TRUE, data |-> given.data, status |-> given.status]
    BY <1>2 DEF ReferenceEdge, ReferenceMemory!MemTick, ReferenceMemory!AcceptRequest,
       ReferenceMemory!WaitForResponse, ReferenceMemory!HoldResponse
  <2>3. given = ReferenceMemory!ReadWord(reference_arch.pc)
        /\ ReferenceMemory!ReadWord(reference_arch.pc)' = ReferenceMemory!ReadWord(reference_arch.pc)
    BY <1>1, <2>1 DEF Awaiting, ReferenceMemory!ReadWord
  <2> HIDE DEF given
  <2>4. Awaiting'
    BY <1>2, <2>1, <2>2, <2>3 DEF Awaiting
  <2>5. DOMAIN refmem_rsp' = {"valid", "data", "status"}
    BY <2>2 DEF ReferenceInv
  <2> QED
    BY <2>1, <2>4, <2>5 DEF ReferenceInv, Reference!Idle
<1>3. CASE /\ refmem_state = "HoldingResponse"
           /\ refmem_rsp = [valid |-> TRUE, data |-> ReferenceMemory!ReadWord(reference_arch.pc).data,
                            status |-> ReferenceMemory!ReadWord(reference_arch.pc).status]
  <2> DEFINE outcome == Reference!Answer(reference_arch, refmem_rsp.status, refmem_rsp.data)
  <2>1. /\ reference_arch' = outcome.m /\ reference_retired' = outcome.retired /\ reference_rsp_ready' = FALSE
        /\ reference_state' = IF outcome.m.halted \/ outcome.m.fault THEN "Stopped" ELSE "IssueRequest"
        /\ reference_req_valid' = reference_req_valid
    BY <1>3 DEF Awaiting, ReferenceEdge, Reference!ReferenceTick, Reference!IssueRequest,
       Reference!WaitForRequest, Reference!WaitForResponse, Reference!Stopped, Reference!answered
  <2>2. refmem_state' = "AcceptingRequest" /\ ~refmem_rsp'.valid /\ DOMAIN refmem_rsp' = {"valid", "data", "status"}
    BY <1>3 DEF Awaiting, ReferenceEdge, ReferenceMemory!MemTick, ReferenceMemory!AcceptRequest,
       ReferenceMemory!WaitForResponse, ReferenceMemory!HoldResponse
  <2>3. outcome = Reference!StepOf(reference_arch)
    BY <1>3, AnswerIs
  <2>4. DOMAIN outcome.m = ArchFields
    BY FieldsStay DEF ReferenceInv
  <2> HIDE DEF outcome
  <2>5. Reference!Running
    BY DEF ReferenceInv, Awaiting, Reference!Running
  <2>6. Reference!ExecuteOne
    BY <2>1, <2>3, <2>5 DEF Reference!ExecuteOne
  <2>7. ReferenceInv'
    <3>1. Quiet'
      BY <2>1, <2>2 DEF Quiet, Awaiting
    <3>2. reference_state' # "Stopped" => ~reference_arch'.halted /\ ~reference_arch'.fault
      BY <2>1
    <3> QED
      BY <2>1, <2>2, <2>4, <3>1, <3>2 DEF ReferenceInv
  <2> QED
    BY <2>6, <2>7
<1> QED
  BY <1>2, <1>3 DEF Awaiting

(* Every step of the three cores is, for the reference CPU, a step of the  *)
(* instruction set or none.                                                *)
LEMMA ReferenceStep ==
  ReferenceInv /\ [LockstepNext]_lockstepVars => ReferenceInv' /\ [Reference!IsaNext]_Reference!isaVars
<1> SUFFICES ASSUME ReferenceInv, [LockstepNext]_lockstepVars
             PROVE  ReferenceInv' /\ [Reference!IsaNext]_Reference!isaVars
  OBVIOUS
<1>1. CASE AllClock
  <2>1. ReferenceEdge /\ resets' = resets
    BY <1>1 DEF AllClock, ReferenceEdge, ClockEdge, EdgeAfter, EdgeWith
  <2>2. program' = program
    BY <2>1 DEF ReferenceEdge, ReferenceMemory!MemTick
  <2> QED
    BY <2>1, <2>2, QuietStep, RequestStep, AwaitStep DEF ReferenceInv, Reference!IsaNext
<1>2. CASE AllReset
  <2>1. /\ reference_arch' = Reference!ResetState /\ reference_retired' = <<>>
        /\ reference_state' = "IssueRequest" /\ ~reference_req_valid' /\ ~reference_rsp_ready'
        /\ resets' = resets + 1 /\ program' = program
        /\ refmem_state' = "AcceptingRequest" /\ refmem_rsp' = ReferenceMemory!NoResponse
    BY <1>2 DEF AllReset, ResetEdge, Reference!reset_state, ReferenceMemory!reset_protocol
  <2>2. resets' \in Nat /\ resets' # resets
    BY <2>1 DEF ReferenceInv
  <2>3. Reference!IsaNext
    BY <2>1, <2>2 DEF Reference!IsaNext, Reference!Reset
  <2>4. DOMAIN reference_arch' = ArchFields /\ ~reference_arch'.halted /\ ~reference_arch'.fault
    BY <2>1 DEF Reference!ResetState, ArchFields
  <2>5. ReferenceInv'
    BY <2>1, <2>2, <2>4 DEF ReferenceInv, Quiet, ReferenceMemory!NoResponse
  <2> QED
    BY <2>3, <2>5
<1>3. CASE UNCHANGED lockstepVars
  <2>1. UNCHANGED <<program, resets, reference_arch, reference_retired, reference_state, reference_req_valid,
                    reference_req_addr, reference_rsp_ready, refmem_state, refmem_address, refmem_rsp>>
    BY <1>3 DEF lockstepVars, twinVars, vars, memoryVars
  <2>2. ReferenceInv'
    BY <2>1 DEF ReferenceInv, Quiet, Requesting, Awaiting, ReferenceMemory!ReadWord
  <2> QED
    BY <2>1, <2>2 DEF Reference!isaVars
<1> QED
  BY <1>1, <1>2, <1>3 DEF LockstepNext

(* The three cores start with the reference CPU at rest.                   *)
LEMMA ReferenceStart == LockstepInit => ReferenceInv /\ Reference!IsaInit
<1> SUFFICES ASSUME LockstepInit PROVE ReferenceInv /\ Reference!IsaInit
  OBVIOUS
<1>1. /\ Reference!IsaInit /\ resets = 0 /\ reference_state = "IssueRequest"
      /\ ~reference_req_valid /\ ~reference_rsp_ready
      /\ refmem_state = "AcceptingRequest" /\ refmem_rsp = ReferenceMemory!NoResponse
  BY DEF LockstepInit, Init, Reference!ReferenceInit, ReferenceMemory!MemInit
<1>2. DOMAIN reference_arch = ArchFields /\ ~reference_arch.halted /\ ~reference_arch.fault
  BY <1>1 DEF Reference!IsaInit, Reference!ResetState, ArchFields
<1> QED
  BY <1>1, <1>2 DEF ReferenceInv, Quiet, ReferenceMemory!NoResponse

(* Whatever the timing of its memory, and whenever the interrupt line      *)
(* moves, the reference CPU (rv32im_reference_cpu.cpp:110-175) implements  *)
(* the instruction set that the core is proved to implement: the machine   *)
(* of its own requests, waits and answers adds nothing to it.              *)
THEOREM ReferenceImplementsIsa == LockstepSpec => ReferenceImplemented
<1>1. LockstepInit => ReferenceInv /\ Reference!IsaInit
  BY ReferenceStart
<1>2. ReferenceInv /\ [LockstepNext]_lockstepVars => ReferenceInv' /\ [Reference!IsaNext]_Reference!isaVars
  BY ReferenceStep
<1> QED
  BY <1>1, <1>2, PTL DEF LockstepSpec, ReferenceImplemented, Reference!ReferenceImplemented, Reference!IsaSpec
=============================================================================
