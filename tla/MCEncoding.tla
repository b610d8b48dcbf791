----------------------------- MODULE MCEncoding -----------------------------
(***************************************************************************)
(* Every instruction once, CSR instructions with every register and one    *)
(* that does not exist.  Words that differ from these in two bits reach    *)
(* the reserved codes next to them.                                        *)
(***************************************************************************)
EXTENDS Encoding

(* A number at a position, and a word put together from its fields.        *)
Bits(n, at) == {at + b : b \in {c \in 0 .. 11 : Bit(n, c) = 1}}
Encoded(opcode, rd, f3, rs1, top) ==
  Bits(opcode, 0) \cup Bits(rd, 7) \cup Bits(f3, 12) \cup Bits(rs1, 15) \cup Bits(top, 20)

Instructions ==
  {Encoded(\h13, 1, f3, 2, \h005) : f3 \in 0 .. 7} \cup {Encoded(\h13, 1, 5, 2, \h405)}
    \cup {Encoded(\h33, 1, f3, 2, 32 * f7 + 3) : f3 \in 0 .. 7, f7 \in {0, 1}}
    \cup {Encoded(\h33, 1, f3, 2, \h403) : f3 \in {0, 5}}
    \cup {Encoded(\h63, 8, f3, 2, 3) : f3 \in 0 .. 7}
    \cup {Encoded(\h73, 1, f3, rs1, csr) :
            f3 \in 1 .. 7, rs1 \in {0, 2}, csr \in CsrAt \cup {\h306}}
    \cup {ECALL, EBREAK, MRET}
=============================================================================
