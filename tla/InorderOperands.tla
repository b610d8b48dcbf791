-------------------------- MODULE InorderOperands --------------------------
(***************************************************************************)
(* Operands of the in-order cores (control/inorder_operands.sv,            *)
(* control/operand_select.sv): no renaming; a register that an instruction *)
(* in flight will write is busy, its producer's tag is remembered, and no  *)
(* second writer is dispatched while it is.                                *)
(***************************************************************************)
EXTENDS Tiny5

VARIABLES busy,         \* the architectural registers with a writer in flight
          producer      \* register -> completion tag of its last writer

inorderVars == <<busy, producer>>

Ends(d) == d.terminal \/ d.serial
Reserves(d) == ~Ends(d) /\ d.rd # 0

(* The registers with a writer once an instruction is dispatched.          *)
BusyWith_forgotten(d) == busy
BusyWith(d) == IF Reserves(d) THEN busy \cup {d.rd} ELSE busy

inorder_allow_count(decoded, offer_count) ==
  LET Blocked(d, taken) == Reserves(d) /\ d.rd \in taken
  IN IF offer_count = 0 \/ Blocked(decoded[1], busy) THEN 0
     ELSE IF \/ offer_count = 1 \/ Ends(decoded[1])
             \/ Blocked(decoded[2], BusyWith(decoded[1])) THEN 1
     ELSE 2

WrittenBy_forgotten(d) == {}
WrittenBy(d) == IF ~d.terminal /\ d.rd # 0 THEN {d.rd} ELSE {}

(* operand_select: a register's value comes from the register file, or     *)
(* from its producer's completion entry once that is done; earlier names   *)
(* the registers written by the instruction before in the same bundle.     *)
SelectOperand(r, earlier, rob, registers) ==
  LET entry == rob[producer[r]]
      same_bundle == r \in earlier
      present == r \in busy \/ same_bundle
      ready == entry # Empty /\ entry.done /\ ~same_bundle
  IN IF r = 0 THEN [ready |-> TRUE, tag |-> 0, value |-> 0]
     ELSE [tag |-> r, ready |-> ~present \/ ready,
           value |-> IF ~present THEN registers[r] ELSE IF entry # Empty THEN entry.value ELSE 0]

InorderPrepared(d, tag, earlier, rob, registers) ==
  [op |-> d.op, branch_offset |-> d.immediate,
   meta |-> [pc |-> d.pc, rd |-> d.rd, tag |-> tag, pdst |-> d.rd, old_pdst |-> 0],
   a |-> SelectOperand(d.rs1, earlier, rob, registers),
   b |-> IF d.immediate_b THEN [ready |-> TRUE, tag |-> 0, value |-> d.immediate]
         ELSE SelectOperand(d.rs2, earlier, rob, registers)]

inorder_prepared(decoded, n, tag, rob, registers) ==
  [i \in 1 .. n |->
     InorderPrepared(decoded[i], tag[i - 1], IF i = 1 THEN {} ELSE WrittenBy(decoded[1]),
                     rob, registers)]

InorderInit == busy = {} /\ producer = [r \in Arch |-> 0]

BusyAfterFlush_kept == busy
BusyAfterFlush == {}

(* dispatched, retiring: sequences of meta_t, serial and terminal ones     *)
(* excluded.                                                               *)
InorderTick(flush, dispatched, retiring) ==
  LET writes(metas) == {metas[i].rd : i \in DOMAIN metas} \ {0}
      Last(r) == CHOOSE i \in DOMAIN dispatched :
                   dispatched[i].rd = r /\ \A j \in DOMAIN dispatched : dispatched[j].rd = r => j <= i
  IN IF flush THEN busy' = BusyAfterFlush /\ producer' = [r \in Arch |-> 0]
     ELSE /\ busy' = (busy \ writes(retiring)) \cup writes(dispatched)
          /\ producer' = [r \in Arch |-> IF r \in writes(dispatched)
                                         THEN dispatched[Last(r)].tag ELSE producer[r]]
=============================================================================
