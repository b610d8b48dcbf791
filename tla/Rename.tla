------------------------------- MODULE Rename ------------------------------
(***************************************************************************)
(* Register renaming of the out-of-order cores (control/rename_control.sv  *)
(* and control/free_list.sv): every instruction that writes a register is  *)
(* given a free physical one at dispatch; the physical register its        *)
(* destination had before is released when it retires.  A recovery returns *)
(* to the committed map, and every register outside it becomes free.       *)
(***************************************************************************)
EXTENDS Tiny5

VARIABLES speculative_map, committed_map,   \* architectural -> physical register
          ready_q,                          \* physical -> its value has been written
          free_q                            \* the free physical registers

renameVars == <<speculative_map, committed_map, ready_q, free_q>>

(* The lowest two free registers are offered (free_list.sv:12-23).         *)
Lowest(S) == CHOOSE r \in S : \A s \in S : r <= s
Offered == free_q \ {0}
free_register(k) == IF k = 0 THEN Lowest(Offered) ELSE Lowest(Offered \ {Lowest(Offered)})
free_available == OneOrTwo(Cardinality(Offered))

(* Dispatch allocates for an instruction that writes a register and is not *)
(* terminal or serial; those two also end the bundle.                      *)
EndsBundle(d) == d.terminal \/ d.serial
Allocates(d) == ~EndsBundle(d) /\ d.rd # 0

rename_allow_count(decoded, offer_count) ==
  LET Room(n) == free_available >= n
      need1 == IF Allocates(decoded[1]) THEN 1 ELSE 0
      need2 == need1 + (IF Allocates(decoded[2]) THEN 1 ELSE 0)
  IN IF offer_count = 0 \/ ~Room(need1) THEN 0
     ELSE IF offer_count = 1 \/ EndsBundle(decoded[1]) \/ ~Room(need2) THEN 1
     ELSE 2

(* An instruction renamed under a map and ready bits; registers gives the  *)
(* values of the physical registers, pdst its destination.                 *)
Renamed(d, tag, map, ready, pdst, registers) ==
  LET Operand(r) == [ready |-> ready[map[r]], tag |-> map[r], value |-> registers[map[r]]]
  IN [op |-> d.op, branch_offset |-> d.immediate,
      meta |-> [pc |-> d.pc, rd |-> d.rd, tag |-> tag,
                pdst |-> IF Allocates(d) THEN pdst ELSE 0,
                old_pdst |-> IF Allocates(d) THEN map[d.rd] ELSE 0],
      a |-> Operand(d.rs1),
      b |-> IF d.immediate_b THEN [ready |-> TRUE, tag |-> 0, value |-> d.immediate]
            ELSE Operand(d.rs2)]

(* The instructions of a bundle of n, renamed; the second under the map    *)
(* and ready bits the first leaves.                                        *)
rename_prepared(decoded, n, tag, registers) ==
  LET p0 == free_register(0)
      d1 == decoded[1]
      first == Renamed(d1, tag[0], speculative_map, ready_q, p0, registers)
      map == IF Allocates(d1) THEN [speculative_map EXCEPT ![d1.rd] = p0] ELSE speculative_map
      ready == IF Allocates(d1) THEN [ready_q EXCEPT ![p0] = FALSE] ELSE ready_q
      p1 == IF Allocates(d1) THEN free_register(1) ELSE p0
  IN IF n = 0 THEN <<>>
     ELSE IF n = 1 THEN <<first>>
     ELSE <<first, Renamed(decoded[2], tag[1], map, ready, p1, registers)>>

RenameInit ==
  /\ speculative_map = [r \in Arch |-> r] /\ committed_map = [r \in Arch |-> r]
  /\ ready_q = [p \in Phys |-> TRUE]
  /\ free_q = Phys \ Arch

RenameReset_keeps_free ==
  /\ speculative_map' = [r \in Arch |-> r] /\ committed_map' = [r \in Arch |-> r]
  /\ ready_q' = [p \in Phys |-> TRUE] /\ UNCHANGED free_q
RenameReset ==
  /\ speculative_map' = [r \in Arch |-> r] /\ committed_map' = [r \in Arch |-> r]
  /\ ready_q' = [p \in Phys |-> TRUE] /\ free_q' = Phys \ Arch

(* The maps after the bundle and after the retirements; in both sequences  *)
(* the younger instruction wins.                                           *)
Remapped_older_wins(map, metas) ==
  [r \in Arch |->
     LET writers == {i \in DOMAIN metas : metas[i].rd = r}
     IN IF r = 0 \/ writers = {} THEN map[r]
        ELSE metas[CHOOSE i \in writers : \A j \in writers : i <= j].pdst]
Remapped(map, metas) ==
  [r \in Arch |->
     LET writers == {i \in DOMAIN metas : metas[i].rd = r}
     IN IF r = 0 \/ writers = {} THEN map[r]
        ELSE metas[CHOOSE i \in writers : \A j \in writers : j <= i].pdst]

(* Ready bits after a bundle that allocated some registers and results     *)
(* that wrote others.                                                      *)
ReadyAfter_uncleared(allocated, written) == [p \in Phys |-> ready_q[p] \/ p \in written]
ReadyAfter(allocated, written) ==
  [p \in Phys |-> p \notin allocated /\ (ready_q[p] \/ p \in written)]

(* The registers that instructions release as they retire.                 *)
Released_never(retiring) == {}
Released(retiring) ==
  {retiring[i].old_pdst : i \in {j \in DOMAIN retiring : retiring[j].rd # 0}} \ {0}

(* Map and free registers after a recovery.                                *)
RestoredMap_kept == speculative_map
RestoredMap == committed_map
RestoredFree == (Phys \ {0}) \ {committed_map[r] : r \in Arch}

(* dispatched, retiring: sequences of meta_t of the instructions that      *)
(* allocate and that leave (serial ones excluded); completions: results.   *)
RenameTick(restore, dispatched, completions, retiring) ==
  LET allocated == {dispatched[i].pdst : i \in DOMAIN dispatched} \ {0}
      written   == {r.meta.pdst : r \in {c \in completions : c.meta.rd # 0}}
  IN IF restore
     THEN /\ speculative_map' = RestoredMap /\ UNCHANGED committed_map
          /\ ready_q' = [p \in Phys |-> TRUE] /\ free_q' = RestoredFree
     ELSE /\ speculative_map' = Remapped(speculative_map, dispatched)
          /\ committed_map' = Remapped(committed_map, retiring)
          /\ ready_q' = ReadyAfter(allocated, written)
          /\ free_q' = (free_q \cup Released(retiring)) \ allocated
=============================================================================
