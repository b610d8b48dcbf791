-------------------------- MODULE CoreTypesProofs ---------------------------
(***************************************************************************)
(* Proofs about the whole pipeline, for every configuration, every depth   *)
(* of its queues, every set of programs and every memory timing: the       *)
(* queues, the fetch path and the wires of an edge; then the types of      *)
(* every register; then the completion queue as a window of the program,   *)
(* and what each edge does to it.                                          *)
(***************************************************************************)
EXTENDS CoreProperties, SequenceTheorems, FiniteSetTheorems, WordProofs

(* A sequence, whatever its elements are.                                  *)
Listing(s) == s \in Seq({s[i] : i \in DOMAIN s})

(* Outside the window from head to tail every entry of the completion      *)
(* queue is invalid: a tag that is allocated again was left (see           *)
(* lib/completion_queue.sv:40-54).                                         *)
NothingOutside ==
  /\ DOMAIN rob = RobTag
  /\ \A t \in RobTag : rob[t] # Empty => (t - head) % RobDepth < count

(* The fetch path of the core, as module FetchMemory speaks of it.         *)
Path == INSTANCE FetchMemoryProofs WITH PcModulus <- WordModulus, pc <- fetch_pc, Nowhere <- Empty

(* The control bits of the fetch path; what they are about is left open.   *)
ChannelTypes ==
  /\ req_valid \in BOOLEAN /\ outstanding \in BOOLEAN /\ stopped \in BOOLEAN
  /\ redirect_pending \in BOOLEAN /\ out_valid \in BOOLEAN
  /\ mem_state \in Memory!MemState /\ mem_req_ready \in BOOLEAN
  /\ mem_rsp.valid \in BOOLEAN /\ "valid" \in DOMAIN mem_rsp
ChannelInv == ChannelTypes /\ Path!SingleRequest

(* A program ends once, and a core that has ended retires nothing          *)
(* (lib/core_pipeline.sv:268-272).                                         *)
OneEnd ==
  /\ halted \in BOOLEAN /\ fault \in BOOLEAN /\ ~(halted /\ fault)
  /\ halted \/ fault => retired = <<>>

(* The wires between retirement, recovery and the frontend, each as the    *)
(* code assigns it (lib/core_pipeline.sv:69-92,137-140,254).               *)
WiresHold(w) ==
  /\ w.trap = trap_wire
  /\ w.retiring = retire_count(hd0, hd1, w.trap.valid, retire_limit(hd0, hd1))
  /\ w.finishing = finish(hd0, w.trap.valid, Fetch!idle)
  /\ w.sys_retire = (w.retiring # 0 /\ hd0.serial)
  /\ w.mret_commit = (ENABLE_TRAPS /\ w.sys_retire /\ hd0.instruction.op = "MRET")
  /\ w.csr_commit = (ENABLE_TRAPS /\ w.sys_retire /\ ~(hd0.instruction.op = "MRET"))
  /\ w.recovered = retire_redirect(hd0, w.retiring, w.finishing)
  /\ w.backend_flush = (w.finishing \/ (w.trap.valid \/ w.mret_commit) \/ w.recovered.valid)
  /\ w.restore = recovers(w.recovered.valid, w.trap.valid \/ w.mret_commit)
  /\ w.wb_valid = {p \in Lane : wb[p] # Empty /\ ~w.backend_flush /\ ~halted /\ ~fault}
  /\ w.completions = {wb[p] : p \in w.wb_valid}
  /\ w.branch_fault = (\E r \in w.completions : r.branch.fault # FAULT_NONE)
  /\ w.branch = IF w.recovered.valid THEN w.recovered
                ELSE blocking_redirect(w.completions, w.finishing)
  /\ w.redirect = IF w.trap.valid THEN [valid |-> TRUE, pc |-> csr.mtvec]
                  ELSE IF w.mret_commit THEN [valid |-> TRUE, pc |-> csr.mepc]
                  ELSE w.branch
  /\ w.fetch_stop = \/ fetch_stopped \/ w.branch_fault
                    \/ \E i \in DOMAIN decoded : decoded[i].terminal

(* The inductive invariant.  The bounds need the frontend queues to be     *)
(* sequences: what dispatch offers is a length.                            *)
QueuesInv ==
  /\ QueuesBounded /\ NothingOutside
  /\ Listing(fifo_q) /\ Listing(if_q) /\ Listing(id_q)

-----------------------------------------------------------------------------
(* Sequences.                                                              *)
LEMMA SequencesAreListings ==
  ASSUME NEW S, NEW s \in Seq(S)
  PROVE  Listing(s) /\ Len(s) \in Nat /\ DOMAIN s = 1 .. Len(s)
<1>1. Len(s) \in Nat /\ s \in [1 .. Len(s) -> S] /\ DOMAIN s = 1 .. Len(s)
  BY LenProperties
<1>2. s \in [1 .. Len(s) -> {s[i] : i \in DOMAIN s}]
  BY <1>1
<1> QED
  BY <1>1, <1>2, SeqDef DEF Listing

(* A listing has a length and is defined from 1 to it.                     *)
LEMMA ListingLength ==
  ASSUME NEW s, Listing(s)
  PROVE  Len(s) \in Nat /\ DOMAIN s = 1 .. Len(s)
  BY LenProperties DEF Listing

(* The empty tuple is a listing of length zero.                            *)
LEMMA EmptyListing == Listing(<<>>) /\ Len(<<>>) = 0
  BY EmptySeq, SequencesAreListings

(* The beginning of a listing.                                             *)
LEMMA PrefixListing ==
  ASSUME NEW s, Listing(s), NEW n \in 0 .. Len(s)
  PROVE  Listing(SubSeq(s, 1, n)) /\ Len(SubSeq(s, 1, n)) = n
<1> DEFINE S == {s[i] : i \in DOMAIN s}
<1>1. Len(s) \in Nat /\ DOMAIN s = 1 .. Len(s)
  BY ListingLength
<1>2. \A i \in 1 .. n : s[i] \in S
  BY <1>1
<1> HIDE DEF S
<1>3. SubSeq(s, 1, n) \in Seq(S) /\ Len(SubSeq(s, 1, n)) = IF 1 <= n THEN n - 1 + 1 ELSE 0
  BY <1>1, <1>2, SubSeqProperties
<1>4. Listing(SubSeq(s, 1, n))
  BY <1>3, SequencesAreListings
<1>5. Len(SubSeq(s, 1, n)) = n
  BY <1>1, <1>3
<1> QED
  BY <1>4, <1>5

(* A queue that is popped and pushed within its capacity keeps its bound.  *)
LEMMA QueueStep ==
  ASSUME NEW D \in Nat, NEW q, Listing(q), Len(q) <= D,
         NEW push, Listing(push), Len(push) <= D - Len(q),
         NEW n \in 0 .. Len(q)
  PROVE  LET next == SubSeq(q, n + 1, Len(q)) \o push
         IN Listing(next) /\ Len(next) \in 0 .. D
<1> DEFINE S == {q[i] : i \in DOMAIN q} \cup {push[i] : i \in DOMAIN push}
           kept == SubSeq(q, n + 1, Len(q))
<1>1. Len(q) \in Nat /\ DOMAIN q = 1 .. Len(q) /\ Len(push) \in Nat
  BY ListingLength
<1>2. \A i \in n + 1 .. Len(q) : q[i] \in S
  BY <1>1
<1>3. kept \in Seq(S) /\ Len(kept) = IF n + 1 <= Len(q) THEN Len(q) - (n + 1) + 1 ELSE 0
  BY <1>1, <1>2, SubSeqProperties
<1>4. push \in Seq(S)
  BY SeqMonotonic DEF Listing
<1> HIDE DEF S, kept
<1>5. kept \o push \in Seq(S) /\ Len(kept \o push) = Len(kept) + Len(push)
  BY <1>3, <1>4, ConcatProperties
<1>6. Listing(kept \o push)
  BY <1>5, SequencesAreListings
<1>7. Len(kept) = Len(q) - n
  <2>1. Len(q) \in Nat /\ n \in Nat /\ n <= Len(q)
    BY <1>1
  <2>2. Len(kept) = IF n + 1 <= Len(q) THEN Len(q) - (n + 1) + 1 ELSE 0
    BY <1>3
  <2> QED
    BY <2>1, <2>2
<1>8. Len(kept \o push) \in 0 .. D
  BY <1>1, <1>5, <1>7
<1> QED
  BY <1>6, <1>8 DEF kept

-----------------------------------------------------------------------------
(* Tags: what is left of division where a tag is used again.               *)
LEMMA Distances ==
  ASSUME NEW t \in RobTag, NEW h \in RobTag
  PROVE  (t - h) % RobDepth = IF h <= t THEN t - h ELSE t - h + RobDepth
  BY Tiny5Assumption DEF RobTag

(* Advancing a pointer of the ring wraps at most once.                     *)
LEMMA Advances ==
  ASSUME NEW h \in RobTag, NEW n \in 0 .. RobDepth
  PROVE  /\ (h + n) % RobDepth = IF h + n < RobDepth THEN h + n ELSE h + n - RobDepth
         /\ (h + n) % RobDepth \in RobTag
  BY Tiny5Assumption DEF RobTag

-----------------------------------------------------------------------------
(* What each group of wires adds to those before it, which it keeps.       *)
Extends(b, a) == \A f \in DOMAIN a : f \in DOMAIN b /\ b[f] = a[f]

(* Adding wires to a record keeps those it has.                            *)
LEMMA JoinedExtends ==
  ASSUME NEW w, NEW more
  PROVE  DOMAIN Joined(w, more) = DOMAIN w \cup DOMAIN more /\ Extends(Joined(w, more), w)
  BY DEF Joined, Extends

(* The wires of a commit: a serial instruction that retires is an MRET or  *)
(* a CSR access (lib/core_pipeline.sv:84-86).                              *)
LEMMA CommitGroup ==
  ASSUME NEW w, DOMAIN w = {"trap", "retiring", "finishing"}
  PROVE  LET next == CommitWires(w)
         IN /\ DOMAIN next = DOMAIN w \cup {"sys_retire", "mret_commit", "csr_commit", "recovered"}
            /\ Extends(next, w)
            /\ next.sys_retire = (w.retiring # 0 /\ hd0.serial)
            /\ next.mret_commit = (ENABLE_TRAPS /\ w.retiring # 0 /\ hd0.serial
                                     /\ hd0.instruction.op = "MRET")
            /\ next.csr_commit = (ENABLE_TRAPS /\ w.retiring # 0 /\ hd0.serial
                                    /\ ~(hd0.instruction.op = "MRET"))
            /\ next.recovered = retire_redirect(hd0, w.retiring, w.finishing)
<1>1. /\ DOMAIN CommitWires(w) = DOMAIN w \cup {"sys_retire", "mret_commit", "csr_commit", "recovered"}
      /\ Extends(CommitWires(w), w)
  <2> DEFINE sys_retire == w.retiring # 0 /\ hd0.serial
             mret_commit == ENABLE_TRAPS /\ sys_retire /\ hd0.instruction.op = "MRET"
             csr_commit == ENABLE_TRAPS /\ sys_retire /\ ~(hd0.instruction.op = "MRET")
             recovered == retire_redirect(hd0, w.retiring, w.finishing)
             more == [sys_retire |-> sys_retire, mret_commit |-> mret_commit,
                      csr_commit |-> csr_commit, recovered |-> recovered]
  <2>1. CommitWires(w) = Joined(w, more)
    BY DEF CommitWires
  <2> HIDE DEF sys_retire, mret_commit, csr_commit, recovered
  <2>2. DOMAIN more = {"sys_retire", "mret_commit", "csr_commit", "recovered"}
    OBVIOUS
  <2> HIDE DEF more
  <2> QED
    BY <2>1, <2>2, JoinedExtends
<1>2. CommitWires(w).sys_retire = (w.retiring # 0 /\ hd0.serial)
  BY DEF CommitWires, Joined
<1>3. CommitWires(w).mret_commit = (ENABLE_TRAPS /\ w.retiring # 0 /\ hd0.serial
                                     /\ hd0.instruction.op = "MRET")
  BY DEF CommitWires, Joined
<1>4. CommitWires(w).csr_commit = (ENABLE_TRAPS /\ w.retiring # 0 /\ hd0.serial
                                    /\ ~(hd0.instruction.op = "MRET"))
  BY DEF CommitWires, Joined
<1>5. CommitWires(w).recovered = retire_redirect(hd0, w.retiring, w.finishing)
  BY DEF CommitWires, Joined
<1> QED
  BY <1>1, <1>2, <1>3, <1>4, <1>5

(* The back-end flush and the restore of the maps                          *)
(* (lib/core_pipeline.sv:89-90).                                           *)
LEMMA FlushGroup ==
  ASSUME NEW w, DOMAIN w \cap {"backend_flush", "restore"} = {}
  PROVE  LET next == FlushWires(w)
             system == w.trap.valid \/ w.mret_commit
         IN /\ DOMAIN next = DOMAIN w \cup {"backend_flush", "restore"} /\ Extends(next, w)
            /\ next.backend_flush = (w.finishing \/ system \/ w.recovered.valid)
            /\ next.restore = recovers(w.recovered.valid, system)
<1>1. DOMAIN FlushWires(w) = DOMAIN w \cup {"backend_flush", "restore"} /\ Extends(FlushWires(w), w)
  BY JoinedExtends DEF FlushWires
<1>2. "backend_flush" \notin DOMAIN w /\ "restore" \notin DOMAIN w
  OBVIOUS
<1>3. FlushWires(w).backend_flush = (w.finishing \/ (w.trap.valid \/ w.mret_commit) \/ w.recovered.valid)
  BY <1>2 DEF FlushWires, Joined
<1>4. FlushWires(w).restore = recovers(w.recovered.valid, w.trap.valid \/ w.mret_commit)
  BY <1>2 DEF FlushWires, Joined
<1> QED
  BY <1>1, <1>3, <1>4

(* The results written back on the edge: none when the back end is flushed *)
(* or the program has ended (lib/core_pipeline.sv:254).                    *)
LEMMA WritebackGroup ==
  ASSUME NEW w, DOMAIN w \cap {"wb_valid", "completions"} = {}
  PROVE  LET next == WritebackWires(w)
         IN /\ DOMAIN next = DOMAIN w \cup {"wb_valid", "completions"} /\ Extends(next, w)
            /\ next.wb_valid = {p \in Lane : wb[p] # Empty /\ ~w.backend_flush /\ ~halted /\ ~fault}
            /\ next.completions = {wb[p] : p \in next.wb_valid}
<1> DEFINE valid == {p \in Lane : wb[p] # Empty /\ ~w.backend_flush /\ ~halted /\ ~fault}
<1>1. DOMAIN WritebackWires(w) = DOMAIN w \cup {"wb_valid", "completions"} /\ Extends(WritebackWires(w), w)
  BY JoinedExtends DEF WritebackWires
<1>2. "wb_valid" \notin DOMAIN w /\ "completions" \notin DOMAIN w
  OBVIOUS
<1>3. WritebackWires(w) = Joined(w, [wb_valid |-> valid, completions |-> {wb[p] : p \in valid}])
  BY DEF WritebackWires
<1> HIDE DEF valid
<1>4. WritebackWires(w).wb_valid = valid /\ WritebackWires(w).completions = {wb[p] : p \in valid}
  BY <1>2, <1>3 DEF Joined
<1> QED
  BY <1>1, <1>4 DEF valid

(* The fault of a branch and the redirect of the branch policy             *)
(* (lib/core_pipeline.sv:91-92).                                           *)
LEMMA BranchGroup ==
  ASSUME NEW w, DOMAIN w \cap {"branch_fault", "branch"} = {}
  PROVE  LET next == BranchWires(w)
         IN /\ DOMAIN next = DOMAIN w \cup {"branch_fault", "branch"} /\ Extends(next, w)
            /\ next.branch_fault = (\E r \in w.completions : r.branch.fault # FAULT_NONE)
            /\ next.branch = IF w.recovered.valid THEN w.recovered
                             ELSE blocking_redirect(w.completions, w.finishing)
<1>1. DOMAIN BranchWires(w) = DOMAIN w \cup {"branch_fault", "branch"} /\ Extends(BranchWires(w), w)
  BY JoinedExtends DEF BranchWires
<1>2. "branch_fault" \notin DOMAIN w /\ "branch" \notin DOMAIN w
  OBVIOUS
<1>3. BranchWires(w).branch_fault = (\E r \in w.completions : r.branch.fault # FAULT_NONE)
  BY <1>2 DEF BranchWires, Joined
<1>4. BranchWires(w).branch = IF w.recovered.valid THEN w.recovered
                              ELSE blocking_redirect(w.completions, w.finishing)
  BY <1>2 DEF BranchWires, Joined
<1> QED
  BY <1>1, <1>3, <1>4

(* The redirect, a trap before an MRET before a branch, and the stop of    *)
(* the fetch unit (lib/core_pipeline.sv:87-88,137-138).                    *)
LEMMA RedirectGroup ==
  ASSUME NEW w, DOMAIN w \cap {"redirect", "fetch_stop"} = {}
  PROVE  LET next == RedirectWires(w)
         IN /\ Extends(next, w)
            /\ next.redirect = IF w.trap.valid THEN [valid |-> TRUE, pc |-> csr.mtvec]
                               ELSE IF w.mret_commit THEN [valid |-> TRUE, pc |-> csr.mepc]
                               ELSE w.branch
            /\ next.fetch_stop = (\/ fetch_stopped \/ w.branch_fault
                                  \/ \E i \in DOMAIN decoded : decoded[i].terminal)
<1>1. Extends(RedirectWires(w), w)
  BY JoinedExtends DEF RedirectWires
<1>2. "redirect" \notin DOMAIN w /\ "fetch_stop" \notin DOMAIN w
  OBVIOUS
<1>3. RedirectWires(w).redirect = IF w.trap.valid THEN [valid |-> TRUE, pc |-> csr.mtvec]
                                  ELSE IF w.mret_commit THEN [valid |-> TRUE, pc |-> csr.mepc]
                                  ELSE w.branch
  BY <1>2 DEF RedirectWires, Joined
<1>4. RedirectWires(w).fetch_stop = (\/ fetch_stopped \/ w.branch_fault
                                     \/ \E i \in DOMAIN decoded : decoded[i].terminal)
  BY <1>2 DEF RedirectWires, Joined
<1> QED
  BY <1>1, <1>3, <1>4

(* The recovery wires of an edge are those the code assigns.               *)
LEMMA Wires == WiresHold(RecoveryWires)
<1> DEFINE w1 == RetirementWires(trap_wire)
           w2 == CommitWires(w1)
           w3 == FlushWires(w2)
           w4 == WritebackWires(w3)
           w5 == BranchWires(w4)
           w6 == RedirectWires(w5)
<1>1. /\ DOMAIN w1 = {"trap", "retiring", "finishing"} /\ w1.trap = trap_wire
      /\ w1.retiring = retire_count(hd0, hd1, w1.trap.valid, retire_limit(hd0, hd1))
      /\ w1.finishing = finish(hd0, w1.trap.valid, Fetch!idle)
  BY DEF RetirementWires
<1> HIDE DEF w1
<1>2. /\ DOMAIN w2 = {"trap", "retiring", "finishing", "sys_retire", "mret_commit", "csr_commit", "recovered"}
      /\ w2.trap = w1.trap /\ w2.retiring = w1.retiring /\ w2.finishing = w1.finishing
      /\ w2.sys_retire = (w2.retiring # 0 /\ hd0.serial)
      /\ w2.mret_commit = (ENABLE_TRAPS /\ w2.sys_retire /\ hd0.instruction.op = "MRET")
      /\ w2.csr_commit = (ENABLE_TRAPS /\ w2.sys_retire /\ ~(hd0.instruction.op = "MRET"))
      /\ w2.recovered = retire_redirect(hd0, w2.retiring, w2.finishing)
  <2>1. /\ DOMAIN w2 = DOMAIN w1 \cup {"sys_retire", "mret_commit", "csr_commit", "recovered"}
        /\ Extends(w2, w1)
        /\ w2.sys_retire = (w1.retiring # 0 /\ hd0.serial)
        /\ w2.mret_commit = (ENABLE_TRAPS /\ w1.retiring # 0 /\ hd0.serial
                                 /\ hd0.instruction.op = "MRET")
        /\ w2.csr_commit = (ENABLE_TRAPS /\ w1.retiring # 0 /\ hd0.serial
                                /\ ~(hd0.instruction.op = "MRET"))
        /\ w2.recovered = retire_redirect(hd0, w1.retiring, w1.finishing)
    BY <1>1, CommitGroup
  <2> HIDE DEF w2
  <2>2. w2.trap = w1.trap /\ w2.retiring = w1.retiring /\ w2.finishing = w1.finishing
    BY <1>1, <2>1 DEF Extends
  <2>3. DOMAIN w2 = {"trap", "retiring", "finishing", "sys_retire", "mret_commit", "csr_commit", "recovered"}
    BY <1>1, <2>1
  <2> QED
    BY <2>1, <2>2, <2>3
<1> HIDE DEF w2
<1>3. /\ DOMAIN w3 = DOMAIN w2 \cup {"backend_flush", "restore"} /\ Extends(w3, w2)
      /\ w3.backend_flush = (w2.finishing \/ (w2.trap.valid \/ w2.mret_commit) \/ w2.recovered.valid)
      /\ w3.restore = recovers(w2.recovered.valid, w2.trap.valid \/ w2.mret_commit)
  <2>1. DOMAIN w2 \cap {"backend_flush", "restore"} = {}
    BY <1>2
  <2> QED
    BY <2>1, FlushGroup
<1> HIDE DEF w3
<1>4. /\ DOMAIN w4 = DOMAIN w3 \cup {"wb_valid", "completions"} /\ Extends(w4, w3)
      /\ w4.wb_valid = {p \in Lane : wb[p] # Empty /\ ~w3.backend_flush /\ ~halted /\ ~fault}
      /\ w4.completions = {wb[p] : p \in w4.wb_valid}
  <2>1. DOMAIN w3 \cap {"wb_valid", "completions"} = {}
    BY <1>2, <1>3
  <2> QED
    BY <2>1, WritebackGroup
<1> HIDE DEF w4
<1>5. /\ DOMAIN w5 = DOMAIN w4 \cup {"branch_fault", "branch"} /\ Extends(w5, w4)
      /\ w5.branch_fault = (\E r \in w4.completions : r.branch.fault # FAULT_NONE)
      /\ w5.branch = IF w4.recovered.valid THEN w4.recovered
                     ELSE blocking_redirect(w4.completions, w4.finishing)
  <2>1. DOMAIN w4 \cap {"branch_fault", "branch"} = {}
    BY <1>2, <1>3, <1>4
  <2> QED
    BY <2>1, BranchGroup
<1> HIDE DEF w5
<1>6. /\ Extends(w6, w5)
      /\ w6.redirect = IF w5.trap.valid THEN [valid |-> TRUE, pc |-> csr.mtvec]
                       ELSE IF w5.mret_commit THEN [valid |-> TRUE, pc |-> csr.mepc]
                       ELSE w5.branch
      /\ w6.fetch_stop = (\/ fetch_stopped \/ w5.branch_fault
                          \/ \E i \in DOMAIN decoded : decoded[i].terminal)
  <2>1. DOMAIN w5 \cap {"redirect", "fetch_stop"} = {}
    BY <1>2, <1>3, <1>4, <1>5
  <2> QED
    BY <2>1, RedirectGroup
<1>7. RecoveryWires = w6
  BY DEF RecoveryWires, w1, w2, w3, w4, w5
<1> HIDE DEF w6
<1>8. ASSUME NEW f \in DOMAIN w2
      PROVE  w3[f] = w2[f] /\ w4[f] = w2[f] /\ w5[f] = w2[f] /\ w6[f] = w2[f]
  BY <1>3, <1>4, <1>5, <1>6 DEF Extends
<1>9. ASSUME NEW f \in {"backend_flush", "restore"}
      PROVE  w4[f] = w3[f] /\ w5[f] = w3[f] /\ w6[f] = w3[f]
  BY <1>3, <1>4, <1>5, <1>6 DEF Extends
<1>10. w5.wb_valid = w4.wb_valid /\ w6.wb_valid = w4.wb_valid
       /\ w5.completions = w4.completions /\ w6.completions = w4.completions
  BY <1>4, <1>5, <1>6 DEF Extends
<1>11. w6.branch_fault = w5.branch_fault /\ w6.branch = w5.branch
  BY <1>5, <1>6 DEF Extends
<1>12. \A f \in {"trap", "retiring", "finishing", "sys_retire", "mret_commit", "csr_commit", "recovered"} :
         w3[f] = w2[f] /\ w4[f] = w2[f] /\ w5[f] = w2[f] /\ w6[f] = w2[f]
  BY <1>2, <1>8
<1>13. /\ w6.trap = w2.trap /\ w6.retiring = w2.retiring /\ w6.finishing = w2.finishing
       /\ w6.sys_retire = w2.sys_retire /\ w6.mret_commit = w2.mret_commit
       /\ w6.csr_commit = w2.csr_commit /\ w6.recovered = w2.recovered
       /\ w4.recovered = w2.recovered /\ w4.finishing = w2.finishing
       /\ w5.trap = w2.trap /\ w5.mret_commit = w2.mret_commit
  BY <1>12
<1>14. w6.backend_flush = w3.backend_flush /\ w6.restore = w3.restore
  BY <1>9
<1>15. /\ w6.trap = trap_wire
       /\ w6.retiring = retire_count(hd0, hd1, w6.trap.valid, retire_limit(hd0, hd1))
       /\ w6.finishing = finish(hd0, w6.trap.valid, Fetch!idle)
  BY <1>1, <1>2, <1>13
<1>16. /\ w6.sys_retire = (w6.retiring # 0 /\ hd0.serial)
       /\ w6.mret_commit = (ENABLE_TRAPS /\ w6.sys_retire /\ hd0.instruction.op = "MRET")
       /\ w6.csr_commit = (ENABLE_TRAPS /\ w6.sys_retire /\ ~(hd0.instruction.op = "MRET"))
       /\ w6.recovered = retire_redirect(hd0, w6.retiring, w6.finishing)
  BY <1>2, <1>13
<1>17. /\ w6.backend_flush = (w6.finishing \/ (w6.trap.valid \/ w6.mret_commit) \/ w6.recovered.valid)
       /\ w6.restore = recovers(w6.recovered.valid, w6.trap.valid \/ w6.mret_commit)
  BY <1>3, <1>13, <1>14
<1>18. /\ w6.wb_valid = {p \in Lane : wb[p] # Empty /\ ~w6.backend_flush /\ ~halted /\ ~fault}
       /\ w6.completions = {wb[p] : p \in w6.wb_valid}
  BY <1>4, <1>10, <1>14
<1>19. /\ w6.branch_fault = (\E r \in w6.completions : r.branch.fault # FAULT_NONE)
       /\ w6.branch = IF w6.recovered.valid THEN w6.recovered
                      ELSE blocking_redirect(w6.completions, w6.finishing)
  BY <1>5, <1>10, <1>11, <1>13
<1>20. /\ w6.redirect = IF w6.trap.valid THEN [valid |-> TRUE, pc |-> csr.mtvec]
                        ELSE IF w6.mret_commit THEN [valid |-> TRUE, pc |-> csr.mepc]
                        ELSE w6.branch
       /\ w6.fetch_stop = (\/ fetch_stopped \/ w6.branch_fault
                           \/ \E i \in DOMAIN decoded : decoded[i].terminal)
  BY <1>6, <1>11, <1>13
<1>21. WiresHold(w6)
  BY <1>15, <1>16, <1>17, <1>18, <1>19, <1>20 DEF WiresHold
<1> QED
  BY <1>7, <1>21

-----------------------------------------------------------------------------
(* No more retires than the completion queue holds.                        *)
LEMMA RetiringWire ==
  LET w == RecoveryWires
  IN /\ w.retiring = retire_count(hd0, hd1, trap_wire.valid, retire_limit(hd0, hd1))
     /\ w.finishing = finish(hd0, trap_wire.valid, Fetch!idle)
<1> DEFINE w == RecoveryWires
<1>1. WiresHold(w)
  BY Wires
<1> HIDE DEF w
<1>2. /\ w.retiring = retire_count(hd0, hd1, trap_wire.valid, retire_limit(hd0, hd1))
      /\ w.finishing = finish(hd0, trap_wire.valid, Fetch!idle)
  BY <1>1 DEF WiresHold
<1> QED
  BY <1>2 DEF w

(* At most two retire, and no more than are in the completion queue: an    *)
(* entry that is not there is not valid.                                   *)
LEMMA RetireWithin ==
  ASSUME QueuesBounded, NEW suppress
  PROVE  LET n == retire_count(hd0, hd1, suppress, retire_limit(hd0, hd1))
         IN n \in 0 .. 2 /\ n <= count
<1>1. count \in Nat
  BY Tiny5Assumption DEF QueuesBounded
<1>2. Done(hd0) => count > 0
  BY <1>1 DEF Done, hd0, head_data
<1>3. Done(hd1) => count > 1
  BY <1>1 DEF Done, hd1, head_data
<1> QED
  BY <1>1, <1>2, <1>3 DEF retire_count, MayRetire

-----------------------------------------------------------------------------
(* No more is dispatched than there is, and than the completion queue has  *)
(* room for.                                                               *)
LEMMA Allowed ==
  ASSUME NEW offer \in 0 .. 2
  PROVE  allow_count(offer) \in 0 .. offer
  BY DEF allow_count, rename_allow_count, inorder_allow_count

(* The issue queue offers room for none, one or two.                       *)
LEMMA IssueRoom == iq_capacity \in 0 .. 2
<1>1. FreeSlots(iq) \subseteq 0 .. IqDepth - 1
  BY DEF FreeSlots, Slot
<1>2. IsFiniteSet(0 .. IqDepth - 1)
  BY FS_Interval, Tiny5Assumption
<1>3. Cardinality(FreeSlots(iq)) \in Nat
  BY <1>1, <1>2, FS_Subset, FS_CardinalityType
<1> QED
  BY <1>3 DEF iq_capacity, OneOrTwo

(* Dispatch is offered no more than is decoded and no more than the        *)
(* completion queue has room for.                                          *)
LEMMA OfferWithin ==
  ASSUME QueuesBounded, NEW blocked
  PROVE  LET n == offer_count(blocked)
         IN n \in 0 .. 2 /\ n <= Len(id_q) /\ n <= RobDepth - count
<1> DEFINE available == IdDispatch!pop_available
           limit == dispatch_limit(dispatch_data)
<1>1. Len(id_q) \in 0 .. 2 /\ count \in 0 .. RobDepth /\ RobDepth \in Nat
  BY Tiny5Assumption DEF QueuesBounded
<1>2. available \in 0 .. 2 /\ available <= Len(id_q)
  BY <1>1 DEF IdDispatch!pop_available
<1>3. rob_capacity \in 0 .. 2 /\ rob_capacity <= RobDepth - count
  BY <1>1 DEF rob_capacity, OneOrTwo
<1>4. limit \in 0 .. 2
  BY DEF dispatch_limit
<1>5. ISSUE_WIDTH \in 1 .. 2
  BY ConfigurationAssumption
<1> HIDE DEF available, limit
<1> QED
  BY <1>1, <1>2, <1>3, <1>4, <1>5, IssueRoom DEF offer_count, Lower, available, limit

(* Dispatch takes no more than it is offered.                              *)
LEMMA DispatchWithin ==
  ASSUME QueuesBounded, NEW w
  PROVE  LET n == Dispatch(w).n
         IN n \in 0 .. 2 /\ n <= Len(id_q) /\ n <= RobDepth - count
<1> DEFINE offer == offer_count(terminal_enqueued \/ halted \/ fault \/ w.backend_flush
                                \/ w.branch.valid \/ w.branch_fault)
<1>1. offer \in 0 .. 2 /\ offer <= Len(id_q) /\ offer <= RobDepth - count
  BY OfferWithin
<1>2. Dispatch(w).n = allow_count(offer)
  BY DEF Dispatch, DispatchWires
<1> HIDE DEF offer
<1>3. allow_count(offer) \in 0 .. offer
  BY <1>1, Allowed
<1>4. Len(id_q) \in 0 .. 2 /\ count \in 0 .. RobDepth /\ RobDepth \in Nat
  BY Tiny5Assumption DEF QueuesBounded
<1> QED
  BY <1>1, <1>2, <1>3, <1>4

-----------------------------------------------------------------------------
(* The completion queue on an edge on which no more leaves than there is,  *)
(* and no more arrives than there is room for.                             *)
LEMMA CompletionStep ==
  ASSUME QueuesBounded, NothingOutside,
         NEW allocate, Listing(allocate), Len(allocate) \in 0 .. 2, Len(allocate) <= RobDepth - count,
         NEW n \in 0 .. 2, n <= count,
         NEW flush, NEW completions, CompletionTick(flush, allocate, completions, n)
  PROVE  /\ head' \in RobTag /\ count' \in 0 .. RobDepth /\ tail' = (head' + count') % RobDepth
         /\ NothingOutside'
<1> DEFINE a == Len(allocate)
<1>1. /\ head \in RobTag /\ tail \in RobTag /\ count \in 0 .. RobDepth /\ RobDepth \in Nat
      /\ tail = (head + count) % RobDepth /\ RobDepth >= 2
  BY Advances, Tiny5Assumption DEF QueuesBounded
<1>2. CASE flush
  <2>1. head' = 0 /\ tail' = 0 /\ count' = 0 /\ rob' = [t \in RobTag |-> Empty]
    BY <1>2 DEF CompletionTick
  <2>2. 0 \in RobTag /\ (0 + 0) % RobDepth = 0
    BY <1>1, Advances DEF RobTag
  <2> QED
    BY <1>1, <2>1, <2>2 DEF NothingOutside
<1>3. CASE ~flush
  <2>1. head' = (head + n) % RobDepth /\ tail' = (tail + a) % RobDepth
    BY <1>3 DEF CompletionTick
  <2>10. count' = count + a - n
    BY <1>3 DEF CompletionTick
  <2>11. head \in RobTag /\ tail \in RobTag /\ count \in 0 .. RobDepth /\ RobDepth \in Nat
    BY <1>1
  <2>2. a \in 0 .. 2 /\ a <= RobDepth - count /\ a \in 0 .. RobDepth /\ n \in 0 .. RobDepth
    BY <1>1
  <2> HIDE DEF a
  <2>3. count' \in 0 .. RobDepth
    BY <2>11, <2>10, <2>2
  <2>4. head' \in RobTag
        /\ head' = IF head + n < RobDepth THEN head + n ELSE head + n - RobDepth
    BY <1>1, <2>1, <2>2, Advances
  <2>5. tail = IF head + count < RobDepth THEN head + count ELSE head + count - RobDepth
    BY <1>1, Advances
  <2>6. tail' = IF tail + a < RobDepth THEN tail + a ELSE tail + a - RobDepth
    BY <1>1, <2>1, <2>2, Advances
  <2>7. tail' = (head' + count') % RobDepth
    <3> DEFINE end == (head' + count') % RobDepth
    <3>1. end = IF head' + count' < RobDepth THEN head' + count' ELSE head' + count' - RobDepth
      BY <2>3, <2>4, Advances
    <3> HIDE DEF end
    <3>2. tail' = end
      BY <2>11, <2>10, <2>2, <2>4, <2>5, <2>6, <3>1 DEF RobTag
    <3> QED
      BY <3>2 DEF end
  <2>8. DOMAIN rob' = RobTag
    BY <1>3 DEF CompletionTick
  <2>9. ASSUME NEW t \in RobTag, rob'[t] # Empty
        PROVE  (t - head') % RobDepth < count'
    <3>1. \/ \E p \in Lane : p < a /\ allocate_tag(p) = t
          \/ rob[t] # Empty /\ ~ \E p \in Lane : p < n /\ t = (head + p) % RobDepth
      BY <1>3, <2>9 DEF CompletionTick, a
    <3> DEFINE before == (t - head) % RobDepth
               after == (t - head') % RobDepth
    <3>2. /\ before = IF head <= t THEN t - head ELSE t - head + RobDepth
          /\ after = IF head' <= t THEN t - head' ELSE t - head' + RobDepth
      BY <2>11, <2>4, Distances
    <3>5. before < count \/ rob[t] = Empty
      BY DEF NothingOutside
    <3> HIDE DEF before, after
    <3>3. ASSUME \E p \in Lane : p < a /\ allocate_tag(p) = t
          PROVE  after < count'
      <4>1. PICK p \in Lane : p < a /\ allocate_tag(p) = t
        BY <3>3
      <4>2. p \in 0 .. RobDepth /\ p \in 0 .. 1
        BY <1>1 DEF Lane
      <4>3. t = IF tail + p < RobDepth THEN tail + p ELSE tail + p - RobDepth
        BY <1>1, <4>1, <4>2, Advances DEF allocate_tag
      <4> QED
        BY <2>11, <2>10, <2>2, <2>4, <2>5, <3>2, <4>1, <4>2, <4>3 DEF RobTag
    <3>4. ASSUME rob[t] # Empty, ~ \E p \in Lane : p < n /\ t = (head + p) % RobDepth
          PROVE  after < count'
      <4>1. \A p \in 0 .. 1 : (head + p) % RobDepth
                              = IF head + p < RobDepth THEN head + p ELSE head + p - RobDepth
        <5>1. \A p \in 0 .. 1 : p \in 0 .. RobDepth
          BY <1>1
        <5> QED
          BY <2>11, <5>1, Advances
      <4>2. \A p \in 0 .. 1 : p < n => t # IF head + p < RobDepth THEN head + p ELSE head + p - RobDepth
        BY <3>4, <4>1 DEF Lane
      <4>3. before >= n
        BY <2>11, <1>1, <3>2, <4>2 DEF RobTag
      <4> QED
        BY <2>11, <2>10, <2>2, <2>4, <3>2, <3>4, <3>5, <4>3 DEF RobTag
    <3>6. after < count'
      BY <3>1, <3>3, <3>4
    <3> QED
      BY <3>6 DEF after
  <2> QED
    BY <2>3, <2>4, <2>7, <2>8, <2>9 DEF NothingOutside
<1> QED
  BY <1>2, <1>3

-----------------------------------------------------------------------------
(* The frontend queues on an edge.                                         *)
LEMMA FrontQueuesStep ==
  ASSUME QueuesInv, NEW w, NEW d, d.n \in 0 .. 2, d.n <= Len(id_q), FrontEdge(w, d)
  PROVE  /\ Listing(fifo_q') /\ Len(fifo_q') \in 0 .. FifoDepth
         /\ Listing(if_q') /\ Len(if_q') \in 0 .. 2
         /\ Listing(id_q') /\ Len(id_q') \in 0 .. 2
<1> DEFINE flush == \/ d.terminal \/ w.finishing \/ w.branch.valid \/ w.branch_fault
                    \/ w.trap.valid \/ w.mret_commit
           fetched == IF out_valid /\ ~terminal_enqueued /\ fetched_ready THEN <<out_data>> ELSE <<>>
           fifo_pop == Lower(Fifo!pop_available, IfId!push_capacity)
           id_pop == Lower(IfId!pop_available, IdDispatch!push_capacity)
           from_fifo == SubSeq(Fifo!pop_data, 1, fifo_pop)
           from_if == SubSeq(decoded, 1, id_pop)
<1>1. /\ Listing(fifo_q) /\ Len(fifo_q) \in 0 .. FifoDepth /\ FifoDepth \in Nat
      /\ Listing(if_q) /\ Len(if_q) \in 0 .. 2
      /\ Listing(id_q) /\ Len(id_q) \in 0 .. 2
  BY FifoAssumption DEF QueuesInv, QueuesBounded
<1> DEFINE in_fifo == Len(fifo_q)
           in_if == Len(if_q)
           in_id == Len(id_q)
<1>10. in_fifo \in Nat /\ in_fifo <= FifoDepth /\ in_if \in 0 .. 2 /\ in_id \in 0 .. 2
  BY <1>1
<1>2. /\ Fifo!QueueTick(flush, fetched, fifo_pop)
      /\ IfId!QueueTick(flush, from_fifo, id_pop)
      /\ IdDispatch!QueueTick(flush, from_if, d.n)
  BY DEF FrontEdge
<1>3. /\ fifo_pop \in 0 .. 2 /\ fifo_pop <= Fifo!pop_available /\ fifo_pop <= 2 - in_if
      /\ Fifo!pop_available \in 0 .. in_fifo
  <2>1. Fifo!pop_available = IF in_fifo >= 2 THEN 2 ELSE in_fifo
    BY DEF Fifo!pop_available
  <2>2. IfId!push_capacity = IF 2 - in_if >= 2 THEN 2 ELSE 2 - in_if
    BY DEF IfId!push_capacity
  <2> HIDE DEF in_fifo, in_if
  <2> QED
    BY <1>10, <2>1, <2>2 DEF Lower
<1>4. /\ id_pop \in 0 .. 2 /\ id_pop <= IfId!pop_available /\ id_pop <= 2 - in_id
      /\ IfId!pop_available \in 0 .. in_if
  <2>1. IfId!pop_available = IF in_if >= 2 THEN 2 ELSE in_if
    BY DEF IfId!pop_available
  <2>2. IdDispatch!push_capacity = IF 2 - in_id >= 2 THEN 2 ELSE 2 - in_id
    BY DEF IdDispatch!push_capacity
  <2> HIDE DEF in_if, in_id
  <2> QED
    BY <1>10, <2>1, <2>2 DEF Lower
<1>5. Listing(fetched) /\ Len(fetched) <= FifoDepth - Len(fifo_q)
  <2>1. CASE fetched = <<>>
    BY <1>1, <2>1, EmptyListing
  <2>2. CASE fetched = <<out_data>> /\ fetched_ready
    <3>1. <<out_data>> \in Seq({out_data}) /\ Len(<<out_data>>) = 1
      OBVIOUS
    <3>2. FifoDepth - Len(fifo_q) >= 1
      BY <1>1, <2>2 DEF fetched_ready, Fifo!push_capacity
    <3> QED
      BY <1>1, <2>2, <3>1, <3>2, SequencesAreListings
  <2> QED
    BY <2>1, <2>2
<1>6. Listing(from_fifo) /\ Len(from_fifo) = fifo_pop
  <2>1. Listing(Fifo!pop_data) /\ Len(Fifo!pop_data) = Fifo!pop_available
    BY <1>1, <1>3, PrefixListing DEF Fifo!pop_data
  <2> QED
    BY <1>3, <2>1, PrefixListing
<1>7. Listing(from_if) /\ Len(from_if) = id_pop
  <2>1. IfId!pop_available \in Nat
    BY <1>1, <1>4
  <2>2. Listing(decoded) /\ Len(decoded) = IfId!pop_available
    <3> DEFINE S == {rv32_decode(IfId!pop_data[i]) : i \in 1 .. IfId!pop_available}
    <3>1. decoded \in [1 .. IfId!pop_available -> S]
      BY DEF decoded
    <3> HIDE DEF S
    <3>2. decoded \in Seq(S) /\ Len(decoded) = IfId!pop_available
      BY <2>1, <3>1, SeqDef, LenProperties
    <3> QED
      BY <3>2, SequencesAreListings
  <2> QED
    BY <1>4, <2>1, <2>2, PrefixListing
<1> HIDE DEF flush, fetched, fifo_pop, id_pop, from_fifo, from_if
<1>8. CASE flush
  BY <1>1, <1>2, <1>8, EmptyListing DEF Fifo!QueueTick, IfId!QueueTick, IdDispatch!QueueTick
<1>9. CASE ~flush
  <2>1. /\ fifo_q' = SubSeq(fifo_q, fifo_pop + 1, Len(fifo_q)) \o fetched
        /\ if_q' = SubSeq(if_q, id_pop + 1, Len(if_q)) \o from_fifo
        /\ id_q' = SubSeq(id_q, d.n + 1, Len(id_q)) \o from_if
    BY <1>2, <1>9 DEF Fifo!QueueTick, IfId!QueueTick, IdDispatch!QueueTick
  <2>2. fifo_pop \in 0 .. Len(fifo_q) /\ id_pop \in 0 .. Len(if_q) /\ d.n \in 0 .. Len(id_q)
    BY <1>1, <1>3, <1>4
  <2>3. Listing(fifo_q') /\ Len(fifo_q') \in 0 .. FifoDepth
    BY <1>1, <1>5, <2>1, <2>2, QueueStep
  <2>4. Listing(if_q') /\ Len(if_q') \in 0 .. 2
    <3>1. Len(from_fifo) <= 2 - Len(if_q) /\ Len(if_q) <= 2
      BY <1>1, <1>3, <1>6
    <3> QED
      BY <1>1, <1>6, <2>1, <2>2, <3>1, QueueStep
  <2>5. Listing(id_q') /\ Len(id_q') \in 0 .. 2
    <3>1. Len(from_if) <= 2 - Len(id_q) /\ Len(id_q) <= 2
      BY <1>1, <1>4, <1>7
    <3> QED
      BY <1>1, <1>7, <2>1, <2>2, <3>1, QueueStep
  <2> QED
    BY <2>3, <2>4, <2>5
<1> QED
  BY <1>8, <1>9

-----------------------------------------------------------------------------
(* The invariant is inductive.                                             *)
LEMMA QueuesInvInit == Init => QueuesInv
<1> SUFFICES ASSUME Init PROVE QueuesInv
  OBVIOUS
<1>1. fifo_q = <<>> /\ if_q = <<>> /\ id_q = <<>>
  BY DEF Init, Fifo!QueueInit, IfId!QueueInit, IdDispatch!QueueInit
<1>2. rob = [t \in RobTag |-> Empty] /\ head = 0 /\ tail = 0 /\ count = 0
  BY DEF Init, CompletionInit
<1>3. 0 \in RobTag /\ (0 + 0) % RobDepth = 0
  BY Tiny5Assumption, Advances DEF RobTag
<1>4. QueuesBounded
  BY <1>1, <1>2, <1>3, EmptyListing, Tiny5Assumption, FifoAssumption DEF QueuesBounded
<1> QED
  BY <1>1, <1>2, <1>4, EmptyListing DEF QueuesInv, NothingOutside

(* A clock edge keeps every queue within its bounds.                       *)
LEMMA QueuesInvClock == QueuesInv /\ ClockEdge => QueuesInv'
<1> SUFFICES ASSUME QueuesInv, ClockEdge PROVE QueuesInv'
  OBVIOUS
<1> DEFINE w == RecoveryWires
           d == Dispatch(w)
           allocate == [i \in 1 .. d.n |-> AllocatedEntry(d.dispatched[i], d.prepared[i].meta)]
<1>1. QueuesBounded /\ NothingOutside
  BY DEF QueuesInv
<1>2. d.n \in 0 .. 2 /\ d.n <= Len(id_q) /\ d.n <= RobDepth - count
  BY <1>1, DispatchWithin
<1>3. w.retiring \in 0 .. 2 /\ w.retiring <= count
  BY <1>1, RetiringWire, RetireWithin
<1>4. FrontEdge(w, d) /\ CompletionTick(w.backend_flush, allocate, w.completions, w.retiring)
  BY DEF ClockEdge, EdgeAfter, EdgeWith, BackEdge
<1>5. Listing(allocate) /\ Len(allocate) = d.n
  <2> DEFINE S == {AllocatedEntry(d.dispatched[i], d.prepared[i].meta) : i \in 1 .. d.n}
  <2>1. allocate \in [1 .. d.n -> S]
    OBVIOUS
  <2> HIDE DEF S
  <2>2. allocate \in Seq(S) /\ Len(allocate) = d.n
    BY <1>2, <2>1, SeqDef, LenProperties
  <2> QED
    BY <2>2, SequencesAreListings
<1> HIDE DEF w, d, allocate
<1>6. /\ head' \in RobTag /\ count' \in 0 .. RobDepth /\ tail' = (head' + count') % RobDepth
      /\ NothingOutside'
  BY <1>1, <1>2, <1>3, <1>4, <1>5, CompletionStep
<1>7. /\ Listing(fifo_q') /\ Len(fifo_q') \in 0 .. FifoDepth
      /\ Listing(if_q') /\ Len(if_q') \in 0 .. 2
      /\ Listing(id_q') /\ Len(id_q') \in 0 .. 2
  BY <1>2, <1>4, FrontQueuesStep
<1> QED
  BY <1>6, <1>7 DEF QueuesInv, QueuesBounded, Listing

(* A reset leaves every queue empty.                                       *)
LEMMA QueuesInvReset == QueuesInv /\ ResetEdge => QueuesInv'
<1> SUFFICES ASSUME QueuesInv, ResetEdge PROVE QueuesInv'
  OBVIOUS
<1>1. fifo_q' = <<>> /\ if_q' = <<>> /\ id_q' = <<>>
  BY DEF ResetEdge, Fifo!QueueTick, IfId!QueueTick, IdDispatch!QueueTick
<1>2. rob' = [t \in RobTag |-> Empty] /\ head' = 0 /\ tail' = 0 /\ count' = 0
  BY DEF ResetEdge, CompletionTick
<1>3. 0 \in RobTag /\ (0 + 0) % RobDepth = 0
  BY Tiny5Assumption, Advances DEF RobTag
<1>4. QueuesBounded'
  BY <1>1, <1>2, <1>3, EmptyListing, Tiny5Assumption, FifoAssumption DEF QueuesBounded
<1>5. Listing(fifo_q') /\ Listing(if_q') /\ Listing(id_q')
  BY <1>1, EmptyListing
<1> QED
  BY <1>2, <1>4, <1>5 DEF QueuesInv, NothingOutside, Listing

(* A step that changes nothing keeps the queues as they are.               *)
LEMMA QueuesInvStutter == QueuesInv /\ UNCHANGED vars => QueuesInv'
  BY DEF QueuesInv, QueuesBounded, NothingOutside, Listing, vars, frontVars, robVars

(* No queue of the core overflows or is popped empty, and outside its      *)
(* window the completion queue holds nothing: the assertions of            *)
(* lib/packet_queue.sv:38-42 and lib/completion_queue.sv:56-58,64-66.      *)
THEOREM CoreQueues == Spec => [](QueuesBounded /\ NothingOutside)
<1>1. Init => QueuesInv
  BY QueuesInvInit
<1>2. QueuesInv /\ [Next]_vars => QueuesInv'
  BY QueuesInvClock, QueuesInvReset, QueuesInvStutter DEF Next
<1>3. QueuesInv => QueuesBounded /\ NothingOutside
  BY DEF QueuesInv
<1> QED
  BY <1>1, <1>2, <1>3, PTL DEF Spec

-----------------------------------------------------------------------------
(* An edge after the program has ended, and the one that ends it.          *)
LEMMA EndClock == OneEnd /\ ClockEdge => OneEnd'
<1> SUFFICES ASSUME OneEnd, ClockEdge PROVE OneEnd'
  OBVIOUS
<1> DEFINE w == RecoveryWires
           hd == [p \in Lane |-> EntryAt(p)]
           value == csr_old_value(w)
<1>1. RetireTick(hd, w.retiring, w.finishing, value)
  BY DEF ClockEdge, EdgeAfter, EdgeWith, SystemEdge
<1>2. /\ w.retiring = retire_count(hd0, hd1, trap_wire.valid, retire_limit(hd0, hd1))
      /\ w.finishing = finish(hd0, trap_wire.valid, Fetch!idle)
  BY RetiringWire
<1> HIDE DEF w, hd, value
<1>3. /\ halted' = IF w.finishing THEN hd[0].fault = FAULT_NONE ELSE halted
      /\ fault' = IF w.finishing THEN hd[0].fault # FAULT_NONE ELSE fault
      /\ w.retiring = 0 => retired' = <<>>
  BY <1>1 DEF RetireTick
<1>4. halted \/ fault => ~w.finishing /\ w.retiring = 0
  BY <1>2 DEF finish, retire_count, MayRetire
<1>5. w.finishing => w.retiring = 0
  BY <1>2 DEF finish, retire_count, MayRetire
<1>6. CASE w.finishing
  BY <1>3, <1>5, <1>6 DEF OneEnd
<1>7. CASE ~w.finishing
  BY <1>3, <1>4, <1>7 DEF OneEnd
<1> QED
  BY <1>6, <1>7

(* The core starts with its program not ended.                             *)
LEMMA OneEndInit == Init => OneEnd
  BY DEF Init, RetireInit, OneEnd

(* No step ends a program twice or retires after its end                   *)
(* (lib/retire_unit.sv).                                                   *)
LEMMA OneEndStep == OneEnd /\ [Next]_vars => OneEnd'
<1> SUFFICES ASSUME OneEnd, [Next]_vars PROVE OneEnd'
  OBVIOUS
<1>1. CASE ClockEdge
  BY <1>1, EndClock
<1>2. CASE ResetEdge
  BY <1>2 DEF ResetEdge, RetireReset, OneEnd
<1>3. CASE UNCHANGED vars
  BY <1>3 DEF vars, retireVars, OneEnd
<1> QED
  BY <1>1, <1>2, <1>3 DEF Next

(* A program ends once, normally or with a fault, nothing retires with the *)
(* end or after it, and only a reset takes it back: the assertions of      *)
(* lib/core_pipeline.sv:268-271, in every configuration.                   *)
THEOREM CoreEndsOnce == Spec => []OneEnd
  BY OneEndInit, OneEndStep, PTL DEF Spec

-----------------------------------------------------------------------------
(* The core as the environment of its fetch path: whatever a stop and a    *)
(* redirect are made of, they are wires of one bit.                        *)
LEMMA RedirectsAreBits ==
  /\ \A hd, n, f : retire_redirect(hd, n, f).valid \in BOOLEAN
  /\ \A c, f : blocking_redirect(c, f).valid \in BOOLEAN
  BY DEF retire_redirect, blocking_redirect, NoRedirect

(* The stop and the valid bit of the redirect are truth values, whatever   *)
(* the rest of the core holds.                                             *)
LEMMA StopAndRedirect ==
  RecoveryWires.fetch_stop \in BOOLEAN /\ RecoveryWires.redirect.valid \in BOOLEAN
<1> DEFINE w == RecoveryWires
<1>1. WiresHold(w)
  BY Wires
<1> HIDE DEF w
<1>2. w.recovered.valid \in BOOLEAN
  <2>1. w.recovered = retire_redirect(hd0, w.retiring, w.finishing)
    BY <1>1 DEF WiresHold
  <2> QED
    BY <2>1, RedirectsAreBits
<1>3. w.branch.valid \in BOOLEAN
  <2>1. w.branch = IF w.recovered.valid THEN w.recovered
                   ELSE blocking_redirect(w.completions, w.finishing)
    BY <1>1 DEF WiresHold
  <2>2. blocking_redirect(w.completions, w.finishing).valid \in BOOLEAN
    BY RedirectsAreBits
  <2> QED
    BY <1>2, <2>1, <2>2
<1>4. w.redirect = IF w.trap.valid THEN [valid |-> TRUE, pc |-> csr.mtvec]
                   ELSE IF w.mret_commit THEN [valid |-> TRUE, pc |-> csr.mepc]
                   ELSE w.branch
  BY <1>1 DEF WiresHold
<1>5. w.fetch_stop = \/ fetch_stopped \/ w.branch_fault
                     \/ \E i \in DOMAIN decoded : decoded[i].terminal
  BY <1>1 DEF WiresHold
<1>6. w.fetch_stop \in BOOLEAN
  BY <1>5
<1>7. w.redirect.valid \in BOOLEAN
  <2>1. CASE w.trap.valid
    BY <1>4, <2>1
  <2>2. CASE ~w.trap.valid /\ w.mret_commit
    BY <1>4, <2>2
  <2>3. CASE ~w.trap.valid /\ ~w.mret_commit
    BY <1>3, <1>4, <2>3
  <2> QED
    BY <2>1, <2>2, <2>3
<1> QED
  BY <1>6, <1>7 DEF w

-----------------------------------------------------------------------------
(* While a request is outstanding the fetched word's register is empty, so *)
(* ready does not depend on what else happens on the edge.                 *)
LEMMA ReadyIsOutstanding ==
  ASSUME ChannelInv, NEW stop, NEW redirect, NEW room
  PROVE  Fetch!rsp_ready(stop, redirect, room) <=> outstanding
  BY DEF ChannelInv, ChannelTypes, Path!SingleRequest, Fetch!rsp_ready, Fetch!draining

(* A clock edge keeps fetch unit and memory in agreement about the one     *)
(* request, and an answer shown is taken.                                  *)
LEMMA ChannelClock == ChannelInv /\ ClockEdge => ChannelInv' /\ (mem_rsp.valid => ~mem_rsp'.valid)
<1> SUFFICES ASSUME ChannelInv, ClockEdge
             PROVE  ChannelInv' /\ (mem_rsp.valid => ~mem_rsp'.valid)
  OBVIOUS
<1> DEFINE stop == RecoveryWires.fetch_stop
           redirect == RecoveryWires.redirect
           room == fetched_ready
           ready == Fetch!rsp_ready(stop, redirect, room)
<1>1. /\ Fetch!Tick(stop, redirect, mem_req_ready, mem_rsp, room)
      /\ Memory!MemTick(req_valid, req_addr, ready)
  BY DEF ClockEdge, EdgeAfter, EdgeWith, FrontEdge, rsp_ready_wire
<1>2. stop \in BOOLEAN /\ redirect.valid \in BOOLEAN
  BY StopAndRedirect
<1>3. ready <=> outstanding
  BY ReadyIsOutstanding
<1> HIDE DEF stop, redirect, room, ready
<1>4. /\ req_valid' \in BOOLEAN /\ outstanding' \in BOOLEAN /\ stopped' \in BOOLEAN
      /\ redirect_pending' \in BOOLEAN /\ out_valid' \in BOOLEAN
  BY <1>1 DEF Fetch!Tick, Fetch!RequestEdge
<1>5. CASE Memory!AcceptRequest(req_valid, req_addr)
  BY <1>1, <1>2, <1>3, <1>4, <1>5
  DEF Memory!AcceptRequest, Memory!Waited, Memory!MemState, Fetch!Tick, Fetch!RequestEdge,
      Fetch!draining, Fetch!issue, Fetch!rsp_ready, ready,
      ChannelInv, ChannelTypes, Path!SingleRequest
<1>6. CASE Memory!WaitForResponse
  BY <1>1, <1>2, <1>3, <1>4, <1>6
  DEF Memory!WaitForResponse, Memory!MemState, Fetch!Tick, Fetch!RequestEdge,
      Fetch!draining, Fetch!issue, Fetch!rsp_ready, ready,
      ChannelInv, ChannelTypes, Path!SingleRequest
<1>7. CASE Memory!HoldResponse(ready)
  BY <1>1, <1>2, <1>3, <1>4, <1>7
  DEF Memory!HoldResponse, Memory!MemState, Fetch!Tick, Fetch!RequestEdge,
      Fetch!draining, Fetch!issue, Fetch!rsp_ready, ready,
      ChannelInv, ChannelTypes, Path!SingleRequest
<1> QED
  BY <1>1, <1>5, <1>6, <1>7 DEF Memory!MemTick

(* A reset leaves no request on either side.                               *)
LEMMA ChannelReset == ChannelInv /\ ResetEdge => ChannelInv' /\ (mem_rsp.valid => ~mem_rsp'.valid)
<1> SUFFICES ASSUME ChannelInv, ResetEdge
             PROVE  ChannelInv' /\ (mem_rsp.valid => ~mem_rsp'.valid)
  OBVIOUS
<1>1. Fetch!Reset /\ Memory!reset_protocol
  BY DEF ResetEdge
<1> QED
  BY <1>1 DEF Fetch!Reset, Memory!reset_protocol, Memory!NoResponse, Memory!MemState,
              ChannelInv, ChannelTypes, Path!SingleRequest

(* Initially there is no request.                                          *)
LEMMA ChannelInvInit == Init => ChannelInv
<1> SUFFICES ASSUME Init PROVE ChannelInv
  OBVIOUS
<1>1. Fetch!Init /\ Memory!MemInit
  BY DEF Init
<1>2. /\ mem_state = "AcceptingRequest" /\ mem_rsp = Memory!NoResponse
      /\ mem_req_ready = (timing.request_wait_cycles = 0)
  BY <1>1 DEF Memory!MemInit
<1>3. mem_req_ready \in BOOLEAN
  <2>1. CASE timing.request_wait_cycles = 0
    BY <1>2, <2>1
  <2>2. CASE ~(timing.request_wait_cycles = 0)
    BY <1>2, <2>2
  <2> QED
    BY <2>1, <2>2
<1>4. /\ "valid" \in DOMAIN mem_rsp /\ mem_rsp.valid = FALSE
  BY <1>2 DEF Memory!NoResponse
<1>5. /\ req_valid = FALSE /\ outstanding = FALSE /\ out_valid = FALSE
      /\ stopped \in BOOLEAN /\ redirect_pending \in BOOLEAN
  BY <1>1 DEF Fetch!Init
<1> QED
  BY <1>2, <1>3, <1>4, <1>5
  DEF ChannelInv, ChannelTypes, Memory!MemState, Path!SingleRequest

(* A step that changes nothing keeps the channel as it is.                 *)
LEMMA ChannelStutter ==
  UNCHANGED vars => UNCHANGED Path!vars /\ (ChannelInv => ChannelInv')
  BY DEF vars, frontVars, memoryVars, Path!vars, Path!fetchVars, Path!memVars,
         ChannelInv, ChannelTypes, Path!SingleRequest

(* Every step keeps the agreement about the one request.                   *)
LEMMA ChannelInvStep == ChannelInv /\ [Next]_vars => ChannelInv'
  BY ChannelClock, ChannelReset, ChannelStutter DEF Next

(* In the core, of any configuration, at most one memory request exists,   *)
(* and while one does no fetched word waits (lib/fetch_unit.sv:22-23,41);  *)
(* so the core takes an answer whatever its pipeline and the interrupt     *)
(* line do.                                                                *)
THEOREM CoreSingleRequest == Spec => [](Path!SingleRequest /\ (imem_rsp_ready_wire <=> outstanding))
<1>1. Init => ChannelInv
  BY ChannelInvInit
<1>2. ChannelInv /\ [Next]_vars => ChannelInv'
  BY ChannelInvStep
<1>3. ChannelInv => Path!SingleRequest /\ (imem_rsp_ready_wire <=> outstanding)
  BY ReadyIsOutstanding DEF ChannelInv, imem_rsp_ready_wire, rsp_ready_wire
<1> QED
  BY <1>1, <1>2, <1>3, PTL DEF Spec

(* The core never makes the memory wait with an answer.                    *)
THEOREM CoreAnswerTaken == Spec => Path!AnswerTaken
<1>1. Init => ChannelInv
  BY ChannelInvInit
<1>2. ChannelInv /\ [Next]_vars => ChannelInv'
  BY ChannelInvStep
<1>3. ChannelInv /\ [Next]_vars => [mem_rsp.valid => ~mem_rsp'.valid]_(Path!vars)
  BY ChannelClock, ChannelReset, ChannelStutter DEF Next
<1> QED
  BY <1>1, <1>2, <1>3, PTL DEF Spec, Path!AnswerTaken

(* The core never withdraws or changes a request that the memory has not   *)
(* accepted, short of a reset (lib/fetch_unit.sv:72-73).                   *)
THEOREM CoreRequestStable == Spec => Path!RequestStable
<1> DEFINE Stable == (req_valid /\ ~mem_req_ready /\ ~Path!ResetEdge)
                       => (req_valid' /\ req_addr' = req_addr)
<1>1. ASSUME ClockEdge PROVE Stable
  <2> DEFINE stop == RecoveryWires.fetch_stop
             redirect == RecoveryWires.redirect
  <2>1. Fetch!RequestEdge(stop, redirect, mem_req_ready)
    BY <1>1 DEF ClockEdge, EdgeAfter, EdgeWith, FrontEdge, Fetch!Tick
  <2> HIDE DEF stop, redirect
  <2> QED
    BY <2>1 DEF Fetch!RequestEdge, Fetch!issue
<1>2. ASSUME ResetEdge PROVE Stable
  BY <1>2 DEF ResetEdge, Path!ResetEdge, Path!Reset, Path!reset_protocol, Path!NoResponse,
              Fetch!Reset, Memory!reset_protocol, Memory!NoResponse
<1>3. [Next]_vars => [Stable]_(Path!vars)
  BY <1>1, <1>2, ChannelStutter DEF Next
<1> QED
  BY <1>3, PTL DEF Spec, Path!RequestStable

-----------------------------------------------------------------------------
(* What the priority encoders and the schedulers choose.                   *)
LEMMA NotEmpty == \A n \in Nat : n # Empty
  BY EmptyAssumption

(* The lowest of some units is one of them, or Empty.                      *)
LEMMA LowestOfIs ==
  ASSUME NEW units \in SUBSET Unit
  PROVE  IF units = {} THEN LowestOf(units) = Empty ELSE LowestOf(units) \in units
<1>1. CASE units = {}
  BY <1>1 DEF LowestOf
<1>2. CASE units # {}
  <2>1. units \in SUBSET Nat
    BY DEF Unit
  <2>2. \E u \in units : \A v \in units : u <= v
    BY <1>2, <2>1, LeastNumber
  <2> QED
    BY <1>2, <2>2 DEF LowestOf
<1> QED
  BY <1>1, <1>2

(* The arbiter picks one of the units that have a result, if any has       *)
(* (lib/writeback_arbiter.sv).                                             *)
LEMMA FirstOfIs ==
  ASSUME next_q \in Unit, NEW units \in SUBSET Unit
  PROVE  IF units = {} THEN FirstOf(units) = Empty ELSE FirstOf(units) \in units
<1>1. CASE units = {}
  BY <1>1 DEF FirstOf
<1>2. CASE units # {}
  <2> DEFINE f == [u \in units |-> Rotation(u)]
  <2>1. f \in [units -> Nat]
    <3>1. \A u \in units : Rotation(u) \in Nat
      BY DEF Rotation, Unit
    <3> QED
      BY <3>1
  <2> HIDE DEF f
  <2>2. \E u \in units : \A v \in units : f[u] <= f[v]
    BY <1>2, <2>1, LeastBy
  <2>3. \E u \in units : \A v \in units : Rotation(u) <= Rotation(v)
    BY <2>2 DEF f
  <2> QED
    BY <1>2, <2>3 DEF FirstOf
<1> QED
  BY <1>1, <1>2

(* Each lane starts on a unit of its own that suits it, or does not start. *)
LEMMA StartedIs ==
  /\ DOMAIN Started = Lane
  /\ \A p \in Lane : Started[p] # Empty => Started[p] \in UnitsFor(p)
  /\ Started[0] # Empty => Started[1] # Started[0]
<1> DEFINE s0 == LowestOf(UnitsFor(0))
           s1 == LowestOf(UnitsFor(1) \ {s0})
<1>1. \A p \in Lane : UnitsFor(p) \subseteq Unit
  BY DEF UnitsFor
<1>2. UnitsFor(0) \in SUBSET Unit /\ UnitsFor(1) \ {s0} \in SUBSET Unit
  BY <1>1 DEF Lane
<1>3. Started = [p \in Lane |-> IF p = 0 THEN s0 ELSE s1]
  BY DEF Started
<1>4. s0 # Empty => s0 \in UnitsFor(0)
  BY <1>2, LowestOfIs
<1>5. s1 # Empty => s1 \in UnitsFor(1) \ {s0}
  <2> HIDE DEF s0
  <2> QED
    BY <1>2, LowestOfIs
<1> HIDE DEF s0, s1
<1> QED
  BY <1>3, <1>4, <1>5 DEF Lane

(* Each port takes the result of another unit, or none.                    *)
LEMMA GrantedIs ==
  ASSUME next_q \in Unit
  PROVE  /\ DOMAIN Granted = Lane
         /\ \A p \in Lane : Granted[p] # Empty => Granted[p] \in WaitingUnits
         /\ Granted[0] # Empty => Granted[1] # Granted[0]
<1> DEFINE g0 == FirstOf(WaitingUnits)
           g1 == FirstOf(WaitingUnits \ {g0})
<1>1. WaitingUnits \in SUBSET Unit /\ WaitingUnits \ {g0} \in SUBSET Unit
  BY DEF WaitingUnits
<1>2. Granted = [p \in Lane |-> IF p = 0 THEN g0 ELSE g1]
  BY DEF Granted
<1>3. g0 # Empty => g0 \in WaitingUnits
  BY <1>1, FirstOfIs
<1>4. g1 # Empty => g1 \in WaitingUnits \ {g0}
  <2> HIDE DEF g0
  <2> QED
    BY <1>1, FirstOfIs
<1> HIDE DEF g0, g1
<1> QED
  BY <1>2, <1>3, <1>4 DEF Lane

(* The scheduler's choice is a candidate, and none is older.               *)
LEMMA OldestIs ==
  ASSUME iq \in [Slot -> issue_t \cup {Empty}], head \in RobTag,
         NEW slots \in SUBSET Occupied, slots # {}
  PROVE  /\ Oldest(slots, head) \in slots
         /\ \A t \in slots : Age(Oldest(slots, head), head) <= Age(t, head)
<1> DEFINE f == [s \in slots |-> Age(s, head)]
<1>1. f \in [slots -> Nat]
  <2>1. ASSUME NEW s \in slots PROVE Age(s, head) \in Nat
    <3>1. iq[s] \in issue_t
      BY DEF Occupied
    <3> DEFINE t == iq[s].meta.tag
    <3>2. t \in RobTag
      BY <3>1 DEF issue_t, meta_t
    <3> HIDE DEF t
    <3>3. (t - head) % RobDepth \in Nat
      BY <3>2, Tiny5Assumption DEF RobTag
    <3> QED
      BY <3>3 DEF Age, t
  <2> QED
    BY <2>1
<1> HIDE DEF f
<1>2. \E s \in slots : \A t \in slots : f[s] <= f[t]
  BY <1>1, LeastBy
<1>3. \E s \in slots : \A t \in slots : Age(s, head) <= Age(t, head)
  BY <1>2 DEF f
<1> QED
  BY <1>3 DEF Oldest

(* Each lane issues another slot, whose operands are ready, or none.       *)
LEMMA ScheduledIs ==
  ASSUME iq \in [Slot -> issue_t \cup {Empty}], head \in RobTag, NEW ready, NEW available
  PROVE  LET chosen == Scheduled(ready, available, head)
         IN /\ DOMAIN chosen = Lane
            /\ \A p \in Lane : chosen[p] # Empty =>
                 chosen[p] \in Occupied /\ ready[p] /\ OperandsReady(chosen[p])
            /\ chosen[0] # Empty => chosen[1] # chosen[0]
<1> DEFINE ooo0 == OooChoice(0, Empty, ready, available, head)
           ooo1 == OooChoice(1, ooo0, ready, available, head)
           ino0 == InorderChoice(0, Empty, FALSE, ready, available, head)
           ino1 == InorderChoice(1, ino0, ready[0] /\ Occupied # {} /\ ino0 = Empty,
                                 ready, available, head)
           Fine(p, c) == c # Empty => c \in Occupied /\ ready[p] /\ OperandsReady(c)
<1>1. ASSUME NEW p \in Lane, NEW before
      PROVE  LET c == OooChoice(p, before, ready, available, head)
             IN Fine(p, c) /\ (before # Empty /\ c # Empty => c # before)
  <2> DEFINE able == {s \in Occupied : OperandsReady(s) /\ MulDivFree(s, available) /\ Unused(s, before)}
  <2>1. able \in SUBSET Occupied /\ \A s \in able : OperandsReady(s) /\ Unused(s, before)
    OBVIOUS
  <2>2. OooChoice(p, before, ready, available, head)
          = IF ready[p] /\ able # {} THEN Oldest(able, head) ELSE Empty
    BY DEF OooChoice
  <2> HIDE DEF able
  <2>3. able # {} => Oldest(able, head) \in able
    BY <2>1, OldestIs
  <2> QED
    BY <2>1, <2>2, <2>3 DEF Unused
<1>2. ASSUME NEW p \in Lane, NEW before, NEW blocked
      PROVE  LET c == InorderChoice(p, before, blocked, ready, available, head)
             IN Fine(p, c) /\ (before # Empty /\ c # Empty => c # before)
  <2> DEFINE rest == Occupied \ {before}
             oldest == Oldest(rest, head)
  <2>1. rest \in SUBSET Occupied /\ \A s \in rest : s # before
    OBVIOUS
  <2>2. LET c == InorderChoice(p, before, blocked, ready, available, head)
        IN c # Empty => c = oldest /\ rest # {} /\ ready[p] /\ OperandsReady(oldest)
    BY DEF InorderChoice
  <2>3. rest # {} => oldest \in rest
    BY <2>1, OldestIs
  <2> HIDE DEF rest, oldest
  <2> QED
    BY <2>1, <2>2, <2>3
<1>3. 0 \in Lane /\ 1 \in Lane
  BY DEF Lane
<1>4. /\ Fine(0, ooo0) /\ Fine(1, ooo1) /\ (ooo0 # Empty /\ ooo1 # Empty => ooo1 # ooo0)
  <2>1. Fine(0, ooo0)
    BY <1>1, <1>3
  <2> HIDE DEF ooo0
  <2> QED
    BY <1>1, <1>3, <2>1
<1>5. /\ Fine(0, ino0) /\ Fine(1, ino1) /\ (ino0 # Empty /\ ino1 # Empty => ino1 # ino0)
  <2>1. Fine(0, ino0)
    BY <1>2, <1>3
  <2> HIDE DEF ino0
  <2> QED
    BY <1>2, <1>3, <2>1
<1>6. Scheduled(ready, available, head)
        = IF OUT_OF_ORDER THEN [p \in Lane |-> IF p = 0 THEN ooo0 ELSE ooo1]
          ELSE [p \in Lane |-> IF p = 0 THEN ino0 ELSE ino1]
  BY DEF Scheduled
<1> HIDE DEF ooo0, ooo1, ino0, ino1
<1> DEFINE chosen == Scheduled(ready, available, head)
<1>7. DOMAIN chosen = Lane /\ Fine(0, chosen[0]) /\ Fine(1, chosen[1])
      /\ (chosen[0] # Empty /\ chosen[1] # Empty => chosen[1] # chosen[0])
  BY <1>3, <1>4, <1>5, <1>6
<1> HIDE DEF chosen
<1>8. chosen[0] # Empty => chosen[1] # chosen[0]
  BY <1>7
<1>9. \A p \in Lane : Fine(p, chosen[p])
  BY <1>7 DEF Lane
<1> QED
  BY <1>7, <1>8, <1>9 DEF chosen

-----------------------------------------------------------------------------
(* The frontend and the memory.                                            *)
LEMMA SmallWords == 0 .. 15 \subseteq Word /\ 0 \in Arch /\ Arch \subseteq Phys /\ 0 \in RobTag
<1>1. 0 .. 15 \subseteq Word
  BY WordSize DEF Word
<1>2. 0 \in Arch /\ Arch \subseteq Phys /\ 0 \in RobTag
  BY Tiny5Assumption DEF Arch, Phys, RobTag
<1> QED
  BY <1>1, <1>2

(* A word that ends the program decodes to a well-formed terminal packet.  *)
LEMMA TerminalType ==
  ASSUME NEW f \in fetch_t, NEW fault_of \in FaultCode, NEW cause \in 0 .. 15,
         fault_of = FAULT_ILLEGAL => f.instruction \in instruction_t
  PROVE  Terminal(f, fault_of, cause) \in decode_t
<1> DEFINE D == [pc : Word, instruction : instruction_t \cup {NoWord}, op : op_t,
                 rs1 : Arch, rs2 : Arch, rd : Arch, immediate : Word, immediate_b : BOOLEAN,
                 terminal : BOOLEAN, serial : BOOLEAN, fault : FaultCode, trap_cause : Word]
           t == Terminal(f, fault_of, cause)
<1>1. f.pc \in Word /\ f.instruction \in instruction_t \cup {NoWord}
  BY DEF fetch_t
<1>2. 0 \in Word /\ cause \in Word /\ 0 \in Arch
  BY SmallWords
<1>3. t \in D
  <2>1. t = [pc |-> f.pc, instruction |-> f.instruction, op |-> "ADD", rs1 |-> 0, rs2 |-> 0,
             rd |-> 0, immediate |-> 0, immediate_b |-> FALSE, terminal |-> TRUE,
             serial |-> FALSE, fault |-> fault_of, trap_cause |-> cause]
    BY DEF Terminal
  <2>2. "ADD" \in op_t
    BY DEF op_t, IntegerOps
  <2> HIDE DEF t
  <2> QED
    BY <1>1, <1>2, <2>1, <2>2
<1>4. t.terminal /\ ~t.serial /\ t.rd = 0 /\ t.op = "ADD" /\ t.fault = fault_of
      /\ t.instruction = f.instruction
  BY DEF Terminal
<1> HIDE DEF t, D
<1>5. t \in D /\ (t.terminal => ~t.serial /\ t.rd = 0 /\ t.op = "ADD")
      /\ (t.serial => ENABLE_TRAPS /\ t.op = "ADD" /\ t.instruction \in instruction_t)
      /\ (t.fault = FAULT_ILLEGAL => t.instruction \in instruction_t)
      /\ (~t.terminal => t.fault = FAULT_NONE)
  BY <1>3, <1>4
<1> QED
  BY <1>5 DEF decode_t, t, D

(* A legal word decodes to a well-formed packet.                           *)
LEMMA LegalType ==
  ASSUME NEW f \in fetch_t, f.status = "ok", legal(f.instruction)
  PROVE  Legal(f) \in decode_t
<1> DEFINE D == [pc : Word, instruction : instruction_t \cup {NoWord}, op : op_t,
                 rs1 : Arch, rs2 : Arch, rd : Arch, immediate : Word, immediate_b : BOOLEAN,
                 terminal : BOOLEAN, serial : BOOLEAN, fault : FaultCode, trap_cause : Word]
           i == f.instruction
           system == i.opcode = "SYSTEM"
           bare == i.op \in {"ECALL", "EBREAK", "MRET"}
           op == IF system THEN "ADD" ELSE i.op
           rs1 == IF bare THEN 0 ELSE i.rs1
           rs2 == IF i.opcode \in {"OP", "BRANCH"} THEN i.rs2 ELSE 0
           rd == IF bare \/ i.opcode = "BRANCH" THEN 0 ELSE i.rd
           fromimm == i.opcode = "OP-IMM"
           t == Legal(f)
<1>1. f.pc \in Word /\ i \in instruction_t
  BY DEF fetch_t
<1>2. op \in op_t /\ rs1 \in Arch /\ rs2 \in Arch /\ rd \in Arch /\ i.imm \in Word
  <2>1. /\ i.rs1 \in Arch /\ i.rs2 \in Arch /\ i.rd \in Arch
        /\ i.imm \in Word
    BY <1>1 DEF instruction_t
  <2>2. 0 \in Arch
    BY SmallWords
  <2> HIDE DEF i, system, bare
  <2>3. op \in op_t
    BY DEF legal, op_t, IntegerOps, i, system
  <2> QED
    BY <2>1, <2>2, <2>3
<1>3. t = [pc |-> f.pc, instruction |-> i, op |-> op, rs1 |-> rs1, rs2 |-> rs2, rd |-> rd,
           immediate |-> i.imm, immediate_b |-> fromimm, terminal |-> FALSE, serial |-> system,
           fault |-> FAULT_NONE, trap_cause |-> 0]
  BY DEF Legal
<1>4. system => ENABLE_TRAPS /\ op = "ADD"
  BY DEF legal
<1>5. 0 \in Word /\ FAULT_NONE \in FaultCode /\ system \in BOOLEAN /\ fromimm \in BOOLEAN
  BY SmallWords DEF FaultCode
<1> HIDE DEF system, op, rs1, rs2, rd, t, i, fromimm
<1>6. t \in D
  BY <1>1, <1>2, <1>3, <1>5
<1>7. /\ ~t.terminal /\ t.serial = system /\ t.op = op /\ t.instruction = i
      /\ t.fault = FAULT_NONE
  BY <1>3
<1> HIDE DEF D
<1>8. t \in D /\ (t.terminal => ~t.serial /\ t.rd = 0 /\ t.op = "ADD")
      /\ (t.serial => ENABLE_TRAPS /\ t.op = "ADD" /\ t.instruction \in instruction_t)
      /\ (t.fault = FAULT_ILLEGAL => t.instruction \in instruction_t)
      /\ (~t.terminal => t.fault = FAULT_NONE)
  BY <1>1, <1>4, <1>6, <1>7
<1> QED
  BY <1>8 DEF decode_t, D, t

(* Decoding yields a well-formed packet for every fetched word             *)
(* (lib/rv32_decode.sv).                                                   *)
LEMMA DecodeType ==
  ASSUME NEW f \in fetch_t
  PROVE  rv32_decode(f) \in decode_t
<1> DEFINE ok == f.status = "ok"
           op == f.instruction.op
           lawful == legal(f.instruction)
<1>1. f.status \in {"ok", "end", "access_fault"} /\ (ok => f.instruction \in instruction_t)
  BY DEF fetch_t
<1>2. {FAULT_NONE, FAULT_ACCESS, FAULT_ILLEGAL} \subseteq FaultCode
      /\ {0, CAUSE_INSTR_ACCESS, CAUSE_ILLEGAL, CAUSE_ECALL_M, CAUSE_BREAKPOINT} \subseteq 0 .. 15
      /\ FAULT_NONE # FAULT_ILLEGAL /\ FAULT_ACCESS # FAULT_ILLEGAL
  BY DEF FaultCode, FAULT_NONE, FAULT_ACCESS, FAULT_ILLEGAL, CAUSE_INSTR_ACCESS, CAUSE_ILLEGAL,
         CAUSE_ECALL_M, CAUSE_BREAKPOINT
<1>3. CASE f.status = "end"
  <2>1. rv32_decode(f) = Terminal(f, FAULT_NONE, 0)
    BY <1>3 DEF rv32_decode
  <2> QED
    BY <1>2, <2>1, TerminalType
<1>4. CASE f.status = "access_fault"
  <2>1. rv32_decode(f) = Terminal(f, FAULT_ACCESS, CAUSE_INSTR_ACCESS)
    BY <1>4 DEF rv32_decode
  <2> QED
    BY <1>2, <2>1, TerminalType
<1>5. CASE ok /\ ~lawful
  <2>1. rv32_decode(f) = Terminal(f, FAULT_ILLEGAL, CAUSE_ILLEGAL)
    BY <1>5 DEF rv32_decode
  <2> QED
    BY <1>1, <1>2, <1>5, <2>1, TerminalType
<1>6. CASE ok /\ lawful /\ op = "ECALL"
  <2>1. rv32_decode(f) = Terminal(f, FAULT_ILLEGAL, CAUSE_ECALL_M)
    BY <1>6 DEF rv32_decode
  <2> QED
    BY <1>1, <1>2, <1>6, <2>1, TerminalType
<1>7. CASE ok /\ lawful /\ op = "EBREAK"
  <2>1. rv32_decode(f) = Terminal(f, FAULT_ILLEGAL, CAUSE_BREAKPOINT)
    BY <1>7 DEF rv32_decode
  <2> QED
    BY <1>1, <1>2, <1>7, <2>1, TerminalType
<1>8. CASE ok /\ lawful /\ op # "ECALL" /\ op # "EBREAK"
  <2>1. rv32_decode(f) = Legal(f)
    BY <1>8 DEF rv32_decode
  <2> QED
    BY <1>8, <2>1, LegalType
<1> QED
  BY <1>1, <1>3, <1>4, <1>5, <1>6, <1>7, <1>8

(* Popping a prefix and pushing a sequence leaves a sequence over the same *)
(* set.                                                                    *)
LEMMA QueueTypes ==
  ASSUME NEW S, NEW q \in Seq(S), NEW push \in Seq(S), NEW n \in 0 .. Len(q)
  PROVE  SubSeq(q, n + 1, Len(q)) \o push \in Seq(S)
<1>1. Len(q) \in Nat /\ DOMAIN q = 1 .. Len(q) /\ q \in [1 .. Len(q) -> S]
  BY LenProperties
<1>2. \A i \in n + 1 .. Len(q) : q[i] \in S
  BY <1>1
<1>3. SubSeq(q, n + 1, Len(q)) \in Seq(S)
  BY <1>1, <1>2, SubSeqProperties
<1> QED
  BY <1>3, ConcatProperties

(* A prefix of a sequence has its elements.                                *)
LEMMA PrefixTypes ==
  ASSUME NEW S, NEW q \in Seq(S), NEW n \in 0 .. Len(q)
  PROVE  /\ SubSeq(q, 1, n) \in Seq(S) /\ Len(SubSeq(q, 1, n)) = n
         /\ \A i \in 1 .. n : SubSeq(q, 1, n)[i] = q[i] /\ q[i] \in S
<1>1. Len(q) \in Nat /\ DOMAIN q = 1 .. Len(q) /\ q \in [1 .. Len(q) -> S]
  BY LenProperties
<1>2. \A i \in 1 .. n : q[i] \in S
  BY <1>1
<1>3. /\ SubSeq(q, 1, n) \in Seq(S) /\ Len(SubSeq(q, 1, n)) = IF 1 <= n THEN n - 1 + 1 ELSE 0
      /\ \A i \in 1 .. n - 1 + 1 : SubSeq(q, 1, n)[i] = q[1 + i - 1]
  BY <1>1, <1>2, SubSeqProperties
<1>4. Len(SubSeq(q, 1, n)) = n
  BY <1>1, <1>3
<1>5. \A i \in 1 .. n : SubSeq(q, 1, n)[i] = q[i]
  <2>1. n \in Nat
    BY <1>1
  <2> SUFFICES ASSUME NEW i \in 1 .. n PROVE SubSeq(q, 1, n)[i] = q[i]
    OBVIOUS
  <2>2. i \in 1 .. n - 1 + 1 /\ 1 + i - 1 = i
    BY <2>1
  <2> QED
    BY <1>3, <2>2
<1> QED
  BY <1>2, <1>3, <1>4, <1>5

(* The fetch unit's next pc is a word.                                     *)
LEMMA NextPcType ==
  ASSUME NEW a \in Word
  PROVE  Fetch!NextPc(a) \in Word
<1>1. a + 4 \in Int
  BY WordSize DEF Word
<1> QED
  BY <1>1, Modulo DEF Fetch!NextPc

(* The fetch unit on an edge.                                              *)
LEMMA FetchTypesStep ==
  ASSUME FrontTypes, MemoryTypes,
         NEW stop \in BOOLEAN, NEW redirect, redirect.valid \in BOOLEAN,
         redirect.valid => redirect.pc \in Word,
         NEW room, Fetch!Tick(stop, redirect, mem_req_ready, mem_rsp, room)
  PROVE  /\ req_valid' \in BOOLEAN /\ outstanding' \in BOOLEAN /\ stopped' \in BOOLEAN
         /\ redirect_pending' \in BOOLEAN /\ out_valid' \in BOOLEAN
         /\ req_addr' \in Word /\ fetch_pc' \in Word /\ pending_pc' \in Word /\ restart_pc' \in Word
         /\ out_valid' => out_data' \in fetch_t
<1>1. Fetch!RequestEdge(stop, redirect, mem_req_ready)
  BY DEF Fetch!Tick
<1>2. /\ req_valid' \in BOOLEAN /\ outstanding' \in BOOLEAN /\ stopped' \in BOOLEAN
      /\ redirect_pending' \in BOOLEAN /\ out_valid' \in BOOLEAN
  BY DEF Fetch!Tick, Fetch!RequestEdge
<1>3. req_addr' \in Word /\ pending_pc' \in Word
  BY <1>1 DEF Fetch!RequestEdge, FrontTypes
<1>4. fetch_pc' \in Word
  <2>1. fetch_pc \in Word /\ restart_pc \in Word
    BY DEF FrontTypes
  <2>2. fetch_pc' \in {restart_pc, Fetch!NextPc(fetch_pc), fetch_pc}
    BY <1>1 DEF Fetch!RequestEdge
  <2> QED
    BY <2>1, <2>2, NextPcType
<1>5. restart_pc' \in Word
  BY DEF Fetch!Tick, FrontTypes
<1>6. out_valid' => out_data' \in fetch_t
  <2> DEFINE response == mem_rsp.valid /\ Fetch!rsp_ready(stop, redirect, room)
             deliver == response /\ ~Fetch!draining(stop, redirect)
             word == [pc |-> pending_pc, instruction |-> mem_rsp.data, status |-> mem_rsp.status]
  <2>1. /\ out_data' = IF deliver THEN word ELSE out_data
        /\ out_valid' => deliver \/ out_valid
    BY DEF Fetch!Tick
  <2>2. deliver => word \in fetch_t
    <3>1. pending_pc \in Word
      BY DEF FrontTypes
    <3>2. deliver => /\ mem_rsp.data \in instruction_t \cup {NoWord}
                     /\ mem_rsp.status \in {"ok", "end", "access_fault"}
                     /\ mem_rsp.status = "ok" => mem_rsp.data \in instruction_t
      BY DEF MemoryTypes
    <3> QED
      BY <3>1, <3>2 DEF fetch_t
  <2>3. out_valid => out_data \in fetch_t
    BY DEF FrontTypes
  <2> HIDE DEF deliver, word
  <2> QED
    BY <2>1, <2>2, <2>3
<1> QED
  BY <1>2, <1>3, <1>4, <1>5, <1>6

(* What the memory reads is a word of the program, or its end.             *)
LEMMA ReadWordType ==
  ASSUME program \in Seq(instruction_t), NEW a \in Word
  PROVE  LET word == Memory!ReadWord(a)
         IN /\ word.data \in instruction_t \cup {NoWord}
            /\ word.status \in {"ok", "end", "access_fault"}
            /\ word.status = "ok" => word.data \in instruction_t
<1> DEFINE size == Len(program)
<1>1. size \in Nat /\ DOMAIN program = 1 .. size /\ program \in [1 .. size -> instruction_t]
  BY LenProperties
<1>2. a \in Nat
  BY WordSize DEF Word
<1>3. CASE a % 4 # 0 \/ a > 4 * size
  BY <1>3 DEF Memory!ReadWord
<1>4. CASE ~(a % 4 # 0 \/ a > 4 * size) /\ a = 4 * size
  BY <1>4 DEF Memory!ReadWord
<1>5. CASE ~(a % 4 # 0 \/ a > 4 * size) /\ a # 4 * size
  <2> DEFINE i == a \div 4 + 1
  <2>1. i \in 1 .. size
    <3> HIDE DEF size
    <3> QED
      BY <1>1, <1>2, <1>5
  <2>2. Memory!ReadWord(a) = [data |-> program[i], status |-> "ok"]
    BY <1>5 DEF Memory!ReadWord
  <2> HIDE DEF i
  <2> QED
    BY <1>1, <2>1, <2>2
<1> QED
  BY <1>3, <1>4, <1>5

(* A tick of the memory keeps its state and its answer in their types.     *)
LEMMA MemoryTypesStep ==
  ASSUME MemoryTypes, NEW valid \in BOOLEAN, NEW address \in Word, NEW ready,
         Memory!MemTick(valid, address, ready)
  PROVE  MemoryTypes'
<1> DEFINE R == [valid : BOOLEAN, data : instruction_t \cup {NoWord},
                 status : {"ok", "end", "access_fault", "reserved"}]
           Good(r) == r.valid => /\ r.status \in {"ok", "end", "access_fault"}
                                 /\ r.status = "ok" => r.data \in instruction_t
<1>1. program' = program /\ program \in Seq(instruction_t)
  BY DEF MemoryTypes, Memory!MemTick
<1>2. mem_rsp \in R /\ Good(mem_rsp) /\ pending_address \in Word /\ mem_state \in Memory!MemState
  BY DEF MemoryTypes
<1>3. CASE Memory!AcceptRequest(valid, address)
  <2>1. mem_rsp' = [mem_rsp EXCEPT !.valid = FALSE]
    BY <1>3 DEF Memory!AcceptRequest
  <2>2. mem_rsp' \in R /\ Good(mem_rsp')
    BY <1>2, <2>1
  <2>3. pending_address' \in Word /\ mem_state' \in Memory!MemState
    BY <1>2, <1>3 DEF Memory!AcceptRequest, Memory!MemState
  <2>4. mem_req_ready' \in BOOLEAN
    BY <1>3 DEF Memory!AcceptRequest
  <2> QED
    BY <1>1, <2>2, <2>3, <2>4 DEF MemoryTypes
<1>4. CASE Memory!WaitForResponse
  <2> DEFINE word == Memory!ReadWord(pending_address)
             answer == Memory!latency_left = 0
             reply == [valid |-> TRUE, data |-> word.data, status |-> word.status]
  <2>1. /\ mem_rsp' = IF answer THEN reply ELSE mem_rsp
        /\ mem_req_ready' = FALSE /\ pending_address' = pending_address
        /\ mem_state' = IF answer THEN "HoldingResponse" ELSE mem_state
    BY <1>4 DEF Memory!WaitForResponse
  <2>2. /\ word.data \in instruction_t \cup {NoWord}
        /\ word.status \in {"ok", "end", "access_fault"}
        /\ word.status = "ok" => word.data \in instruction_t
    BY <1>1, <1>2, ReadWordType
  <2> HIDE DEF word, answer
  <2>3. reply \in R /\ Good(reply)
    BY <2>2
  <2>4. mem_rsp' \in R /\ Good(mem_rsp')
    <3> HIDE DEF reply, R
    <3> QED
      BY <1>2, <2>1, <2>3
  <2>5. mem_req_ready' \in BOOLEAN /\ pending_address' \in Word /\ mem_state' \in Memory!MemState
    BY <1>2, <2>1 DEF Memory!MemState
  <2> QED
    BY <1>1, <2>4, <2>5 DEF MemoryTypes
<1>5. CASE Memory!HoldResponse(ready)
  <2> DEFINE held == ~(mem_rsp.valid /\ ready) /\ mem_rsp.valid
  <2>1. mem_rsp' = [mem_rsp EXCEPT !.valid = held] /\ held \in BOOLEAN /\ (held => mem_rsp.valid)
    BY <1>2, <1>5 DEF Memory!HoldResponse
  <2> HIDE DEF held
  <2>2. mem_rsp' \in R /\ Good(mem_rsp')
    BY <1>2, <2>1
  <2>3. pending_address' \in Word /\ mem_state' \in Memory!MemState
    BY <1>2, <1>5 DEF Memory!HoldResponse, Memory!MemState
  <2>4. mem_req_ready' \in BOOLEAN
    BY <1>5 DEF Memory!HoldResponse
  <2> QED
    BY <1>1, <2>2, <2>3, <2>4 DEF MemoryTypes
<1> QED
  BY <1>3, <1>4, <1>5 DEF Memory!MemTick

(* What the frontend's queues hold they were given by the fetch unit, and  *)
(* by the decoder from then on.                                            *)
LEMMA QueuesCarry ==
  ASSUME QueuesInv, NEW F, NEW D, fifo_q \in Seq(F), if_q \in Seq(F), id_q \in Seq(D),
         out_valid => out_data \in F, \A x \in F : rv32_decode(x) \in D,
         NEW w, NEW d, d.n \in 0 .. 2, d.n <= Len(id_q), FrontEdge(w, d)
  PROVE  fifo_q' \in Seq(F) /\ if_q' \in Seq(F) /\ id_q' \in Seq(D)
<1> DEFINE flush == \/ d.terminal \/ w.finishing \/ w.branch.valid \/ w.branch_fault
                    \/ w.trap.valid \/ w.mret_commit
           fetched == IF out_valid /\ ~terminal_enqueued /\ fetched_ready THEN <<out_data>> ELSE <<>>
           fifo_pop == Lower(Fifo!pop_available, IfId!push_capacity)
           id_pop == Lower(IfId!pop_available, IdDispatch!push_capacity)
           from_fifo == SubSeq(Fifo!pop_data, 1, fifo_pop)
           from_if == SubSeq(decoded, 1, id_pop)
<1>1. /\ Fifo!QueueTick(flush, fetched, fifo_pop)
      /\ IfId!QueueTick(flush, from_fifo, id_pop)
      /\ IdDispatch!QueueTick(flush, from_if, d.n)
  BY DEF FrontEdge
<1>2. /\ fifo_pop \in 0 .. Len(fifo_q) /\ fifo_pop <= Fifo!pop_available
      /\ Fifo!pop_available \in 0 .. Len(fifo_q)
      /\ id_pop \in 0 .. Len(if_q) /\ id_pop <= IfId!pop_available
      /\ IfId!pop_available \in 0 .. Len(if_q) /\ d.n \in 0 .. Len(id_q)
  <2> DEFINE in_fifo == Len(fifo_q)
             in_if == Len(if_q)
             in_id == Len(id_q)
  <2>1. in_fifo \in Nat /\ in_if \in 0 .. 2 /\ in_id \in 0 .. 2
    BY FifoAssumption DEF QueuesInv, QueuesBounded
  <2>2. /\ Fifo!pop_available = IF in_fifo >= 2 THEN 2 ELSE in_fifo
        /\ IfId!pop_available = IF in_if >= 2 THEN 2 ELSE in_if
        /\ IfId!push_capacity = IF 2 - in_if >= 2 THEN 2 ELSE 2 - in_if
        /\ IdDispatch!push_capacity = IF 2 - in_id >= 2 THEN 2 ELSE 2 - in_id
    BY DEF Fifo!pop_available, IfId!pop_available, IfId!push_capacity, IdDispatch!push_capacity
  <2>3. d.n <= in_id
    OBVIOUS
  <2> HIDE DEF in_fifo, in_if, in_id
  <2>4. /\ fifo_pop \in 0 .. in_fifo /\ fifo_pop <= Fifo!pop_available
        /\ Fifo!pop_available \in 0 .. in_fifo
    BY <2>1, <2>2 DEF Lower
  <2>5. /\ id_pop \in 0 .. in_if /\ id_pop <= IfId!pop_available
        /\ IfId!pop_available \in 0 .. in_if
    BY <2>1, <2>2 DEF Lower
  <2>6. d.n \in 0 .. in_id
    BY <2>1, <2>3
  <2> QED
    BY <2>4, <2>5, <2>6 DEF in_fifo, in_if, in_id
<1>3. fetched \in Seq(F)
  <2>1. out_valid => <<out_data>> \in Seq(F)
    OBVIOUS
  <2> QED
    BY <2>1, EmptySeq
<1>4. from_fifo \in Seq(F)
  <2>1. Fifo!pop_data \in Seq(F) /\ Len(Fifo!pop_data) = Fifo!pop_available
    BY <1>2, PrefixTypes DEF Fifo!pop_data
  <2>2. fifo_pop \in 0 .. Len(Fifo!pop_data)
    BY <1>2, <2>1
  <2> QED
    BY <2>1, <2>2, PrefixTypes
<1>5. from_if \in Seq(D)
  <2> DEFINE n == IfId!pop_available
  <2>1. n \in Nat
    BY <1>2
  <2>2. \A i \in 1 .. n : IfId!pop_data[i] \in F
    BY <1>2, PrefixTypes DEF IfId!pop_data
  <2>3. \A i \in 1 .. n : rv32_decode(IfId!pop_data[i]) \in D
    BY <2>2
  <2>4. decoded \in [1 .. n -> D]
    BY <2>3 DEF decoded
  <2> HIDE DEF n
  <2>5. decoded \in Seq(D) /\ Len(decoded) = n
    BY <2>1, <2>4, SeqDef, LenProperties
  <2>6. id_pop \in 0 .. Len(decoded)
    BY <1>2, <2>5 DEF n
  <2> QED
    BY <2>5, <2>6, PrefixTypes
<1> HIDE DEF flush, fetched, fifo_pop, id_pop, from_fifo, from_if
<1>6. /\ fifo_q' \in {<<>>, SubSeq(fifo_q, fifo_pop + 1, Len(fifo_q)) \o fetched}
       /\ if_q' \in {<<>>, SubSeq(if_q, id_pop + 1, Len(if_q)) \o from_fifo}
       /\ id_q' \in {<<>>, SubSeq(id_q, d.n + 1, Len(id_q)) \o from_if}
  BY <1>1 DEF Fifo!QueueTick, IfId!QueueTick, IdDispatch!QueueTick
<1>7. fifo_q' \in Seq(F)
  <2>1. SubSeq(fifo_q, fifo_pop + 1, Len(fifo_q)) \o fetched \in Seq(F)
    BY <1>2, <1>3, QueueTypes
  <2>2. <<>> \in Seq(F)
    BY EmptySeq
  <2> QED
    BY <1>6, <2>1, <2>2
<1>8. if_q' \in Seq(F)
  <2>1. SubSeq(if_q, id_pop + 1, Len(if_q)) \o from_fifo \in Seq(F)
    BY <1>2, <1>4, QueueTypes
  <2>2. <<>> \in Seq(F)
    BY EmptySeq
  <2> QED
    BY <1>6, <2>1, <2>2
<1>9. id_q' \in Seq(D)
  <2>1. SubSeq(id_q, d.n + 1, Len(id_q)) \o from_if \in Seq(D)
    BY <1>2, <1>5, QueueTypes
  <2>2. <<>> \in Seq(D)
    BY EmptySeq
  <2> QED
    BY <1>6, <2>1, <2>2
<1> QED
  BY <1>7, <1>8, <1>9

(* The frontend as a whole.                                                *)
LEMMA FrontTypesStep ==
  ASSUME FrontTypes, MemoryTypes, QueuesInv,
         NEW w, w.fetch_stop \in BOOLEAN, w.redirect.valid \in BOOLEAN,
         w.redirect.valid => w.redirect.pc \in Word,
         NEW d, d.n \in 0 .. 2, d.n <= Len(id_q), FrontEdge(w, d)
  PROVE  /\ MemoryTypes'
         /\ req_valid' \in BOOLEAN /\ outstanding' \in BOOLEAN /\ stopped' \in BOOLEAN
         /\ redirect_pending' \in BOOLEAN /\ out_valid' \in BOOLEAN
         /\ req_addr' \in Word /\ fetch_pc' \in Word /\ pending_pc' \in Word /\ restart_pc' \in Word
         /\ out_valid' => out_data' \in fetch_t
         /\ fifo_q' \in Seq(fetch_t) /\ if_q' \in Seq(fetch_t) /\ id_q' \in Seq(decode_t)
         /\ fetch_stopped' \in BOOLEAN /\ terminal_enqueued' \in BOOLEAN
<1> DEFINE ready == rsp_ready_wire(w)
<1>1. /\ Fetch!Tick(w.fetch_stop, w.redirect, mem_req_ready, mem_rsp, fetched_ready)
      /\ Memory!MemTick(req_valid, req_addr, ready)
  BY DEF FrontEdge
<1>2. /\ fetch_stopped' = (~w.redirect.valid /\ (fetch_stopped \/ w.fetch_stop))
      /\ terminal_enqueued' = ( /\ ~w.redirect.valid
                                /\ terminal_enqueued \/ d.terminal \/ w.branch_fault)
  BY DEF FrontEdge
<1>3. fetch_stopped' \in BOOLEAN /\ terminal_enqueued' \in BOOLEAN
  BY <1>2
<1>4. MemoryTypes'
  <2> HIDE DEF ready
  <2> QED
    BY <1>1, MemoryTypesStep DEF FrontTypes
<1>5. /\ req_valid' \in BOOLEAN /\ outstanding' \in BOOLEAN /\ stopped' \in BOOLEAN
      /\ redirect_pending' \in BOOLEAN /\ out_valid' \in BOOLEAN
      /\ req_addr' \in Word /\ fetch_pc' \in Word /\ pending_pc' \in Word /\ restart_pc' \in Word
      /\ out_valid' => out_data' \in fetch_t
  BY <1>1, FetchTypesStep
<1>6. fifo_q' \in Seq(fetch_t) /\ if_q' \in Seq(fetch_t) /\ id_q' \in Seq(decode_t)
  BY QueuesCarry, DecodeType DEF FrontTypes
<1> QED
  BY <1>3, <1>4, <1>5, <1>6

-----------------------------------------------------------------------------
(* The wires of retirement and recovery.                                   *)
LEMMA HeadTypes ==
  ASSUME QueuesBounded, RetireTypes
  PROVE  /\ hd0 # Empty => hd0 \in rob_entry_t
         /\ hd1 # Empty => hd1 \in rob_entry_t
<1>1. ASSUME NEW p \in 0 .. 1 PROVE head_data(p) \in rob_entry_t \cup {Empty}
  <2>1. head \in RobTag /\ p \in 0 .. RobDepth
    BY Tiny5Assumption DEF QueuesBounded
  <2>2. (head + p) % RobDepth \in RobTag
    BY <2>1, Advances
  <2> QED
    BY <2>2 DEF head_data, RetireTypes
<1> QED
  BY <1>1 DEF hd0, hd1

(* What retires is done and does not end the program; two retire together  *)
(* only if neither is serial.                                              *)
LEMMA RetiringIs ==
  ASSUME QueuesBounded, NEW w, WiresHold(w)
  PROVE  /\ w.retiring \in 0 .. 2 /\ w.retiring <= count
         /\ w.retiring > 0 => /\ Done(hd0) /\ ~hd0.terminal /\ ~halted /\ ~fault
                              /\ ~w.trap.valid /\ ~w.finishing
         /\ w.retiring > 1 => Done(hd1) /\ ~hd1.terminal /\ ~hd1.serial /\ ~hd0.serial
         /\ w.finishing => Done(hd0) /\ hd0.terminal /\ ~halted /\ ~fault
<1>1. /\ w.retiring = retire_count(hd0, hd1, w.trap.valid, retire_limit(hd0, hd1))
      /\ w.finishing = finish(hd0, w.trap.valid, Fetch!idle)
  BY DEF WiresHold
<1>2. w.retiring \in 0 .. 2 /\ w.retiring <= count
  BY <1>1, RetireWithin
<1>3. w.retiring > 0 => Done(hd0) /\ ~hd0.terminal /\ ~halted /\ ~fault /\ ~w.trap.valid
  BY <1>1 DEF retire_count, MayRetire
<1>4. w.retiring > 1 => Done(hd1) /\ ~hd1.terminal /\ ~hd1.serial /\ ~hd0.serial
  BY <1>1 DEF retire_count
<1>5. w.finishing => Done(hd0) /\ hd0.terminal /\ ~halted /\ ~fault
  BY <1>1 DEF finish, MayRetire
<1> QED
  BY <1>2, <1>3, <1>4, <1>5

(* A trap occurs only in a core built with traps; its pc, cause and value  *)
(* are words.                                                              *)
LEMMA TrapTypes ==
  ASSUME QueuesBounded, RetireTypes, trap_wire.valid
  PROVE  /\ ENABLE_TRAPS
         /\ trap_wire.pc \in Word /\ trap_wire.cause \in Word /\ trap_wire.tval \in Word
<1>1. trap_taken
  BY DEF trap_wire, NoTrap
<1>2. ENABLE_TRAPS
  BY <1>1 DEF trap_taken, trap_exception, trap_interrupt
<1>3. /\ trap_wire.pc = IF trap_exception THEN hd0.meta.pc ELSE arch_next_pc
      /\ trap_wire.cause = trap_cause /\ trap_wire.tval = trap_tval
  BY <1>1 DEF trap_wire
<1>4. trap_exception => hd0 \in rob_entry_t /\ hd0.fault # FAULT_NONE
  BY HeadTypes DEF trap_exception, Done
<1>5. hd0 \in rob_entry_t =>
        /\ hd0.trap_cause \in Word /\ hd0.branch.target \in Word /\ hd0.meta.pc \in Word
        /\ hd0.fault = FAULT_ILLEGAL => hd0.instruction.bits \in Word
  <2> SUFFICES ASSUME hd0 \in rob_entry_t
               PROVE  /\ hd0.trap_cause \in Word /\ hd0.branch.target \in Word /\ hd0.meta.pc \in Word
                      /\ hd0.fault = FAULT_ILLEGAL => hd0.instruction.bits \in Word
    OBVIOUS
  <2>1. /\ hd0.trap_cause \in Word /\ hd0.branch \in branch_result_t /\ hd0.meta \in meta_t
        /\ hd0.fault = FAULT_ILLEGAL => hd0.instruction \in instruction_t
    BY DEF rob_entry_t
  <2> QED
    BY <2>1 DEF branch_result_t, meta_t, instruction_t
<1>6. trap_wire.pc \in Word
  BY <1>3, <1>4, <1>5 DEF RetireTypes
<1>7. ~trap_interrupt => trap_exception
  BY <1>1 DEF trap_taken
<1>8. trap_cause \in Word
  <2>1. CASE trap_interrupt
    <3>1. trap_cause = CAUSE_EXTERNAL
      BY <2>1 DEF trap_cause
    <3> QED
      BY <1>2, <3>1, InterruptCause
  <2>2. CASE ~trap_interrupt
    <3>1. hd0.trap_cause \in Word
      BY <1>4, <1>5, <1>7, <2>2
    <3>2. /\ CAUSE_INSTR_MISALIGNED \in Word /\ CAUSE_INSTR_ACCESS \in Word /\ CAUSE_ILLEGAL \in Word
      BY SmallWords DEF CAUSE_INSTR_MISALIGNED, CAUSE_INSTR_ACCESS, CAUSE_ILLEGAL
    <3>3. trap_cause \in {hd0.trap_cause, CAUSE_INSTR_MISALIGNED, CAUSE_INSTR_ACCESS, CAUSE_ILLEGAL}
      BY <2>2 DEF trap_cause
    <3> QED
      BY <3>1, <3>2, <3>3
  <2> QED
    BY <2>1, <2>2
<1>9. trap_tval \in Word
  <2>1. 0 \in Word
    BY SmallWords
  <2>2. CASE trap_interrupt
    BY <2>1, <2>2 DEF trap_tval
  <2>3. CASE ~trap_interrupt
    <3>1. /\ hd0.branch.target \in Word /\ hd0.meta.pc \in Word
          /\ hd0.fault = FAULT_ILLEGAL => hd0.instruction.bits \in Word
      BY <1>4, <1>5, <1>7, <2>3
    <3>2. \/ trap_tval \in {0, hd0.branch.target, hd0.meta.pc}
          \/ hd0.fault = FAULT_ILLEGAL /\ trap_tval = hd0.instruction.bits
      BY <2>3 DEF trap_tval
    <3> QED
      BY <2>1, <3>1, <3>2
  <2> QED
    BY <2>2, <2>3
<1> QED
  BY <1>2, <1>3, <1>6, <1>8, <1>9

(* What is written back are results of the writeback registers.            *)
LEMMA CompletionsTypes ==
  ASSUME ExecutionTypes, NEW w, WiresHold(w)
  PROVE  /\ w.wb_valid \subseteq Lane /\ \A p \in w.wb_valid : wb[p] \in result_t
         /\ w.completions \subseteq result_t /\ w.completions = {wb[p] : p \in w.wb_valid}
<1>1. /\ w.wb_valid = {p \in Lane : wb[p] # Empty /\ ~w.backend_flush /\ ~halted /\ ~fault}
      /\ w.completions = {wb[p] : p \in w.wb_valid}
  BY DEF WiresHold
<1>2. w.wb_valid \subseteq Lane /\ \A p \in w.wb_valid : wb[p] \in result_t
  BY <1>1 DEF ExecutionTypes
<1> QED
  BY <1>1, <1>2

(* A redirect goes to a word; stop, trap and branch wires are truth        *)
(* values.                                                                 *)
LEMMA RedirectTypes ==
  ASSUME QueuesBounded, RetireTypes, ExecutionTypes, NEW w, WiresHold(w)
  PROVE  /\ w.redirect.valid \in BOOLEAN
         /\ w.redirect.valid => w.redirect.pc \in Word
         /\ w.branch.valid \in BOOLEAN /\ w.recovered.valid \in BOOLEAN
         /\ w.fetch_stop \in BOOLEAN /\ w.trap.valid \in BOOLEAN
<1> DEFINE Good(r) == r.valid \in BOOLEAN /\ (r.valid => r.pc \in Word)
<1>1. w.completions \subseteq result_t
  BY CompletionsTypes
<1>2. Good(w.recovered)
  <2>1. w.recovered = retire_redirect(hd0, w.retiring, w.finishing)
    BY DEF WiresHold
  <2>2. TakenBranch(hd0) => hd0.branch.target \in Word
    <3>1. TakenBranch(hd0) => hd0 \in rob_entry_t
      BY HeadTypes DEF TakenBranch
    <3>2. hd0 \in rob_entry_t => hd0.branch \in branch_result_t
      BY DEF rob_entry_t
    <3>3. hd0.branch \in branch_result_t => hd0.branch.target \in Word
      BY DEF branch_result_t
    <3> QED
      BY <3>1, <3>2, <3>3
  <2> QED
    BY <2>1, <2>2 DEF retire_redirect, NoRedirect
<1>3. Good(blocking_redirect(w.completions, w.finishing))
  <2> DEFINE taken == {r \in Resolving(w.completions) : r.branch.taken}
             first == CHOOSE r \in taken : TRUE
             b == blocking_redirect(w.completions, w.finishing)
  <2>1. taken # {} => first.branch.target \in Word
    <3>1. taken # {} => first \in taken
      OBVIOUS
    <3>2. taken \subseteq result_t
      BY <1>1 DEF Resolving
    <3>3. \A r \in result_t : r.branch.target \in Word
      BY DEF result_t, branch_result_t
    <3> QED
      BY <3>1, <3>2, <3>3
  <2>2. b = IF BRANCH_AT_RETIRE \/ w.finishing \/ taken = {} THEN NoRedirect
            ELSE [valid |-> TRUE, pc |-> first.branch.target]
    BY DEF blocking_redirect
  <2> HIDE DEF taken, first, b
  <2>3. Good(b)
    BY <2>1, <2>2 DEF NoRedirect
  <2> QED
    BY <2>3 DEF b
<1>4. Good(w.branch)
  <2>1. w.branch = IF w.recovered.valid THEN w.recovered
                   ELSE blocking_redirect(w.completions, w.finishing)
    BY DEF WiresHold
  <2> QED
    BY <1>2, <1>3, <2>1
<1>5. csr.mtvec \in Word /\ csr.mepc \in Word
  BY DEF RetireTypes, CsrRegisters
<1>6. Good(w.redirect)
  <2>1. w.redirect = IF w.trap.valid THEN [valid |-> TRUE, pc |-> csr.mtvec]
                     ELSE IF w.mret_commit THEN [valid |-> TRUE, pc |-> csr.mepc]
                     ELSE w.branch
    BY DEF WiresHold
  <2>2. CASE w.trap.valid
    BY <1>5, <2>1, <2>2
  <2>3. CASE ~w.trap.valid /\ w.mret_commit
    BY <1>5, <2>1, <2>3
  <2>4. CASE ~w.trap.valid /\ ~w.mret_commit
    BY <1>4, <2>1, <2>4
  <2> QED
    BY <2>2, <2>3, <2>4
<1>7. w.fetch_stop \in BOOLEAN
  <2>1. w.fetch_stop = (\/ fetch_stopped \/ w.branch_fault
                        \/ \E i \in DOMAIN decoded : decoded[i].terminal)
    BY DEF WiresHold
  <2> QED
    BY <2>1
<1>8. w.trap.valid \in BOOLEAN
  <2>1. w.trap = trap_wire
    BY DEF WiresHold
  <2>2. trap_wire.valid \in BOOLEAN
    BY DEF trap_wire, NoTrap
  <2> QED
    BY <2>1, <2>2
<1> QED
  BY <1>2, <1>4, <1>6, <1>7, <1>8

-----------------------------------------------------------------------------
(* What is dispatched.                                                     *)
LEMMA OfferIs ==
  ASSUME QueuesBounded, NEW blocked
  PROVE  LET n == offer_count(blocked)
         IN /\ n \in 0 .. 2 /\ n <= Len(id_q) /\ n <= RobDepth - count
            /\ n <= IdDispatch!pop_available /\ n <= iq_capacity
            /\ n <= dispatch_limit(dispatch_data) /\ n <= ISSUE_WIDTH
            /\ sys_pending \/ blocked => n = 0
<1> DEFINE available == IdDispatch!pop_available
           limit == dispatch_limit(dispatch_data)
           n == offer_count(blocked)
<1>1. Len(id_q) \in 0 .. 2
  BY DEF QueuesBounded
<1>2. available \in 0 .. 2
  BY <1>1 DEF IdDispatch!pop_available
<1>3. limit \in 0 .. 2
  BY DEF dispatch_limit
<1>4. rob_capacity \in Int
  BY Tiny5Assumption DEF QueuesBounded, rob_capacity, OneOrTwo
<1>5. ISSUE_WIDTH \in 1 .. 2
  BY ConfigurationAssumption
<1>6. n = LET room == Lower(Lower(Lower(available, ISSUE_WIDTH), Lower(rob_capacity, iq_capacity)), limit)
          IN IF sys_pending \/ blocked THEN 0
             ELSE IF available # 0 /\ dispatch_data[1].serial THEN Lower(room, 1) ELSE room
  BY DEF offer_count
<1>7. n \in 0 .. 2 /\ n <= Len(id_q) /\ n <= RobDepth - count
  BY OfferWithin
<1>8. sys_pending \/ blocked => n = 0
  BY <1>6
<1> HIDE DEF available, limit, n
<1>9. n <= available /\ n <= iq_capacity /\ n <= limit /\ n <= ISSUE_WIDTH
  BY <1>2, <1>3, <1>4, <1>5, <1>6, <1>7, IssueRoom DEF Lower
<1> QED
  BY <1>7, <1>8, <1>9 DEF available, limit, n

(* The instructions a bundle takes, and what it ends with.                 *)
DispatchFacts(w, d) ==
  /\ d.n \in 0 .. 2 /\ d.n <= Len(id_q) /\ d.n <= RobDepth - count /\ d.n <= ISSUE_WIDTH
  /\ d.n <= iq_capacity /\ d.n <= dispatch_limit(dispatch_data)
  /\ d.n = allow_count(offer_count(terminal_enqueued \/ halted \/ fault \/ w.backend_flush
                                   \/ w.branch.valid \/ w.branch_fault))
  /\ d.n # 0 => ~(sys_pending \/ terminal_enqueued \/ halted \/ fault \/ w.backend_flush
                  \/ w.branch.valid \/ w.branch_fault)
  /\ d.tags = [p \in Lane |-> allocate_tag(p)]
  /\ Len(d.dispatched) = d.n
  /\ \A i \in 1 .. d.n : d.dispatched[i] = id_q[i] /\ dispatch_data[i] = id_q[i] /\ id_q[i] \in decode_t
  /\ d.n = 2 => ~id_q[1].terminal /\ ~id_q[1].serial
  /\ d.terminal = (\E i \in 1 .. d.n : id_q[i].terminal)
  /\ d.enqueued \in 0 .. d.n
  /\ \A i \in 1 .. d.n : i <= d.enqueued <=> ~id_q[i].terminal /\ ~id_q[i].serial
  /\ d.prepared = IF OUT_OF_ORDER THEN rename_prepared(dispatch_data, d.n, d.tags, registers)
                  ELSE inorder_prepared(dispatch_data, d.n, d.tags, rob, registers)

(* Two are dispatched together only when the first is neither terminal nor *)
(* serial.                                                                 *)
LEMMA TwoGo ==
  ASSUME NEW offer \in 0 .. 2
  PROVE  allow_count(offer) = 2 => ~dispatch_data[1].terminal /\ ~dispatch_data[1].serial
  BY DEF allow_count, rename_allow_count, inorder_allow_count, EndsBundle, Ends

(* Counting a prefix of at most two identifies it.                         *)
LEMMA CountPrefix ==
  ASSUME NEW n \in 0 .. 2, NEW S \in SUBSET (1 .. n), n = 2 => 1 \in S
  PROVE  Cardinality(S) \in 0 .. n /\ \A i \in 1 .. n : i <= Cardinality(S) <=> i \in S
<1>1. CASE S = {}
  <2>1. Cardinality(S) = 0
    BY <1>1, FS_EmptySet
  <2> QED
    BY <1>1, <2>1
<1>2. CASE S = {1}
  <2>1. Cardinality(S) = 1
    BY <1>2, FS_Singleton
  <2>2. n # 0
    BY <1>2
  <2> QED
    BY <1>2, <2>1, <2>2
<1>3. CASE S = {1, 2}
  <2>1. Cardinality({1, 2}) = 2
    <3>1. IsFiniteSet({1}) /\ Cardinality({1}) = 1
      BY FS_Singleton
    <3>2. {1, 2} = {1} \cup {2} /\ 2 \notin {1}
      OBVIOUS
    <3> QED
      BY <3>1, <3>2, FS_AddElement
  <2>2. Cardinality(S) = 2 /\ n = 2
    <3>1. 2 \in 1 .. n
      BY <1>3
    <3> QED
      BY <1>3, <2>1, <3>1
  <2> QED
    BY <1>3, <2>2
<1>4. S = {} \/ S = {1} \/ S = {1, 2}
  <2>1. CASE n = 2
    <3>1. 1 \in S /\ S \subseteq {1, 2}
      BY <2>1
    <3> QED
      BY <3>1
  <2>2. CASE n # 2
    <3>1. S \subseteq {1}
      BY <2>2
    <3> QED
      BY <3>1
  <2> QED
    BY <2>1, <2>2
<1> QED
  BY <1>1, <1>2, <1>3, <1>4

(* What a dispatch is, in terms of the packets it takes: how many go, how  *)
(* many enter the issue queue, whether a terminal one is among them.       *)
LEMMA DispatchIs ==
  ASSUME QueuesBounded, id_q \in Seq(decode_t), NEW w
  PROVE  DispatchFacts(w, Dispatch(w))
<1> DEFINE blocked == \/ terminal_enqueued \/ halted \/ fault \/ w.backend_flush
                      \/ w.branch.valid \/ w.branch_fault
           offer == offer_count(blocked)
           d == Dispatch(w)
           n == allow_count(offer)
<1>1. /\ offer \in 0 .. 2 /\ offer <= Len(id_q) /\ offer <= RobDepth - count
      /\ offer <= IdDispatch!pop_available /\ offer <= iq_capacity
      /\ offer <= dispatch_limit(dispatch_data) /\ offer <= ISSUE_WIDTH
      /\ sys_pending \/ blocked => offer = 0
  <2> HIDE DEF blocked
  <2> QED
    BY OfferIs
<1>2. n \in 0 .. offer /\ (n = 2 => ~dispatch_data[1].terminal /\ ~dispatch_data[1].serial)
  BY <1>1, Allowed, TwoGo
<1>3. /\ d.n = n /\ d.tags = [p \in Lane |-> allocate_tag(p)]
      /\ d.dispatched = SubSeq(dispatch_data, 1, n)
      /\ d.prepared = IF OUT_OF_ORDER THEN rename_prepared(dispatch_data, n, d.tags, registers)
                      ELSE inorder_prepared(dispatch_data, n, d.tags, rob, registers)
      /\ d.terminal = (\E i \in 1 .. n : d.dispatched[i].terminal)
      /\ d.enqueued = Cardinality({i \in 1 .. n : ~d.dispatched[i].terminal /\ ~d.dispatched[i].serial})
  BY DEF Dispatch, DispatchWires
<1>4. Len(id_q) \in 0 .. 2 /\ count \in 0 .. RobDepth /\ RobDepth \in Nat
  BY Tiny5Assumption DEF QueuesBounded
<1>5. IdDispatch!pop_available \in 0 .. Len(id_q) /\ IdDispatch!pop_available \in 0 .. 2
  BY <1>4 DEF IdDispatch!pop_available
<1>6. /\ dispatch_data \in Seq(decode_t) /\ Len(dispatch_data) = IdDispatch!pop_available
      /\ \A i \in 1 .. IdDispatch!pop_available : dispatch_data[i] = id_q[i] /\ id_q[i] \in decode_t
  BY <1>5, PrefixTypes DEF dispatch_data, IdDispatch!pop_data
<1>14. n = allow_count(offer_count(terminal_enqueued \/ halted \/ fault \/ w.backend_flush
                                  \/ w.branch.valid \/ w.branch_fault))
  OBVIOUS
<1> HIDE DEF offer, n
<1>7. n \in 0 .. 2 /\ n \in 0 .. IdDispatch!pop_available
  BY <1>1, <1>2, <1>5
<1>8. /\ Len(d.dispatched) = n /\ \A i \in 1 .. n : d.dispatched[i] = dispatch_data[i]
  BY <1>3, <1>6, <1>7, PrefixTypes
<1>9. \A i \in 1 .. n : /\ d.dispatched[i] = id_q[i] /\ dispatch_data[i] = id_q[i]
                        /\ id_q[i] \in decode_t
  BY <1>5, <1>6, <1>7, <1>8
<1>10. n = 2 => ~id_q[1].terminal /\ ~id_q[1].serial
  BY <1>2, <1>7, <1>9
<1> DEFINE S == {i \in 1 .. n : ~id_q[i].terminal /\ ~id_q[i].serial}
<1> HIDE DEF d
<1>11. d.enqueued = Cardinality(S)
  <2>1. S = {i \in 1 .. n : ~d.dispatched[i].terminal /\ ~d.dispatched[i].serial}
    BY <1>9
  <2> HIDE DEF S
  <2> QED
    BY <1>3, <2>1
<1>12. d.enqueued \in 0 .. n /\ \A i \in 1 .. n : i <= d.enqueued <=> i \in S
  <2>1. S \in SUBSET (1 .. n) /\ (n = 2 => 1 \in S)
    BY <1>10
  <2> HIDE DEF S
  <2> QED
    BY <1>7, <1>11, <2>1, CountPrefix
<1>13. /\ n <= Len(id_q) /\ n <= RobDepth - count /\ n <= ISSUE_WIDTH
       /\ n <= iq_capacity /\ n <= dispatch_limit(dispatch_data)
       /\ n # 0 => ~(sys_pending \/ blocked)
  <2>1. dispatch_limit(dispatch_data) \in 0 .. 2
    BY DEF dispatch_limit
  <2>2. ISSUE_WIDTH \in 1 .. 2
    BY ConfigurationAssumption
  <2> HIDE DEF blocked
  <2> QED
    BY <1>1, <1>2, <1>4, IssueRoom, <2>1, <2>2
<1>15. d.terminal = (\E i \in 1 .. n : id_q[i].terminal)
  BY <1>3, <1>9
<1>16. DispatchFacts(w, d)
  BY <1>3, <1>7, <1>8, <1>9, <1>10, <1>12, <1>13, <1>14, <1>15 DEF DispatchFacts
<1> QED
  BY <1>16 DEF d

(* A renamed instruction, under any map and ready bits.                    *)
RenamedMeta(d, tag, map, pdst) ==
  [pc |-> d.pc, rd |-> d.rd, tag |-> tag,
   pdst |-> IF Allocates(d) THEN pdst ELSE 0,
   old_pdst |-> IF Allocates(d) THEN map[d.rd] ELSE 0]

(* Renaming a decoded instruction yields a well-formed one with its        *)
(* operation and its registers.                                            *)
LEMMA RenamedType ==
  ASSUME NEW d \in decode_t, NEW tag \in RobTag, NEW map \in [Arch -> Phys],
         NEW ready \in [Phys -> BOOLEAN], NEW pdst, Allocates(d) => pdst \in Phys,
         NEW words \in [Phys -> Word]
  PROVE  /\ Renamed(d, tag, map, ready, pdst, words) \in issue_t
         /\ Renamed(d, tag, map, ready, pdst, words).op = d.op
         /\ Renamed(d, tag, map, ready, pdst, words).meta = RenamedMeta(d, tag, map, pdst)
<1> DEFINE operand(r) == [ready |-> ready[map[r]], tag |-> map[r], value |-> words[map[r]]]
           meta == [pc |-> d.pc, rd |-> d.rd, tag |-> tag,
                    pdst |-> IF Allocates(d) THEN pdst ELSE 0,
                    old_pdst |-> IF Allocates(d) THEN map[d.rd] ELSE 0]
           a == operand(d.rs1)
           b == IF d.immediate_b THEN [ready |-> TRUE, tag |-> 0, value |-> d.immediate]
                ELSE operand(d.rs2)
           x == Renamed(d, tag, map, ready, pdst, words)
<1>1. /\ d.pc \in Word /\ d.op \in op_t /\ d.rs1 \in Arch /\ d.rs2 \in Arch /\ d.rd \in Arch
      /\ d.immediate \in Word
  BY DEF decode_t
<1>2. 0 \in Phys
  BY SmallWords
<1>3. \A r \in Arch : operand(r) \in operand_t
  BY DEF operand_t
<1>4. a \in operand_t /\ b \in operand_t
  <2>1. [ready |-> TRUE, tag |-> 0, value |-> d.immediate] \in operand_t
    BY <1>1, <1>2 DEF operand_t
  <2> HIDE DEF operand
  <2> QED
    BY <1>1, <1>3, <2>1
<1>5. meta \in meta_t
  <2> DEFINE p == IF Allocates(d) THEN pdst ELSE 0
             o == IF Allocates(d) THEN map[d.rd] ELSE 0
  <2>1. p \in Phys /\ o \in Phys
    BY <1>1, <1>2
  <2>2. meta = [pc |-> d.pc, rd |-> d.rd, tag |-> tag, pdst |-> p, old_pdst |-> o]
    OBVIOUS
  <2> HIDE DEF p, o, meta
  <2> QED
    BY <1>1, <2>1, <2>2 DEF meta_t
<1>6. x = [op |-> d.op, branch_offset |-> d.immediate, meta |-> meta, a |-> a, b |-> b]
  BY DEF Renamed
<1> HIDE DEF x, meta, a, b
<1>7. x \in issue_t /\ x.op = d.op /\ x.meta = meta
  BY <1>1, <1>4, <1>5, <1>6 DEF issue_t
<1> QED
  BY <1>7 DEF x, meta, RenamedMeta

(* The free list offers free registers other than 0, and two of them.      *)
LEMMA FreeRegisters ==
  ASSUME free_q \subseteq Phys
  PROVE  /\ free_available >= 1 => free_register(0) \in Offered
         /\ free_available >= 2 => /\ free_register(1) \in Offered
                                   /\ free_register(1) # free_register(0)
<1>1. Offered \in SUBSET Nat
  BY Tiny5Assumption DEF Offered, Phys
<1>2. Offered \subseteq Phys /\ IsFiniteSet(Phys)
  BY FS_Interval, Tiny5Assumption DEF Offered, Phys
<1>3. IsFiniteSet(Offered) /\ Cardinality(Offered) \in Nat
  BY <1>2, FS_Subset, FS_CardinalityType
<1>4. ASSUME NEW S \in SUBSET Nat, S # {} PROVE Lowest(S) \in S
  BY <1>4, LeastNumber DEF Lowest
<1>5. free_available >= 1 => Cardinality(Offered) >= 1
  BY <1>3 DEF free_available, OneOrTwo
<1>6. free_available >= 2 => Cardinality(Offered) >= 2
  BY <1>3 DEF free_available, OneOrTwo
<1>7. free_available >= 1 => free_register(0) \in Offered
  <2>1. free_available >= 1 => Offered # {}
    BY <1>3, <1>5, FS_EmptySet
  <2> QED
    BY <1>1, <1>4, <2>1 DEF free_register
<1>8. ASSUME free_available >= 2
      PROVE  free_register(1) \in Offered /\ free_register(1) # free_register(0)
  <2> DEFINE lowest == Lowest(Offered)
             rest == Offered \ {lowest}
  <2>1. lowest \in Offered
    BY <1>1, <1>3, <1>4, <1>6, <1>8, FS_EmptySet
  <2> HIDE DEF lowest
  <2>2. Cardinality(rest) = Cardinality(Offered) - 1
    BY <1>3, <2>1, FS_RemoveElement
  <2>3. rest # {} /\ rest \in SUBSET Nat
    <3>1. Cardinality(rest) >= 1
      BY <1>3, <1>6, <1>8, <2>2
    <3>2. rest # {}
      <4>1. Cardinality({}) = 0
        BY FS_EmptySet
      <4> HIDE DEF rest
      <4> QED
        BY <3>1, <4>1
    <3> QED
      BY <1>1, <3>2
  <2>4. Lowest(rest) \in rest
    BY <1>4, <2>3
  <2>5. free_register(0) = lowest /\ free_register(1) = Lowest(rest)
    BY DEF free_register, lowest
  <2> QED
    BY <2>4, <2>5
<1> QED
  BY <1>7, <1>8

(* Two instructions whose destinations are renamed take two registers; one *)
(* takes the first, wherever it is in the bundle.                          *)
GivenTo(p) ==
  IF p = 0 THEN free_register(0)
  ELSE IF Allocates(dispatch_data[1]) THEN free_register(1) ELSE free_register(0)

(* The registers given to a bundle come from those on offer, and two of a  *)
(* bundle get different ones (control/free_list.sv).                       *)
LEMMA GivenIs ==
  ASSUME OUT_OF_ORDER, free_q \subseteq Phys, NEW offer \in 0 .. 2, NEW n, n = allow_count(offer)
  PROVE  /\ \A i \in 1 .. n : Allocates(dispatch_data[i]) => GivenTo(i - 1) \in Offered
         /\ n = 2 /\ Allocates(dispatch_data[1]) /\ Allocates(dispatch_data[2])
              => GivenTo(0) # GivenTo(1)
<1> DEFINE need1 == IF Allocates(dispatch_data[1]) THEN 1 ELSE 0
           need2 == need1 + (IF Allocates(dispatch_data[2]) THEN 1 ELSE 0)
<1>1. n = IF offer = 0 \/ ~(free_available >= need1) THEN 0
          ELSE IF offer = 1 \/ EndsBundle(dispatch_data[1]) \/ ~(free_available >= need2) THEN 1
          ELSE 2
  BY DEF allow_count, rename_allow_count
<1>2. n \in 0 .. 2 /\ (n >= 1 => free_available >= need1) /\ (n = 2 => free_available >= need2)
  <2> HIDE DEF need1, need2
  <2> QED
    BY <1>1
<1>3. /\ free_available >= 1 => free_register(0) \in Offered
      /\ free_available >= 2 => /\ free_register(1) \in Offered
                                /\ free_register(1) # free_register(0)
  BY FreeRegisters
<1>4. n >= 1 /\ Allocates(dispatch_data[1]) => GivenTo(0) \in Offered
  BY <1>2, <1>3 DEF GivenTo
<1>5. n = 2 /\ Allocates(dispatch_data[2]) => GivenTo(1) \in Offered
  BY <1>2, <1>3 DEF GivenTo
<1>6. n = 2 /\ Allocates(dispatch_data[1]) /\ Allocates(dispatch_data[2]) => GivenTo(0) # GivenTo(1)
  BY <1>2, <1>3 DEF GivenTo
<1>7. \A i \in 1 .. n : Allocates(dispatch_data[i]) => GivenTo(i - 1) \in Offered
  <2> SUFFICES ASSUME NEW i \in 1 .. n, Allocates(dispatch_data[i])
               PROVE  GivenTo(i - 1) \in Offered
    OBVIOUS
  <2>1. CASE i = 1
    <3>1. n >= 1 /\ i - 1 = 0
      BY <1>2, <2>1
    <3> QED
      BY <1>4, <2>1, <3>1
  <2>2. CASE i # 1
    <3>1. n = 2 /\ i = 2 /\ i - 1 = 1
      BY <1>2, <2>2
    <3> QED
      BY <1>5, <3>1
  <2> QED
    BY <2>1, <2>2
<1> QED
  BY <1>6, <1>7

(* The map and the ready bits under which an instruction of the bundle is  *)
(* renamed, and the registers written before it in the bundle.             *)
MapBefore(i) ==
  IF i = 2 /\ Allocates(dispatch_data[1])
  THEN [speculative_map EXCEPT ![dispatch_data[1].rd] = GivenTo(0)] ELSE speculative_map
ReadyBefore(i) ==
  IF i = 2 /\ Allocates(dispatch_data[1]) THEN [ready_q EXCEPT ![GivenTo(0)] = FALSE] ELSE ready_q
WrittenBefore(i) == IF i = 1 THEN {} ELSE WrittenBy(dispatch_data[1])

PreparedAs(i) ==
  IF OUT_OF_ORDER
  THEN Renamed(id_q[i], allocate_tag(i - 1), MapBefore(i), ReadyBefore(i), GivenTo(i - 1), registers)
  ELSE InorderPrepared(id_q[i], allocate_tag(i - 1), WrittenBefore(i), rob, registers)

(* The bundle prepared for dispatch, one instruction at a time, under      *)
(* either operand scheme.                                                  *)
LEMMA PreparedIs ==
  ASSUME NEW w, NEW d, DispatchFacts(w, d)
  PROVE  /\ DOMAIN d.prepared = 1 .. d.n
         /\ \A i \in 1 .. d.n : d.prepared[i] = PreparedAs(i)
<1> DEFINE n == d.n
<1>1. /\ n \in 0 .. 2 /\ d.tags = [p \in Lane |-> allocate_tag(p)]
      /\ \A i \in 1 .. n : dispatch_data[i] = id_q[i]
      /\ d.prepared = IF OUT_OF_ORDER THEN rename_prepared(dispatch_data, n, d.tags, registers)
                      ELSE inorder_prepared(dispatch_data, n, d.tags, rob, registers)
  BY DEF DispatchFacts
<1>2. d.tags[0] = allocate_tag(0) /\ d.tags[1] = allocate_tag(1)
  BY <1>1 DEF Lane
<1> HIDE DEF n
<1>3. CASE OUT_OF_ORDER
  <2> DEFINE first == Renamed(dispatch_data[1], d.tags[0], speculative_map, ready_q,
                              free_register(0), registers)
             second == Renamed(dispatch_data[2], d.tags[1], MapBefore(2), ReadyBefore(2),
                               GivenTo(1), registers)
  <2>1. d.prepared = IF n = 0 THEN <<>> ELSE IF n = 1 THEN <<first>> ELSE <<first, second>>
    BY <1>1, <1>3 DEF rename_prepared, MapBefore, ReadyBefore, GivenTo
  <2>2. first = Renamed(dispatch_data[1], allocate_tag(0), MapBefore(1), ReadyBefore(1),
                        GivenTo(0), registers)
    BY <1>2 DEF MapBefore, ReadyBefore, GivenTo
  <2> HIDE DEF first, second
  <2>3. DOMAIN d.prepared = 1 .. n
    <3>1. CASE n = 0
      BY <2>1, <3>1
    <3>2. CASE n = 1
      BY <2>1, <3>2
    <3>3. CASE n = 2
      BY <2>1, <3>3
    <3> QED
      BY <1>1, <3>1, <3>2, <3>3
  <2>4. \A i \in 1 .. n : d.prepared[i] = IF i = 1 THEN first ELSE second
    BY <1>1, <2>1
  <2>5. ASSUME NEW i \in 1 .. n PROVE d.prepared[i] = PreparedAs(i)
    <3>1. CASE i = 1
      <4>1. d.prepared[i] = first /\ id_q[i] = dispatch_data[1] /\ i - 1 = 0
        BY <1>1, <2>4, <3>1
      <4> QED
        BY <1>3, <2>2, <3>1, <4>1 DEF PreparedAs
    <3>2. CASE i # 1
      <4>1. i = 2 /\ i - 1 = 1
        BY <1>1, <3>2
      <4>2. d.prepared[i] = second /\ id_q[i] = dispatch_data[2]
        BY <1>1, <2>4, <4>1
      <4> QED
        BY <1>2, <1>3, <4>1, <4>2 DEF PreparedAs, second
    <3> QED
      BY <3>1, <3>2
  <2> QED
    BY <2>3, <2>5 DEF n
<1>4. CASE ~OUT_OF_ORDER
  <2>1. d.prepared = [i \in 1 .. n |->
          InorderPrepared(dispatch_data[i], d.tags[i - 1], WrittenBefore(i), rob, registers)]
    BY <1>1, <1>4 DEF inorder_prepared, WrittenBefore
  <2>2. \A i \in 1 .. n : d.tags[i - 1] = allocate_tag(i - 1)
    BY <1>1, <1>2
  <2>3. \A i \in 1 .. n : d.prepared[i] = PreparedAs(i)
    BY <1>1, <1>4, <2>1, <2>2 DEF PreparedAs
  <2> QED
    BY <2>1, <2>3 DEF n
<1> QED
  BY <1>3, <1>4

(* An operand selected in order comes from the register bank or from the   *)
(* entry of its producer.                                                  *)
LEMMA SelectOperandType ==
  ASSUME NEW r \in Arch, NEW earlier, RenameTypes, RetireTypes, ~OUT_OF_ORDER
  PROVE  SelectOperand(r, earlier, rob, registers) \in operand_t
<1> DEFINE entry == rob[producer[r]]
           present == r \in busy \/ r \in earlier
           ready == entry # Empty /\ entry.done /\ ~(r \in earlier)
           value == IF ~present THEN registers[r] ELSE IF entry # Empty THEN entry.value ELSE 0
           isready == ~present \/ ready
<1>1. entry \in rob_entry_t \cup {Empty} /\ registers[r] \in Word
  BY DEF RenameTypes, RetireTypes, RegisterWords
<1>2. value \in Word
  <2>1. entry # Empty => entry.value \in Word
    BY <1>1 DEF rob_entry_t
  <2>2. 0 \in Word
    BY SmallWords
  <2> HIDE DEF entry, present
  <2> QED
    BY <1>1, <2>1, <2>2
<1>3. isready \in BOOLEAN
  OBVIOUS
<1>4. r \in Phys /\ 0 \in Phys /\ 0 \in Word
  BY SmallWords
<1>5. SelectOperand(r, earlier, rob, registers)
        = IF r = 0 THEN [ready |-> TRUE, tag |-> 0, value |-> 0]
          ELSE [tag |-> r, ready |-> isready, value |-> value]
  BY DEF SelectOperand
<1> HIDE DEF isready, value
<1> QED
  BY <1>2, <1>3, <1>4, <1>5 DEF operand_t

(* Reading the operands in order yields a well-formed instruction with its *)
(* operation and its registers.                                            *)
LEMMA InorderPreparedType ==
  ASSUME NEW d \in decode_t, NEW tag \in RobTag, NEW earlier, RenameTypes, RetireTypes, ~OUT_OF_ORDER
  PROVE  LET x == InorderPrepared(d, tag, earlier, rob, registers)
         IN /\ x \in issue_t /\ x.op = d.op
            /\ x.meta = [pc |-> d.pc, rd |-> d.rd, tag |-> tag, pdst |-> d.rd, old_pdst |-> 0]
<1> DEFINE a == SelectOperand(d.rs1, earlier, rob, registers)
           b == IF d.immediate_b THEN [ready |-> TRUE, tag |-> 0, value |-> d.immediate]
                ELSE SelectOperand(d.rs2, earlier, rob, registers)
           meta == [pc |-> d.pc, rd |-> d.rd, tag |-> tag, pdst |-> d.rd, old_pdst |-> 0]
           x == InorderPrepared(d, tag, earlier, rob, registers)
<1>1. /\ d.pc \in Word /\ d.op \in op_t /\ d.rs1 \in Arch /\ d.rs2 \in Arch /\ d.rd \in Arch
      /\ d.immediate \in Word
  BY DEF decode_t
<1>2. d.rd \in Phys /\ 0 \in Phys
  BY <1>1, SmallWords
<1>3. a \in operand_t
  BY <1>1, SelectOperandType
<1>4. b \in operand_t
  <2>1. SelectOperand(d.rs2, earlier, rob, registers) \in operand_t
    BY <1>1, SelectOperandType
  <2>2. [ready |-> TRUE, tag |-> 0, value |-> d.immediate] \in operand_t
    BY <1>1, <1>2 DEF operand_t
  <2> QED
    BY <2>1, <2>2
<1>5. meta \in meta_t
  BY <1>1, <1>2 DEF meta_t
<1>6. x = [op |-> d.op, branch_offset |-> d.immediate, meta |-> meta, a |-> a, b |-> b]
  BY DEF InorderPrepared
<1> HIDE DEF x, meta, a, b
<1>7. x \in issue_t /\ x.op = d.op /\ x.meta = meta
  BY <1>1, <1>3, <1>4, <1>5, <1>6 DEF issue_t
<1> QED
  BY <1>7 DEF x, meta

(* Destinations: renamed ones are free, in order they are the register.    *)
Destination(i) ==
  IF ~OUT_OF_ORDER THEN id_q[i].rd ELSE IF Allocates(id_q[i]) THEN GivenTo(i - 1) ELSE 0
Replaced(i) ==
  IF OUT_OF_ORDER /\ Allocates(id_q[i]) THEN MapBefore(i)[id_q[i].rd] ELSE 0

(* Every instruction prepared for dispatch is well formed, has the next    *)
(* tag, and the register given to it.                                      *)
LEMMA PreparedTypes ==
  ASSUME QueuesBounded, RenameTypes, RetireTypes, NEW w, NEW d, DispatchFacts(w, d)
  PROVE  /\ d.prepared \in Seq(issue_t) /\ Len(d.prepared) = d.n
         /\ \A i \in 1 .. d.n :
              /\ d.prepared[i] \in issue_t /\ d.prepared[i].op = id_q[i].op
              /\ d.prepared[i].meta = [pc |-> id_q[i].pc, rd |-> id_q[i].rd,
                                       tag |-> allocate_tag(i - 1),
                                       pdst |-> Destination(i), old_pdst |-> Replaced(i)]
              /\ OUT_OF_ORDER /\ Allocates(id_q[i]) => Destination(i) \in Offered
<1> DEFINE Meta(i) == [pc |-> id_q[i].pc, rd |-> id_q[i].rd, tag |-> allocate_tag(i - 1),
                       pdst |-> Destination(i), old_pdst |-> Replaced(i)]
           blocked == \/ terminal_enqueued \/ halted \/ fault \/ w.backend_flush
                      \/ w.branch.valid \/ w.branch_fault
           offer == offer_count(blocked)
<1>1. /\ d.n \in 0 .. 2 /\ d.n = allow_count(offer)
      /\ \A i \in 1 .. d.n : dispatch_data[i] = id_q[i] /\ id_q[i] \in decode_t
  BY DEF DispatchFacts
<1>2. offer \in 0 .. 2
  <2> HIDE DEF blocked
  <2> QED
    BY OfferIs
<1>3. \A i \in 1 .. d.n : allocate_tag(i - 1) \in RobTag
  <2>1. \A i \in 1 .. d.n : i - 1 \in 0 .. RobDepth
    <3> SUFFICES ASSUME NEW i \in 1 .. d.n PROVE i - 1 \in 0 .. RobDepth
      OBVIOUS
    <3> DEFINE n == d.n
    <3>1. i \in 1 .. n /\ n \in 0 .. 2
      BY <1>1
    <3> HIDE DEF n
    <3>2. i \in 1 .. 2
      BY <3>1
    <3> QED
      BY <3>2, Tiny5Assumption
  <2> QED
    BY <2>1, Advances DEF allocate_tag, RetireTypes
<1> HIDE DEF offer
<1>4. OUT_OF_ORDER => \A i \in 1 .. d.n : Allocates(id_q[i]) => GivenTo(i - 1) \in Offered
  BY <1>1, <1>2, GivenIs DEF RenameTypes
<1>5. DOMAIN d.prepared = 1 .. d.n /\ \A i \in 1 .. d.n : d.prepared[i] = PreparedAs(i)
  BY PreparedIs
<1>6. ASSUME NEW i \in 1 .. d.n
      PROVE  /\ d.prepared[i] \in issue_t /\ d.prepared[i].op = id_q[i].op
             /\ d.prepared[i].meta = Meta(i)
             /\ OUT_OF_ORDER /\ Allocates(id_q[i]) => Destination(i) \in Offered
  <2> DEFINE tag == allocate_tag(i - 1)
             given == GivenTo(i - 1)
  <2>1. id_q[i] \in decode_t /\ tag \in RobTag
    BY <1>1, <1>3
  <2>2. CASE OUT_OF_ORDER
    <3> DEFINE map == MapBefore(i)
               ready == ReadyBefore(i)
    <3>1. Allocates(id_q[i]) => given \in Offered /\ given \in Phys
      BY <1>4, <2>2 DEF Offered, RenameTypes
    <3>2. speculative_map \in [Arch -> Phys] /\ ready_q \in [Phys -> BOOLEAN]
          /\ registers \in [Phys -> Word]
      BY <2>2 DEF RenameTypes, RetireTypes, RegisterWords
    <3>3. map \in [Arch -> Phys] /\ ready \in [Phys -> BOOLEAN]
      <4>1. CASE i = 2 /\ Allocates(dispatch_data[1])
        <5>1. 1 \in 1 .. d.n /\ 1 - 1 = 0
          BY <1>1, <4>1
        <5>2. GivenTo(0) \in Phys
          <6>1. dispatch_data[1] = id_q[1]
            BY <1>1, <5>1
          <6> QED
            BY <1>4, <2>2, <4>1, <5>1, <6>1 DEF Offered, RenameTypes
        <5> QED
          BY <3>2, <4>1, <5>2 DEF MapBefore, ReadyBefore
      <4>2. CASE ~(i = 2 /\ Allocates(dispatch_data[1]))
        BY <3>2, <4>2 DEF MapBefore, ReadyBefore
      <4> QED
        BY <4>1, <4>2
    <3>4. d.prepared[i] = Renamed(id_q[i], tag, map, ready, given, registers)
      BY <1>5, <2>2 DEF PreparedAs
    <3> HIDE DEF tag, given, map, ready
    <3>5. /\ d.prepared[i] \in issue_t /\ d.prepared[i].op = id_q[i].op
          /\ d.prepared[i].meta = RenamedMeta(id_q[i], tag, map, given)
      <4>1. Allocates(id_q[i]) => given \in Phys
        BY <3>1
      <4> DEFINE entry == id_q[i]
      <4>2. /\ entry \in decode_t /\ tag \in RobTag /\ map \in [Arch -> Phys]
            /\ ready \in [Phys -> BOOLEAN] /\ registers \in [Phys -> Word]
            /\ Allocates(entry) => given \in Phys
        BY <2>1, <3>2, <3>3, <4>1
      <4>3. d.prepared[i] = Renamed(entry, tag, map, ready, given, registers)
        BY <3>4
      <4> HIDE DEF entry
      <4>4. Renamed(entry, tag, map, ready, given, registers) \in issue_t
        BY <4>2, RenamedType
      <4>5. Renamed(entry, tag, map, ready, given, registers).op = entry.op
        BY DEF Renamed
      <4>6. Renamed(entry, tag, map, ready, given, registers).meta = RenamedMeta(entry, tag, map, given)
        BY <4>2, RenamedType
      <4> QED
        BY <4>3, <4>4, <4>5, <4>6 DEF entry
    <3> QED
      BY <2>2, <3>1, <3>5 DEF RenamedMeta, Destination, Replaced, tag, given, map
  <2>3. CASE ~OUT_OF_ORDER
    <3>1. d.prepared[i] = InorderPrepared(id_q[i], tag, WrittenBefore(i), rob, registers)
      BY <1>5, <2>3 DEF PreparedAs
    <3> HIDE DEF tag
    <3>2. /\ d.prepared[i] \in issue_t /\ d.prepared[i].op = id_q[i].op
          /\ d.prepared[i].meta = [pc |-> id_q[i].pc, rd |-> id_q[i].rd, tag |-> tag,
                                   pdst |-> id_q[i].rd, old_pdst |-> 0]
      BY <2>1, <2>3, <3>1, InorderPreparedType
    <3> QED
      BY <2>3, <3>2 DEF Destination, Replaced, tag
  <2> QED
    BY <2>2, <2>3
<1>7. d.prepared \in Seq(issue_t) /\ Len(d.prepared) = d.n
  <2>1. d.prepared \in [1 .. d.n -> issue_t]
    <3>1. d.prepared = [i \in 1 .. d.n |-> d.prepared[i]]
      <4>1. /\ OUT_OF_ORDER => d.prepared = rename_prepared(dispatch_data, d.n, d.tags, registers)
            /\ ~OUT_OF_ORDER => d.prepared = inorder_prepared(dispatch_data, d.n, d.tags, rob, registers)
        BY DEF DispatchFacts
      <4>2. CASE OUT_OF_ORDER
        BY <1>1, <4>1, <4>2 DEF rename_prepared
      <4>3. CASE ~OUT_OF_ORDER
        BY <1>5, <4>1, <4>3 DEF inorder_prepared
      <4> QED
        BY <4>2, <4>3
    <3> QED
      BY <1>6, <3>1
  <2> QED
    BY <1>1, <2>1, SeqDef, LenProperties
<1> QED
  BY <1>6, <1>7

-----------------------------------------------------------------------------
(* Renaming, and the operands in order.                                    *)
LEMMA YoungestOf ==
  ASSUME NEW S \in SUBSET (1 .. 2), S # {}
  PROVE  LET y == CHOOSE i \in S : \A j \in S : j <= i
         IN y \in S /\ \A j \in S : j <= y
<1>1. \E i \in S : \A j \in S : j <= i
  <2>1. CASE 2 \in S
    BY <2>1
  <2>2. CASE 2 \notin S
    <3>1. \A x \in S : x = 1
      BY <2>2
    <3>2. PICK x \in S : TRUE
      OBVIOUS
    <3> QED
      BY <3>1, <3>2
  <2> QED
    BY <2>1, <2>2
<1> QED
  BY <1>1

(* Mapping the destinations of a bundle keeps a map a map.                 *)
LEMMA RemappedType ==
  ASSUME NEW map \in [Arch -> Phys], NEW metas, DOMAIN metas \subseteq 1 .. 2,
         \A i \in DOMAIN metas : metas[i] \in meta_t
  PROVE  Remapped(map, metas) \in [Arch -> Phys]
<1> DEFINE writers(r) == {i \in DOMAIN metas : metas[i].rd = r}
           last(r) == CHOOSE i \in writers(r) : \A j \in writers(r) : j <= i
           value(r) == IF r = 0 \/ writers(r) = {} THEN map[r] ELSE metas[last(r)].pdst
<1>1. ASSUME NEW r \in Arch PROVE value(r) \in Phys
  <2>1. CASE r = 0 \/ writers(r) = {}
    BY <2>1
  <2>2. CASE ~(r = 0 \/ writers(r) = {})
    <3>1. writers(r) \in SUBSET (1 .. 2) /\ writers(r) # {}
      BY <2>2
    <3>2. last(r) \in writers(r)
      <4> HIDE DEF writers
      <4> QED
        BY <3>1, YoungestOf
    <3>3. metas[last(r)] \in meta_t
      BY <3>2
    <3> QED
      BY <2>2, <3>3 DEF meta_t
  <2> QED
    BY <2>1, <2>2
<1>2. Remapped(map, metas) = [r \in Arch |-> value(r)]
  BY DEF Remapped
<1> HIDE DEF value
<1> QED
  BY <1>1, <1>2

(* Maps, free list and ready bits stay in their types                      *)
(* (control/rename_control.sv).                                            *)
LEMMA RenameTypesStep ==
  ASSUME RenameTypes, NEW restore, NEW completions, NEW dispatched, NEW retiring,
         DOMAIN dispatched \subseteq 1 .. 2, \A i \in DOMAIN dispatched : dispatched[i] \in meta_t,
         DOMAIN retiring \subseteq 1 .. 2, \A i \in DOMAIN retiring : retiring[i] \in meta_t,
         RenameTick(restore, dispatched, completions, retiring)
  PROVE  /\ speculative_map' \in [Arch -> Phys] /\ committed_map' \in [Arch -> Phys]
         /\ free_q' \subseteq Phys /\ ready_q' \in [Phys -> BOOLEAN]
<1> DEFINE allocated == {dispatched[i].pdst : i \in DOMAIN dispatched} \ {0}
           written == {r.meta.pdst : r \in {c \in completions : c.meta.rd # 0}}
<1>1. /\ speculative_map \in [Arch -> Phys] /\ committed_map \in [Arch -> Phys]
      /\ free_q \subseteq Phys /\ ready_q \in [Phys -> BOOLEAN]
  BY DEF RenameTypes
<1>2. /\ restore => /\ speculative_map' = RestoredMap /\ committed_map' = committed_map
                    /\ ready_q' = [p \in Phys |-> TRUE] /\ free_q' = RestoredFree
      /\ ~restore => /\ speculative_map' = Remapped(speculative_map, dispatched)
                     /\ committed_map' = Remapped(committed_map, retiring)
                     /\ ready_q' = ReadyAfter(allocated, written)
                     /\ free_q' = (free_q \cup Released(retiring)) \ allocated
  BY DEF RenameTick
<1> HIDE DEF allocated, written
<1>3. CASE restore
  BY <1>1, <1>2, <1>3 DEF RestoredMap, RestoredFree
<1>4. CASE ~restore
  <2>1. speculative_map' \in [Arch -> Phys] /\ committed_map' \in [Arch -> Phys]
    BY <1>1, <1>2, <1>4, RemappedType
  <2>2. ready_q' \in [Phys -> BOOLEAN]
    BY <1>2, <1>4 DEF ReadyAfter
  <2>3. Released(retiring) \subseteq Phys
    BY DEF Released, meta_t
  <2>4. free_q' \subseteq Phys
    BY <1>1, <1>2, <1>4, <2>3
  <2> QED
    BY <2>1, <2>2, <2>4
<1> QED
  BY <1>3, <1>4

(* Busy bits and producers stay in their types                             *)
(* (control/inorder_operands.sv).                                          *)
LEMMA InorderTypesStep ==
  ASSUME RenameTypes, NEW flush, NEW dispatched, NEW retiring,
         DOMAIN dispatched \subseteq 1 .. 2, \A i \in DOMAIN dispatched : dispatched[i] \in meta_t,
         InorderTick(flush, dispatched, retiring)
  PROVE  busy' \subseteq Arch /\ producer' \in [Arch -> RobTag]
<1> DEFINE writes(metas) == {metas[i].rd : i \in DOMAIN metas} \ {0}
           Last(r) == CHOOSE i \in DOMAIN dispatched :
                        dispatched[i].rd = r /\ \A j \in DOMAIN dispatched : dispatched[j].rd = r => j <= i
           by(r) == IF r \in writes(dispatched) THEN dispatched[Last(r)].tag ELSE producer[r]
<1>1. busy \subseteq Arch /\ producer \in [Arch -> RobTag] /\ 0 \in RobTag
  BY SmallWords DEF RenameTypes
<1>2. CASE flush
  BY <1>1, <1>2 DEF InorderTick, BusyAfterFlush
<1>3. CASE ~flush
  <2>1. /\ busy' = (busy \ writes(retiring)) \cup writes(dispatched)
        /\ producer' = [r \in Arch |-> by(r)]
    BY <1>3 DEF InorderTick
  <2>2. writes(dispatched) \subseteq Arch
    BY DEF meta_t
  <2>3. ASSUME NEW r \in Arch PROVE by(r) \in RobTag
    <3>1. CASE r \notin writes(dispatched)
      BY <1>1, <3>1
    <3>2. CASE r \in writes(dispatched)
      <4> DEFINE S == {i \in DOMAIN dispatched : dispatched[i].rd = r}
      <4>1. S \in SUBSET (1 .. 2) /\ S # {}
        BY <3>2
      <4>2. \E y \in S : \A j \in S : j <= y
        <5> HIDE DEF S
        <5> QED
          BY <4>1, YoungestOf
      <4>3. Last(r) \in DOMAIN dispatched
        BY <4>2
      <4>4. dispatched[Last(r)] \in meta_t
        <5> HIDE DEF Last
        <5> QED
          BY <4>3
      <4> HIDE DEF Last, writes
      <4> QED
        BY <3>2, <4>4 DEF meta_t
    <3> QED
      BY <3>1, <3>2
  <2> HIDE DEF by, writes
  <2> QED
    BY <1>1, <2>1, <2>2, <2>3
<1> QED
  BY <1>2, <1>3

-----------------------------------------------------------------------------
(* The issue queue.                                                        *)
LEMMA WokenType ==
  ASSUME NEW completions \in SUBSET result_t, NEW o \in operand_t
  PROVE  WokenOperand(o, completions) \in operand_t
<1> DEFINE producers == {r \in completions : r.meta.rd # 0 /\ r.meta.pdst = o.tag}
           first == CHOOSE r \in producers : TRUE
<1>1. producers # {} => first \in result_t
  OBVIOUS
<1>2. \A r \in result_t : r.value \in Word
  BY DEF result_t
<1>3. WokenOperand(o, completions)
        = IF o.ready \/ producers = {} THEN o
          ELSE [o EXCEPT !.ready = TRUE, !.value = first.value]
  BY DEF WokenOperand
<1> HIDE DEF producers, first
<1>4. producers # {} => first.value \in Word
  BY <1>1, <1>2
<1> QED
  BY <1>3, <1>4 DEF operand_t

(* Waking the issue queue changes operands only: every entry stays where   *)
(* and what it is.                                                         *)
LEMMA WakeType ==
  ASSUME NEW completions \in SUBSET result_t, NEW queue \in [Slot -> issue_t \cup {Empty}]
  PROVE  /\ Wake(queue, completions) \in [Slot -> issue_t \cup {Empty}]
         /\ \A s \in Slot : /\ Wake(queue, completions)[s] = Empty <=> queue[s] = Empty
                            /\ queue[s] # Empty =>
                                 Wake(queue, completions)[s]
                                   = [queue[s] EXCEPT !.a = WokenOperand(@, completions),
                                                      !.b = WokenOperand(@, completions)]
<1> DEFINE woken(s) == [queue[s] EXCEPT !.a = WokenOperand(@, completions),
                                        !.b = WokenOperand(@, completions)]
<1>1. ASSUME NEW s \in Slot, queue[s] # Empty PROVE woken(s) \in issue_t
  <2> DEFINE q == queue[s]
             a == WokenOperand(q.a, completions)
             b == WokenOperand(q.b, completions)
  <2>1. q \in issue_t
    BY <1>1
  <2>2. a \in operand_t /\ b \in operand_t
    <3>1. q.a \in operand_t /\ q.b \in operand_t
      BY <2>1 DEF issue_t
    <3> QED
      BY <3>1, WokenType
  <2>3. woken(s) = [q EXCEPT !.a = a, !.b = b]
    OBVIOUS
  <2> HIDE DEF q, a, b, woken
  <2>4. [q EXCEPT !.a = a, !.b = b] \in issue_t
    BY <2>1, <2>2 DEF issue_t
  <2> QED
    BY <2>3, <2>4
<1>2. Wake(queue, completions) = [s \in Slot |-> IF queue[s] = Empty THEN Empty ELSE woken(s)]
  BY DEF Wake
<1>3. \A s \in Slot : queue[s] # Empty => woken(s) # Empty
  BY <1>1, EmptyAssumption
<1> HIDE DEF woken
<1>4. /\ Wake(queue, completions) \in [Slot -> issue_t \cup {Empty}]
      /\ \A s \in Slot : /\ Wake(queue, completions)[s] = Empty <=> queue[s] = Empty
                         /\ queue[s] # Empty => Wake(queue, completions)[s] = woken(s)
  BY <1>1, <1>2, <1>3
<1> QED
  BY <1>4 DEF woken

(* A new entry takes a free slot, if there is one.                         *)
LEMMA EnqueueIs ==
  ASSUME NEW queue \in [Slot -> issue_t \cup {Empty}], NEW entry \in issue_t
  PROVE  /\ Enqueue(queue, entry) \in [Slot -> issue_t \cup {Empty}]
         /\ FreeSlots(queue) # {} =>
              \E s \in FreeSlots(queue) : Enqueue(queue, entry) = [queue EXCEPT ![s] = entry]
<1> DEFINE lowest == CHOOSE s \in FreeSlots(queue) : \A t \in FreeSlots(queue) : s <= t
<1>1. FreeSlots(queue) \in SUBSET Nat /\ FreeSlots(queue) \subseteq Slot
  BY Tiny5Assumption DEF FreeSlots, Slot
<1>2. FreeSlots(queue) # {} => lowest \in FreeSlots(queue)
  BY <1>1, LeastNumber
<1>3. Enqueue(queue, entry) = IF FreeSlots(queue) = {} THEN queue ELSE [queue EXCEPT ![lowest] = entry]
  BY DEF Enqueue
<1> HIDE DEF lowest
<1> QED
  BY <1>1, <1>2, <1>3

(* The issue queue stays in its type through wakeup, removal, enqueueing   *)
(* and flush.                                                              *)
LEMMA IssueTypesStep ==
  ASSUME iq \in [Slot -> issue_t \cup {Empty}], NEW flush, NEW remove,
         NEW enqueue \in Seq(issue_t), NEW completions \in SUBSET result_t,
         IssueTick(flush, remove, enqueue, completions)
  PROVE  iq' \in [Slot -> issue_t \cup {Empty}]
<1> DEFINE Q == [Slot -> issue_t \cup {Empty}]
           kept == Without(iq, remove)
           first == IF Len(enqueue) >= 1 THEN Enqueue(kept, enqueue[1]) ELSE kept
           both == IF Len(enqueue) = 2 THEN Enqueue(first, enqueue[2]) ELSE first
<1>1. kept \in Q
  BY DEF Without
<1>2. /\ Len(enqueue) >= 1 => enqueue[1] \in issue_t
      /\ Len(enqueue) = 2 => enqueue[2] \in issue_t
  BY LenProperties
<1> HIDE DEF kept
<1>3. first \in Q
  BY <1>1, <1>2, EnqueueIs
<1> HIDE DEF first
<1>4. both \in Q
  BY <1>2, <1>3, EnqueueIs
<1>5. iq' = IF flush THEN [s \in Slot |-> Empty] ELSE Wake(both, completions)
  BY DEF IssueTick, kept, first
<1> HIDE DEF both
<1> QED
  BY <1>4, <1>5, WakeType

-----------------------------------------------------------------------------
(* The execution cluster.                                                  *)
LEMMA UnitResultType ==
  ASSUME ExecutionTypes, NEW u \in Unit
  PROVE  UnitResult(u) \in result_t \cup {Empty}
<1>1. md.out \in result_t \cup {Empty}
  BY DEF ExecutionTypes, MdTypes, MdRegisters
<1>2. u # MULDIV => u \in Lane
  BY DEF Unit, MULDIV, Lane
<1>3. u # MULDIV => alu[u] \in result_t \cup {Empty}
  BY <1>2 DEF ExecutionTypes
<1> QED
  BY <1>1, <1>3 DEF UnitResult

(* A unit is offered the instruction of the lane that starts on it.        *)
LEMMA UnitInputIs ==
  ASSUME ExecutionTypes, NEW u \in Unit
  PROVE  LET x == UnitInput(Started, u)
         IN /\ x \in execute_t \cup {Empty}
            /\ x # Empty => unit_ready(u) /\ (u = MULDIV <=> is_muldiv(x.op))
            /\ x # Empty <=> \E p \in Lane : Started[p] = u
            /\ \A p \in Lane : Started[p] = u => x = ex[p] /\ ex[p] # Empty
<1> DEFINE x == UnitInput(Started, u)
           lane == CHOOSE p \in Lane : Started[p] = u
<1>1. u # Empty
  BY NotEmpty DEF Unit
<1>2. \A p \in Lane : Started[p] = u =>
        /\ ex[p] # Empty /\ ex[p] \in execute_t
        /\ unit_ready(u) /\ (u = MULDIV <=> is_muldiv(ex[p].op))
  <2> SUFFICES ASSUME NEW p \in Lane, Started[p] = u
               PROVE  /\ ex[p] # Empty /\ ex[p] \in execute_t
                      /\ unit_ready(u) /\ (u = MULDIV <=> is_muldiv(ex[p].op))
    OBVIOUS
  <2>1. u \in UnitsFor(p)
    BY <1>1, StartedIs
  <2>2. ex[p] # Empty /\ unit_ready(u) /\ (u = MULDIV <=> is_muldiv(ex[p].op))
    BY <2>1 DEF UnitsFor
  <2> QED
    BY <2>2 DEF ExecutionTypes
<1>3. \A p, q \in Lane : Started[p] = u /\ Started[q] = u => p = q
  BY <1>1, StartedIs DEF Lane
<1>4. CASE \E p \in Lane : Started[p] = u
  <2>1. lane \in Lane /\ Started[lane] = u
    BY <1>4
  <2>2. x = ex[lane]
    BY <1>4 DEF UnitInput
  <2> HIDE DEF x, lane
  <2>3. /\ x \in execute_t /\ x # Empty
        /\ unit_ready(u) /\ (u = MULDIV <=> is_muldiv(x.op))
    BY <1>2, <2>1, <2>2
  <2>4. \A p \in Lane : Started[p] = u => x = ex[p] /\ ex[p] # Empty
    BY <1>2, <1>3, <2>1, <2>2
  <2> QED
    BY <1>4, <2>3, <2>4 DEF x
<1>5. CASE ~ \E p \in Lane : Started[p] = u
  <2>1. x = Empty
    BY <1>5 DEF UnitInput
  <2> QED
    BY <1>5, <2>1
<1> QED
  BY <1>4, <1>5

(* The registers of the execution cluster stay in their types.             *)
LEMMA ExecutionTypesStep ==
  ASSUME ExecutionTypes, NEW flush,
         NEW issued, issued \in [Lane -> execute_t \cup {Empty}], ExecutionTick(flush, issued)
  PROVE  /\ ex' \in [Lane -> execute_t \cup {Empty}]
         /\ alu' \in [Lane -> result_t \cup {Empty}] /\ wb' \in [Lane -> result_t \cup {Empty}]
         /\ next_q' \in Unit /\ MdTypes'
<1> DEFINE started == Started
           granted == Granted
           taken(u) == \E p \in Lane : granted[p] = u
           last == IF granted[1] # Empty THEN granted[1] ELSE granted[0]
           Computed(x) == IF x = Empty THEN Empty ELSE AluResult(x)
           input(u) == UnitInput(started, u)
<1>1. /\ ex \in [Lane -> execute_t \cup {Empty}] /\ alu \in [Lane -> result_t \cup {Empty}]
      /\ next_q \in Unit /\ MdTypes
  BY DEF ExecutionTypes
<1>2. /\ ex' = [p \in Lane |-> IF flush THEN Empty
                               ELSE ElasticEdge(ex[p], issued[p], started[p] # Empty)]
      /\ alu' = [u \in Lane |-> IF flush THEN Empty
                                ELSE ElasticEdge(alu[u], Computed(input(u)), taken(u))]
      /\ MdTick(flush, input(MULDIV), taken(MULDIV))
      /\ wb' = [p \in Lane |-> IF flush \/ granted[p] = Empty THEN Empty
                               ELSE UnitResult(granted[p])]
      /\ next_q' = IF flush THEN 0 ELSE IF last = Empty THEN next_q ELSE (last + 1) % 3
  BY DEF ExecutionTick
<1>3. \A p \in Lane : granted[p] # Empty => granted[p] \in Unit
  BY <1>1, GrantedIs DEF WaitingUnits
<1>4. \A u \in Unit : /\ input(u) \in execute_t \cup {Empty}
                      /\ input(u) # Empty => (u = MULDIV <=> is_muldiv(input(u).op))
  BY UnitInputIs
<1> HIDE DEF started, granted, input, taken
<1>5. ex' \in [Lane -> execute_t \cup {Empty}]
  BY <1>1, <1>2 DEF ElasticEdge
<1>6. alu' \in [Lane -> result_t \cup {Empty}]
  <2>1. \A u \in Lane : Computed(input(u)) \in result_t \cup {Empty}
    <3> SUFFICES ASSUME NEW u \in Lane PROVE Computed(input(u)) \in result_t \cup {Empty}
      OBVIOUS
    <3>1. u \in Unit
      BY DEF Lane, Unit
    <3>2. input(u) # Empty => input(u) \in execute_t
      BY <1>4, <3>1
    <3> QED
      BY <3>2, AluResultType
  <2> HIDE DEF Computed
  <2> QED
    BY <1>1, <1>2, <2>1 DEF ElasticEdge
<1>7. wb' \in [Lane -> result_t \cup {Empty}]
  BY <1>2, <1>3, UnitResultType
<1>8. next_q' \in Unit
  <2>1. last # Empty => last \in 0 .. 2
    BY <1>3 DEF Lane, Unit
  <2> HIDE DEF last
  <2>2. last # Empty => (last + 1) % 3 \in 0 .. 2
    BY <2>1
  <2> QED
    BY <1>1, <1>2, <2>2 DEF Unit
<1>9. MdTypes'
  <2>1. MULDIV \in Unit
    BY DEF MULDIV, Unit
  <2>2. input(MULDIV) \in execute_t \cup {Empty} /\ (input(MULDIV) # Empty => is_muldiv(input(MULDIV).op))
    BY <1>4, <2>1
  <2> QED
    BY <1>1, <1>2, <2>2, MdStep
<1> QED
  BY <1>5, <1>6, <1>7, <1>8, <1>9

(* What a slot issues is the instruction in it, for execution.             *)
LEMMA IssuedType ==
  ASSUME iq \in [Slot -> issue_t \cup {Empty}], NEW s, s # Empty => s \in Occupied
  PROVE  /\ Issued(s) \in execute_t \cup {Empty} /\ (Issued(s) = Empty <=> s = Empty)
         /\ s # Empty => Issued(s).meta = iq[s].meta /\ Issued(s).op = iq[s].op
<1>1. CASE s = Empty
  BY <1>1 DEF Issued
<1>2. CASE s # Empty
  <2> DEFINE q == iq[s]
  <2>1. q \in issue_t
    BY <1>2 DEF Occupied
  <2>2. Issued(s) = [meta |-> q.meta, op |-> q.op, a |-> q.a.value, b |-> q.b.value,
                     branch_offset |-> q.branch_offset]
    BY <1>2 DEF Issued
  <2> HIDE DEF q
  <2>3. /\ q.meta \in meta_t /\ q.op \in op_t /\ q.a \in operand_t /\ q.b \in operand_t
        /\ q.branch_offset \in Word
    BY <2>1 DEF issue_t
  <2>4. q.a.value \in Word /\ q.b.value \in Word
    BY <2>3 DEF operand_t
  <2>5. Issued(s) \in execute_t /\ Issued(s).meta = q.meta /\ Issued(s).op = q.op
    BY <2>2, <2>3, <2>4 DEF execute_t
  <2>6. Issued(s) # Empty
    BY <2>5, EmptyAssumption
  <2> QED
    BY <1>2, <2>5, <2>6 DEF q
<1> QED
  BY <1>1, <1>2

-----------------------------------------------------------------------------
(* The completion queue.                                                   *)
LEMMA CompletedEntryType ==
  ASSUME NEW e \in rob_entry_t, NEW r \in result_t
  PROVE  /\ CompletedEntry(e, r) \in rob_entry_t
         /\ CompletedEntry(e, r).done /\ CompletedEntry(e, r).meta = e.meta
         /\ CompletedEntry(e, r).serial = e.serial
         /\ e.terminal => CompletedEntry(e, r).terminal
<1> DEFINE E == [done : BOOLEAN, terminal : BOOLEAN, serial : BOOLEAN, fault : FaultCode,
                 trap_cause : Word, instruction : instruction_t \cup {NoWord}, meta : meta_t,
                 value : Word, branch : branch_result_t]
           faulty == r.branch.fault # FAULT_NONE
           ends == e.terminal \/ faulty
           code == IF faulty THEN r.branch.fault ELSE e.fault
           c == CompletedEntry(e, r)
<1>1. r.value \in Word /\ r.branch \in branch_result_t
  BY DEF result_t
<1>2. /\ e \in E /\ (e.terminal \/ e.serial => e.done)
      /\ (e.serial => ENABLE_TRAPS /\ e.instruction \in instruction_t)
      /\ (e.fault = FAULT_ILLEGAL => e.instruction \in instruction_t)
      /\ (~e.terminal => e.fault = FAULT_NONE)
  BY DEF rob_entry_t
<1>3. /\ ends \in BOOLEAN /\ code \in FaultCode
      /\ (code = FAULT_ILLEGAL => code = e.fault) /\ (~ends => code = e.fault /\ ~e.terminal)
      /\ (e.terminal => ends)
  <2>1. r.branch.fault \in {FAULT_NONE, FAULT_MISALIGNED}
    BY <1>1 DEF branch_result_t
  <2>2. e.fault \in FaultCode
    BY <1>2
  <2> QED
    BY <2>1, <2>2 DEF FaultCode, FAULT_NONE, FAULT_MISALIGNED, FAULT_ILLEGAL
<1>4. c = [e EXCEPT !.done = TRUE, !.value = r.value, !.branch = r.branch,
                    !.terminal = ends, !.fault = code]
  BY DEF CompletedEntry
<1> HIDE DEF c, ends, code, faulty
<1>5. /\ c \in E /\ c.done /\ c.serial = e.serial /\ c.meta = e.meta
      /\ c.terminal = ends /\ c.fault = code /\ c.instruction = e.instruction
  BY <1>1, <1>2, <1>3, <1>4
<1> HIDE DEF E
<1>6. c \in rob_entry_t
  <2>1. /\ c.terminal \/ c.serial => c.done
        /\ (c.serial => ENABLE_TRAPS /\ c.instruction \in instruction_t)
        /\ (c.fault = FAULT_ILLEGAL => c.instruction \in instruction_t)
        /\ (~c.terminal => c.fault = FAULT_NONE)
    BY <1>2, <1>3, <1>5
  <2> QED
    BY <1>5, <2>1 DEF rob_entry_t, E
<1> QED
  BY <1>3, <1>5, <1>6 DEF c

(* A decoded instruction makes a well-formed entry of the completion       *)
(* queue.                                                                  *)
LEMMA AllocatedEntryType ==
  ASSUME NEW d \in decode_t, NEW meta \in meta_t
  PROVE  AllocatedEntry(d, meta) \in rob_entry_t
<1> DEFINE E == [done : BOOLEAN, terminal : BOOLEAN, serial : BOOLEAN, fault : FaultCode,
                 trap_cause : Word, instruction : instruction_t \cup {NoWord}, meta : meta_t,
                 value : Word, branch : branch_result_t]
           a == AllocatedEntry(d, meta)
           done == d.terminal \/ d.serial
<1>1. /\ d.instruction \in instruction_t \cup {NoWord} /\ d.fault \in FaultCode
      /\ d.terminal \in BOOLEAN /\ d.serial \in BOOLEAN /\ d.trap_cause \in Word
      /\ (d.serial => ENABLE_TRAPS /\ d.instruction \in instruction_t)
      /\ (d.fault = FAULT_ILLEGAL => d.instruction \in instruction_t)
      /\ (~d.terminal => d.fault = FAULT_NONE)
  BY DEF decode_t
<1>2. NoBranch \in branch_result_t /\ 0 \in Word
  BY SmallWords DEF NoBranch, branch_result_t
<1>3. a = [done |-> done, terminal |-> d.terminal, serial |-> d.serial,
           fault |-> d.fault, trap_cause |-> d.trap_cause, instruction |-> d.instruction,
           meta |-> meta, value |-> 0, branch |-> NoBranch]
  BY DEF AllocatedEntry
<1>4. done \in BOOLEAN /\ done = (d.terminal \/ d.serial)
  OBVIOUS
<1> HIDE DEF a, done
<1>5. a \in E /\ a.done = done /\ a.terminal = d.terminal /\ a.serial = d.serial
      /\ a.fault = d.fault /\ a.instruction = d.instruction
  BY <1>1, <1>2, <1>3, <1>4
<1> HIDE DEF E
<1>6. /\ a.terminal \/ a.serial => a.done
      /\ (a.serial => ENABLE_TRAPS /\ a.instruction \in instruction_t)
      /\ (a.fault = FAULT_ILLEGAL => a.instruction \in instruction_t)
      /\ (~a.terminal => a.fault = FAULT_NONE)
  BY <1>1, <1>4, <1>5
<1>7. a \in rob_entry_t
  BY <1>5, <1>6 DEF rob_entry_t, E
<1> QED
  BY <1>7 DEF a

(* What an edge makes of each entry: a new one, one that leaves, one whose *)
(* result arrives, or the same.                                            *)
LEMMA CompletionIs ==
  ASSUME NEW allocate, NEW n, NEW completions, NEW flush, ~flush,
         CompletionTick(flush, allocate, completions, n), NEW t \in RobTag
  PROVE  \/ \E p \in Lane : p < Len(allocate) /\ allocate_tag(p) = t /\ rob'[t] = allocate[1 + p]
         \/ /\ ~ \E p \in Lane : p < Len(allocate) /\ allocate_tag(p) = t
            /\ \/ /\ rob[t] = Empty \/ \E p \in Lane : p < n /\ t = (head + p) % RobDepth
                  /\ rob'[t] = Empty
               \/ /\ rob[t] # Empty /\ ~ \E p \in Lane : p < n /\ t = (head + p) % RobDepth
                  /\ \/ \E r \in completions : /\ r.meta.tag = t
                                               /\ rob'[t] = CompletedEntry(rob[t], r)
                     \/ ~(\E r \in completions : r.meta.tag = t) /\ rob'[t] = rob[t]
<1> DEFINE Results == {r \in completions : r.meta.tag = t}
           Allocated == {p \in Lane : p < Len(allocate) /\ allocate_tag(p) = t}
           Retired == \E p \in Lane : p < n /\ t = (head + p) % RobDepth
           slot == CHOOSE p \in Allocated : TRUE
           result == CHOOSE r \in Results : TRUE
<1>1. rob'[t] = IF Allocated # {} THEN allocate[1 + slot]
                ELSE IF Retired \/ rob[t] = Empty THEN Empty
                ELSE IF Results # {} THEN CompletedEntry(rob[t], result)
                ELSE rob[t]
  BY DEF CompletionTick
<1>2. (Allocated # {} => slot \in Allocated) /\ (Results # {} => result \in Results)
  OBVIOUS
<1> HIDE DEF slot, result
<1>3. CASE Allocated # {}
  <2>1. slot \in Lane /\ slot < Len(allocate) /\ allocate_tag(slot) = t
    BY <1>2, <1>3
  <2> QED
    BY <1>1, <1>3, <2>1
<1>4. CASE Allocated = {} /\ (Retired \/ rob[t] = Empty)
  BY <1>1, <1>4
<1>5. CASE Allocated = {} /\ ~(Retired \/ rob[t] = Empty) /\ Results # {}
  <2>1. result \in completions /\ result.meta.tag = t
    BY <1>2, <1>5
  <2> QED
    BY <1>1, <1>5, <2>1
<1>6. CASE Allocated = {} /\ ~(Retired \/ rob[t] = Empty) /\ Results = {}
  BY <1>1, <1>6
<1> QED
  BY <1>3, <1>4, <1>5, <1>6

(* The completion queue stays in its type through results, retirement and  *)
(* allocation.                                                             *)
LEMMA CompletionTypesStep ==
  ASSUME rob \in [RobTag -> rob_entry_t \cup {Empty}], NEW allocate \in Seq(rob_entry_t),
         NEW flush, NEW completions \in SUBSET result_t, NEW n,
         CompletionTick(flush, allocate, completions, n)
  PROVE  rob' \in [RobTag -> rob_entry_t \cup {Empty}]
<1>1. CASE flush
  BY <1>1 DEF CompletionTick
<1>2. CASE ~flush
  <2>2. ASSUME NEW t \in RobTag PROVE rob'[t] \in rob_entry_t \cup {Empty}
    <3>1. \A p \in Lane : p < Len(allocate) => allocate[1 + p] \in rob_entry_t
      <4>1. \A i \in 1 .. Len(allocate) : allocate[i] \in rob_entry_t
        BY LenProperties
      <4>2. Len(allocate) \in Nat
        BY LenProperties
      <4> DEFINE size == Len(allocate)
      <4> HIDE DEF size
      <4>3. \A p \in Lane : p < size => 1 + p \in 1 .. size
        BY <4>2 DEF Lane, size
      <4> QED
        BY <4>1, <4>3 DEF size
    <3>2. \A r \in completions : rob[t] # Empty => CompletedEntry(rob[t], r) \in rob_entry_t
      BY CompletedEntryType
    <3>3. \/ \E p \in Lane : p < Len(allocate) /\ allocate_tag(p) = t /\ rob'[t] = allocate[1 + p]
          \/ rob'[t] = Empty
          \/ rob[t] # Empty /\ \E r \in completions : rob'[t] = CompletedEntry(rob[t], r)
          \/ rob'[t] = rob[t]
      BY <1>2, CompletionIs
    <3> QED
      BY <3>1, <3>2, <3>3
  <2>3. DOMAIN rob' = RobTag /\ rob' = [t \in RobTag |-> rob'[t]]
    BY <1>2 DEF CompletionTick
  <2> QED
    BY <2>2, <2>3
<1> QED
  BY <1>1, <1>2

-----------------------------------------------------------------------------
(* What retires, and the architectural state it leaves.                    *)
LEMMA LeavingTypes ==
  ASSUME QueuesBounded, RetireTypes, NEW w, WiresHold(w)
  PROVE  /\ \A p \in Lane : p < w.retiring => EntryAt(p) \in rob_entry_t
         /\ w.sys_retire => ENABLE_TRAPS /\ hd0.instruction \in instruction_t /\ hd0.serial
         /\ w.finishing => hd0 \in rob_entry_t
<1>1. /\ w.retiring \in 0 .. 2
      /\ w.retiring > 0 => Done(hd0)
      /\ w.retiring > 1 => Done(hd1)
      /\ w.finishing => Done(hd0)
  BY RetiringIs
<1>2. /\ Done(hd0) => hd0 \in rob_entry_t
      /\ Done(hd1) => hd1 \in rob_entry_t
  BY HeadTypes DEF Done
<1>3. \A p \in Lane : p < w.retiring => EntryAt(p) \in rob_entry_t
  <2> DEFINE n == w.retiring
  <2>1. n \in 0 .. 2 /\ (n > 0 => hd0 \in rob_entry_t) /\ (n > 1 => hd1 \in rob_entry_t)
    BY <1>1, <1>2
  <2> HIDE DEF n
  <2>2. \A p \in Lane : p < n => IF p = 0 THEN n > 0 ELSE n > 1
    BY <2>1 DEF Lane
  <2> QED
    BY <2>1, <2>2 DEF EntryAt, n
<1>4. w.sys_retire => w.retiring # 0 /\ hd0.serial
  BY DEF WiresHold
<1>5. w.sys_retire => hd0 \in rob_entry_t
  <2>1. w.retiring # 0 => w.retiring > 0
    BY <1>1
  <2> QED
    BY <1>1, <1>2, <1>4, <2>1
<1> QED
  BY <1>1, <1>2, <1>3, <1>4, <1>5 DEF rob_entry_t

(* The old value of the CSR that retires is a word.                        *)
LEMMA SystemValueType ==
  ASSUME QueuesBounded, RetireTypes, NEW w, WiresHold(w)
  PROVE  csr_old_value(w) \in Word
<1>1. 0 \in Word
  BY SmallWords
<1>2. w.sys_retire => ENABLE_TRAPS
  BY LeavingTypes
<1>3. ENABLE_TRAPS => csr_read(hd0.instruction.csr, irq_external) \in Word
  BY CsrReadType DEF RetireTypes
<1> QED
  BY <1>1, <1>2, <1>3 DEF csr_old_value

(* What a write port of the register bank writes is a word.                *)
LEMMA WritePortType ==
  ASSUME QueuesBounded, RetireTypes, ExecutionTypes, NEW w, WiresHold(w), NEW p \in Lane
  PROVE  WritePort(w, p).valid => WritePort(w, p).value \in Word
<1>1. csr_old_value(w) \in Word
  BY SystemValueType
<1>2. p \in w.wb_valid => wb[p].value \in Word
  <2>1. p \in w.wb_valid => wb[p] \in result_t
    BY CompletionsTypes
  <2> QED
    BY <2>1 DEF result_t
<1>3. p < w.retiring => EntryAt(p).value \in Word
  <2>1. p < w.retiring => EntryAt(p) \in rob_entry_t
    BY LeavingTypes
  <2> QED
    BY <2>1 DEF rob_entry_t
<1> QED
  BY <1>1, <1>2, <1>3 DEF WritePort

(* The register bank holds words.                                          *)
LEMMA RegisterTypesStep ==
  ASSUME RetireTypes, NEW port, \A p \in Lane : port[p].valid => port[p].value \in Word,
         RegisterTick(port)
  PROVE  registers' \in [RegisterWords -> Word]
<1>1. registers \in [RegisterWords -> Word] /\ 0 \in Word /\ 0 \in Lane /\ 1 \in Lane
  BY SmallWords DEF RetireTypes, Lane
<1> QED
  BY <1>1 DEF RegisterTick

(* The address after a retired instruction is a word.                      *)
LEMMA NextAddressType ==
  ASSUME NEW e \in rob_entry_t
  PROVE  NextAddress(e) \in Word
<1>1. e.branch \in branch_result_t /\ e.meta \in meta_t
  BY DEF rob_entry_t
<1>2. e.branch.target \in Word /\ e.meta.pc \in Word
  BY <1>1 DEF branch_result_t, meta_t
<1>3. (e.meta.pc + 4) % WordModulus \in Word
  <2>1. e.meta.pc + 4 \in Int
    BY <1>2, WordSize DEF Word
  <2> QED
    BY <2>1, Modulo
<1> QED
  BY <1>2, <1>3 DEF NextAddress

(* The value a CSR instruction that retires takes from the register bank.  *)
CommitSource ==
  registers[IF OUT_OF_ORDER THEN committed_map[hd0.instruction.rs1] ELSE hd0.instruction.rs1]

(* A CSR instruction retires only in a core with traps; its operands are   *)
(* words.                                                                  *)
LEMMA CommitTypes ==
  ASSUME QueuesBounded, RetireTypes, RenameTypes, NEW w, WiresHold(w), w.csr_commit
  PROVE  ENABLE_TRAPS /\ hd0.instruction.rs1 \in Word /\ CommitSource \in Word
<1> DEFINE rs1 == hd0.instruction.rs1
<1>1. w.sys_retire
  BY DEF WiresHold
<1>2. ENABLE_TRAPS /\ hd0.instruction \in instruction_t
  BY <1>1, LeavingTypes
<1>3. rs1 \in Arch
  BY <1>2 DEF instruction_t
<1>4. registers \in [RegisterWords -> Word] /\ committed_map \in [Arch -> Phys]
  BY DEF RetireTypes, RenameTypes
<1>5. CommitSource = registers[IF OUT_OF_ORDER THEN committed_map[rs1] ELSE rs1]
  BY DEF CommitSource
<1> HIDE DEF rs1
<1>6. rs1 \in Word
  BY <1>2, <1>3, TrapsAssumption, Tiny5Assumption, WordSize DEF Arch, Word
<1>7. CommitSource \in Word
  BY <1>3, <1>4, <1>5 DEF RegisterWords
<1> QED
  BY <1>2, <1>6, <1>7 DEF rs1

(* CSRs, program end and the next address of the retired path stay in      *)
(* their types.                                                            *)
LEMMA SystemTypesStep ==
  ASSUME QueuesBounded, RetireTypes, RenameTypes, NEW w, WiresHold(w), NEW d, SystemEdge(w, d)
  PROVE  /\ sys_pending' \in BOOLEAN /\ arch_next_pc' \in Word /\ csr' \in CsrRegisters
         /\ halted' \in BOOLEAN /\ fault' \in BOOLEAN /\ fault_code' \in FaultCode
<1> DEFINE rs1 == hd0.instruction.rs1
           source == registers[IF OUT_OF_ORDER THEN committed_map[rs1] ELSE rs1]
           last == EntryAt(w.retiring - 1)
           hd == [p \in Lane |-> EntryAt(p)]
<1>1. sys_pending' \in BOOLEAN
  BY DEF SystemEdge
<1>2. csr \in CsrRegisters /\ arch_next_pc \in Word /\ csr.mtvec \in Word /\ csr.mepc \in Word
  BY DEF RetireTypes, CsrRegisters
<1>3. w.retiring \in 0 .. 2
  BY RetiringIs
<1>4. arch_next_pc' \in Word
  <2>1. w.retiring # 0 => last \in rob_entry_t
    <3>1. w.retiring # 0 => w.retiring - 1 \in Lane /\ w.retiring - 1 < w.retiring
      <4> DEFINE n == w.retiring
      <4>1. n \in 0 .. 2
        BY <1>3
      <4> HIDE DEF n
      <4>2. n # 0 => n - 1 \in 0 .. 1 /\ n - 1 < n
        BY <4>1
      <4> QED
        BY <4>2 DEF n, Lane
    <3> QED
      BY <3>1, LeavingTypes
  <2>2. w.retiring # 0 => NextAddress(last) \in Word
    <3> HIDE DEF last
    <3> QED
      BY <2>1, NextAddressType
  <2>3. arch_next_pc' = IF w.trap.valid THEN csr.mtvec
                        ELSE IF w.mret_commit THEN csr.mepc
                        ELSE IF w.retiring = 0 THEN arch_next_pc
                        ELSE NextAddress(last)
    BY DEF SystemEdge
  <2> HIDE DEF last
  <2> QED
    BY <1>2, <2>2, <2>3
<1>5. csr' \in CsrRegisters
  <2>1. CsrTick(w.trap, w.mret_commit, w.csr_commit, hd0.instruction, source, irq_external)
    BY DEF SystemEdge
  <2>2. w.trap.valid => w.trap.pc \in Word /\ w.trap.cause \in Word /\ w.trap.tval \in Word
    <3>1. w.trap = trap_wire
      BY DEF WiresHold
    <3> QED
      BY <3>1, TrapTypes
  <2>3. w.csr_commit => ENABLE_TRAPS /\ rs1 \in Word /\ source \in Word
    BY CommitTypes DEF CommitSource
  <2> HIDE DEF source
  <2> QED
    BY <1>2, <2>1, <2>2, <2>3, CsrStep
<1>6. halted' \in BOOLEAN /\ fault' \in BOOLEAN /\ fault_code' \in FaultCode
  <2>1. RetireTick(hd, w.retiring, w.finishing, csr_old_value(w))
    BY DEF SystemEdge
  <2>2. hd[0] = hd0
    BY DEF Lane, EntryAt
  <2> HIDE DEF hd
  <2>3. /\ halted' = IF w.finishing THEN hd0.fault = FAULT_NONE ELSE halted
        /\ fault' = IF w.finishing THEN hd0.fault # FAULT_NONE ELSE fault
        /\ fault_code' = IF w.finishing THEN hd0.fault ELSE fault_code
    BY <2>1, <2>2 DEF RetireTick
  <2>4. w.finishing => hd0.fault \in FaultCode
    BY LeavingTypes DEF rob_entry_t
  <2> QED
    BY <2>3, <2>4 DEF RetireTypes
<1> QED
  BY <1>1, <1>4, <1>5, <1>6

(* The pending branch is a tag or none                                     *)
(* (control/branch_control_blocking.sv).                                   *)
LEMMA PendingTypeStep ==
  ASSUME pending \in RobTag \cup {Empty}, NEW finishing, NEW recovery, NEW completions,
         NEW bundle, DOMAIN bundle \subseteq 1 .. 2, \A i \in DOMAIN bundle : bundle[i].tag \in RobTag,
         BranchTick(finishing, recovery, bundle, completions)
  PROVE  pending' \in RobTag \cup {Empty}
<1> DEFINE branches == {i \in DOMAIN bundle : is_branch(bundle[i].op)}
           last == CHOOSE i \in branches : \A j \in branches : j <= i
<1>1. pending' \in {Empty, pending} \/ (branches # {} /\ pending' = bundle[last].tag)
  BY DEF BranchTick
<1>2. branches # {} => last \in branches
  <2>1. branches \in SUBSET (1 .. 2)
    OBVIOUS
  <2> HIDE DEF branches
  <2> QED
    BY <2>1, YoungestOf
<1>3. branches \subseteq DOMAIN bundle
  OBVIOUS
<1> HIDE DEF branches, last
<1> QED
  BY <1>1, <1>2, <1>3

-----------------------------------------------------------------------------
(* An edge from dispatch to retirement, by what enters and what leaves.    *)
Writers(d) == [i \in 1 .. d.enqueued |-> d.prepared[i].meta]
Leaving(w) == IF w.sys_retire THEN <<>> ELSE [i \in 1 .. w.retiring |-> EntryAt(i - 1).meta]
Bundle(d) == [i \in 1 .. d.n |-> [op |-> d.dispatched[i].op, tag |-> d.tags[i - 1]]]
Allocations(d) == [i \in 1 .. d.n |-> AllocatedEntry(d.dispatched[i], d.prepared[i].meta)]
Removed(chosen) == {chosen[p] : p \in Lane} \ {Empty}
Sent(chosen) == [p \in Lane |-> Issued(chosen[p])]

BackSteps(w, d, chosen) ==
  /\ RegisterTick([p \in Lane |-> WritePort(w, p)])
  /\ OUT_OF_ORDER => RenameTick(w.restore, Writers(d), w.completions, Leaving(w)) /\ UNCHANGED inorderVars
  /\ ~OUT_OF_ORDER => InorderTick(w.backend_flush, Writers(d), Leaving(w)) /\ UNCHANGED renameVars
  /\ BranchTick(w.finishing, w.trap.valid \/ w.mret_commit, Bundle(d), w.completions)
  /\ IssueTick(w.backend_flush, Removed(chosen), SubSeq(d.prepared, 1, d.enqueued), w.completions)
  /\ ExecutionTick(w.backend_flush, Sent(chosen))
  /\ CompletionTick(w.backend_flush, Allocations(d), w.completions, w.retiring)

(* An edge of the back end as the conjunction of the ticks of its          *)
(* registers.                                                              *)
LEMMA BackIs ==
  ASSUME NEW w, NEW d, NEW chosen, BackEdge(w, d, chosen)
  PROVE  BackSteps(w, d, chosen)
BY DEF BackEdge, BackSteps, Writers, Leaving, Bundle, Allocations, Removed, Sent

(* What an edge is, short of reset: the wires, the bundle and the choice.  *)
EdgeHolds(w, d, chosen) ==
  /\ WiresHold(w) /\ DispatchFacts(w, d)
  /\ DOMAIN chosen = Lane
  /\ \A p \in Lane : chosen[p] # Empty =>
       /\ chosen[p] \in Occupied /\ OperandsReady(chosen[p]) /\ stage_ready(p)
       /\ ~w.backend_flush /\ ~halted /\ ~fault
  /\ chosen[0] # Empty => chosen[1] # chosen[0]
  /\ FrontEdge(w, d) /\ SystemEdge(w, d) /\ BackSteps(w, d, chosen)

(* A clock edge has wires, a dispatch and a selection that satisfy         *)
(* EdgeHolds: the form in which all later proofs take an edge.             *)
LEMMA EdgeIs ==
  ASSUME QueuesBounded, id_q \in Seq(decode_t), iq \in [Slot -> issue_t \cup {Empty}], ClockEdge
  PROVE  \E w, d, chosen : EdgeHolds(w, d, chosen)
<1> DEFINE w == RecoveryWires
           d == Dispatch(w)
           chosen == IssueWires(w)
           Ready(p) == /\ stage_ready(p) /\ p < ISSUE_WIDTH
                       /\ ~w.backend_flush /\ ~halted /\ ~fault
           ready == [p \in Lane |-> Ready(p)]
           available == muldiv_available /\ \A p \in Lane : ex[p] # Empty => ~is_muldiv(ex[p].op)
<1>1. WiresHold(w)
  BY Wires
<1>2. DispatchFacts(w, d)
  <2> HIDE DEF w
  <2> QED
    BY DispatchIs
<1>3. chosen = Scheduled(ready, available, head)
  BY DEF IssueWires
<1>4. FrontEdge(w, d) /\ SystemEdge(w, d) /\ BackEdge(w, d, chosen)
  BY DEF ClockEdge, EdgeAfter, EdgeWith
<1> HIDE DEF w, d, chosen
<1>5. /\ DOMAIN chosen = Lane
      /\ \A p \in Lane : chosen[p] # Empty =>
           chosen[p] \in Occupied /\ ready[p] /\ OperandsReady(chosen[p])
      /\ chosen[0] # Empty => chosen[1] # chosen[0]
  <2> HIDE DEF ready, available
  <2>1. head \in RobTag
    BY DEF QueuesBounded
  <2> QED
    BY <1>3, <2>1, ScheduledIs
<1>6. \A p \in Lane : ready[p] = Ready(p)
  OBVIOUS
<1>7. BackSteps(w, d, chosen)
  BY <1>4, BackIs
<1>8. EdgeHolds(w, d, chosen)
  BY <1>1, <1>2, <1>4, <1>5, <1>6, <1>7 DEF EdgeHolds
<1> QED
  BY <1>8

(* The bundles an edge hands around (writers, leaving, dispatched,         *)
(* allocated) are well formed and belong to the instructions they name.    *)
LEMMA BundleTypes ==
  ASSUME QueuesBounded, RenameTypes, RetireTypes, NEW w, NEW d, WiresHold(w), DispatchFacts(w, d)
  PROVE  /\ DOMAIN Writers(d) = 1 .. d.enqueued /\ 1 .. d.enqueued \subseteq 1 .. d.n
         /\ \A i \in 1 .. d.enqueued : Writers(d)[i] = d.prepared[i].meta /\ Writers(d)[i] \in meta_t
         /\ DOMAIN Leaving(w) \subseteq 1 .. w.retiring
         /\ \A i \in DOMAIN Leaving(w) : Leaving(w)[i] \in meta_t
         /\ DOMAIN Bundle(d) = 1 .. d.n
         /\ \A i \in 1 .. d.n : /\ Bundle(d)[i].tag = allocate_tag(i - 1) /\ Bundle(d)[i].tag \in RobTag
                                /\ Bundle(d)[i].op = id_q[i].op
         /\ Allocations(d) \in Seq(rob_entry_t) /\ Len(Allocations(d)) = d.n
         /\ \A i \in 1 .. d.n : Allocations(d)[i] = AllocatedEntry(id_q[i], d.prepared[i].meta)
         /\ SubSeq(d.prepared, 1, d.enqueued) \in Seq(issue_t)
         /\ Len(SubSeq(d.prepared, 1, d.enqueued)) = d.enqueued
         /\ \A i \in 1 .. d.enqueued : SubSeq(d.prepared, 1, d.enqueued)[i] = d.prepared[i]
<1> DEFINE n == d.n
           k == d.enqueued
<1>1. /\ n \in 0 .. 2 /\ k \in 0 .. n /\ d.tags = [p \in Lane |-> allocate_tag(p)]
      /\ \A i \in 1 .. n : d.dispatched[i] = id_q[i] /\ id_q[i] \in decode_t
  BY DEF DispatchFacts
<1>2. /\ d.prepared \in Seq(issue_t) /\ Len(d.prepared) = n
      /\ \A i \in 1 .. n : d.prepared[i] \in issue_t
      /\ \A i \in 1 .. n : d.prepared[i].meta.tag = allocate_tag(i - 1)
  <2>1. \A i \in 1 .. d.n : d.prepared[i].meta = [pc |-> id_q[i].pc, rd |-> id_q[i].rd,
                                                tag |-> allocate_tag(i - 1),
                                                pdst |-> Destination(i), old_pdst |-> Replaced(i)]
    BY PreparedTypes
  <2>2. d.prepared \in Seq(issue_t) /\ Len(d.prepared) = n
        /\ \A i \in 1 .. n : d.prepared[i] \in issue_t
    BY PreparedTypes
  <2>3. ASSUME NEW i \in 1 .. d.n PROVE d.prepared[i].meta.tag = allocate_tag(i - 1)
    <3> DEFINE tag == allocate_tag(i - 1)
    <3>1. d.prepared[i].meta = [pc |-> id_q[i].pc, rd |-> id_q[i].rd, tag |-> tag,
                                pdst |-> Destination(i), old_pdst |-> Replaced(i)]
      BY <2>1
    <3> HIDE DEF tag
    <3> QED
      BY <3>1 DEF tag
  <2> QED
    BY <2>2, <2>3
<1>3. \A i \in 1 .. n : d.prepared[i].meta \in meta_t
  BY <1>2 DEF issue_t
<1>4. \A i \in 1 .. n : allocate_tag(i - 1) \in RobTag
  BY <1>2, <1>3 DEF meta_t
<1>5. 1 .. k \subseteq 1 .. n /\ n \in Nat /\ k \in 0 .. n
  <2> HIDE DEF n, k
  <2> QED
    BY <1>1
<1>6. DOMAIN Writers(d) = 1 .. k /\ \A i \in 1 .. k : Writers(d)[i] = d.prepared[i].meta
  BY DEF Writers
<1>7. DOMAIN Leaving(w) \subseteq 1 .. w.retiring /\ \A i \in DOMAIN Leaving(w) : Leaving(w)[i] \in meta_t
  <2>1. \A i \in 1 .. w.retiring : EntryAt(i - 1).meta \in meta_t
    <3> SUFFICES ASSUME NEW i \in 1 .. w.retiring PROVE EntryAt(i - 1).meta \in meta_t
      OBVIOUS
    <3> DEFINE m == w.retiring
    <3>1. m \in 0 .. 2 /\ i \in 1 .. m
      BY RetiringIs
    <3> HIDE DEF m
    <3>2. i - 1 \in Lane /\ i - 1 < m
      BY <3>1 DEF Lane
    <3>3. EntryAt(i - 1) \in rob_entry_t
      BY <3>2, LeavingTypes DEF m
    <3> QED
      BY <3>3 DEF rob_entry_t
  <2>2. CASE w.sys_retire
    <3>1. Leaving(w) = <<>> /\ DOMAIN Leaving(w) = {}
      BY <2>2 DEF Leaving
    <3> QED
      BY <3>1
  <2>3. CASE ~w.sys_retire
    BY <2>1, <2>3 DEF Leaving
  <2> QED
    BY <2>2, <2>3
<1>8. /\ DOMAIN Bundle(d) = 1 .. n
      /\ \A i \in 1 .. n : Bundle(d)[i].tag = d.tags[i - 1] /\ Bundle(d)[i].op = d.dispatched[i].op
  BY DEF Bundle
<1>9. \A i \in 1 .. n : d.tags[i - 1] = allocate_tag(i - 1)
  <2> HIDE DEF n
  <2>1. \A i \in 1 .. n : i - 1 \in Lane
    BY <1>1 DEF Lane
  <2> QED
    BY <1>1, <2>1
<1>10. /\ Allocations(d) \in [1 .. n -> rob_entry_t]
       /\ \A i \in 1 .. n : Allocations(d)[i] = AllocatedEntry(id_q[i], d.prepared[i].meta)
  <2>1. \A i \in 1 .. n : AllocatedEntry(id_q[i], d.prepared[i].meta) \in rob_entry_t
    BY <1>1, <1>3, AllocatedEntryType
  <2> QED
    BY <1>1, <2>1 DEF Allocations
<1> HIDE DEF n, k
<1>11. Allocations(d) \in Seq(rob_entry_t) /\ Len(Allocations(d)) = n
  BY <1>5, <1>10, SeqDef, LenProperties
<1>12. /\ SubSeq(d.prepared, 1, k) \in Seq(issue_t) /\ Len(SubSeq(d.prepared, 1, k)) = k
       /\ \A i \in 1 .. k : SubSeq(d.prepared, 1, k)[i] = d.prepared[i]
  <2>1. k \in 0 .. Len(d.prepared)
    BY <1>2, <1>5
  <2> QED
    BY <1>2, <2>1, PrefixTypes
<1>13. /\ \A i \in 1 .. k : Writers(d)[i] = d.prepared[i].meta /\ Writers(d)[i] \in meta_t
       /\ \A i \in 1 .. n : /\ Bundle(d)[i].tag = allocate_tag(i - 1) /\ Bundle(d)[i].tag \in RobTag
                            /\ Bundle(d)[i].op = id_q[i].op
  BY <1>1, <1>3, <1>4, <1>5, <1>6, <1>8, <1>9
<1> QED
  BY <1>5, <1>6, <1>7, <1>8, <1>10, <1>11, <1>12, <1>13 DEF n, k

-----------------------------------------------------------------------------
(* The types hold in every reachable state.                                *)
TypesInv == TypeOK /\ QueuesInv

(* An edge keeps the types of the back end.                                *)
LEMMA BackTypesStep ==
  ASSUME TypesInv, NEW w, NEW d, NEW chosen, EdgeHolds(w, d, chosen)
  PROVE  /\ RenameTypes' /\ ExecutionTypes'
         /\ rob' \in [RobTag -> rob_entry_t \cup {Empty}] /\ pending' \in RobTag \cup {Empty}
         /\ registers' \in [RegisterWords -> Word]
<1>1. /\ QueuesBounded /\ RenameTypes /\ ExecutionTypes /\ RetireTypes
      /\ WiresHold(w) /\ DispatchFacts(w, d) /\ BackSteps(w, d, chosen)
  BY DEF TypesInv, TypeOK, EdgeHolds
<1>2. w.completions \in SUBSET result_t
  BY <1>1, CompletionsTypes
<1>3. /\ w.retiring \in 0 .. 2 /\ d.n \in 0 .. 2 /\ d.enqueued \in 0 .. d.n
  BY <1>1, RetiringIs DEF DispatchFacts
<1>4. /\ DOMAIN Writers(d) = 1 .. d.enqueued /\ 1 .. d.enqueued \subseteq 1 .. d.n
      /\ \A i \in 1 .. d.enqueued : Writers(d)[i] \in meta_t
      /\ DOMAIN Leaving(w) \subseteq 1 .. w.retiring
      /\ \A i \in DOMAIN Leaving(w) : Leaving(w)[i] \in meta_t
      /\ DOMAIN Bundle(d) = 1 .. d.n /\ \A i \in 1 .. d.n : Bundle(d)[i].tag \in RobTag
      /\ Allocations(d) \in Seq(rob_entry_t)
      /\ SubSeq(d.prepared, 1, d.enqueued) \in Seq(issue_t)
  BY <1>1, BundleTypes
<1>5. 1 .. d.n \subseteq 1 .. 2 /\ 1 .. w.retiring \subseteq 1 .. 2
  <2> DEFINE n == d.n
             m == w.retiring
  <2>1. n \in 0 .. 2 /\ m \in 0 .. 2
    BY <1>3
  <2> HIDE DEF n, m
  <2>2. 1 .. n \subseteq 1 .. 2 /\ 1 .. m \subseteq 1 .. 2
    BY <2>1
  <2> QED
    BY <2>2 DEF n, m
<1>6. /\ DOMAIN Writers(d) \subseteq 1 .. 2 /\ \A i \in DOMAIN Writers(d) : Writers(d)[i] \in meta_t
      /\ DOMAIN Leaving(w) \subseteq 1 .. 2 /\ \A i \in DOMAIN Leaving(w) : Leaving(w)[i] \in meta_t
      /\ DOMAIN Bundle(d) \subseteq 1 .. 2 /\ \A i \in DOMAIN Bundle(d) : Bundle(d)[i].tag \in RobTag
  BY <1>4, <1>5
<1>7. RenameTypes'
  <2>1. CASE OUT_OF_ORDER
    <3>1. RenameTick(w.restore, Writers(d), w.completions, Leaving(w)) /\ UNCHANGED inorderVars
      BY <1>1, <2>1 DEF BackSteps
    <3>2. /\ speculative_map' \in [Arch -> Phys] /\ committed_map' \in [Arch -> Phys]
          /\ free_q' \subseteq Phys /\ ready_q' \in [Phys -> BOOLEAN]
      BY <1>1, <1>6, <3>1, RenameTypesStep
    <3> QED
      BY <1>1, <3>1, <3>2 DEF RenameTypes, inorderVars
  <2>2. CASE ~OUT_OF_ORDER
    <3>1. InorderTick(w.backend_flush, Writers(d), Leaving(w)) /\ UNCHANGED renameVars
      BY <1>1, <2>2 DEF BackSteps
    <3>2. busy' \subseteq Arch /\ producer' \in [Arch -> RobTag]
      BY <1>1, <1>6, <3>1, InorderTypesStep
    <3> QED
      BY <1>1, <3>1, <3>2 DEF RenameTypes, renameVars
  <2> QED
    BY <2>1, <2>2
<1>8. ExecutionTypes'
  <2>1. iq' \in [Slot -> issue_t \cup {Empty}]
    <3>1. iq \in [Slot -> issue_t \cup {Empty}]
      BY <1>1 DEF ExecutionTypes
    <3>2. IssueTick(w.backend_flush, Removed(chosen), SubSeq(d.prepared, 1, d.enqueued), w.completions)
      BY <1>1 DEF BackSteps
    <3> QED
      BY <1>2, <1>4, <3>1, <3>2, IssueTypesStep
  <2>2. Sent(chosen) \in [Lane -> execute_t \cup {Empty}]
    <3>1. \A p \in Lane : chosen[p] # Empty => chosen[p] \in Occupied
      BY DEF EdgeHolds
    <3>2. \A p \in Lane : Issued(chosen[p]) \in execute_t \cup {Empty}
      BY <1>1, <3>1, IssuedType DEF ExecutionTypes
    <3> QED
      BY <3>2 DEF Sent
  <2>3. /\ ex' \in [Lane -> execute_t \cup {Empty}]
        /\ alu' \in [Lane -> result_t \cup {Empty}] /\ wb' \in [Lane -> result_t \cup {Empty}]
        /\ next_q' \in Unit /\ MdTypes'
    <3>1. ExecutionTick(w.backend_flush, Sent(chosen))
      BY <1>1 DEF BackSteps
    <3> QED
      BY <1>1, <2>2, <3>1, ExecutionTypesStep
  <2> QED
    BY <2>1, <2>3 DEF ExecutionTypes
<1>9. rob' \in [RobTag -> rob_entry_t \cup {Empty}]
  <2>1. CompletionTick(w.backend_flush, Allocations(d), w.completions, w.retiring)
    BY <1>1 DEF BackSteps
  <2>2. rob \in [RobTag -> rob_entry_t \cup {Empty}]
    BY <1>1 DEF RetireTypes
  <2> QED
    BY <1>2, <1>4, <2>1, <2>2, CompletionTypesStep
<1>10. pending' \in RobTag \cup {Empty}
  <2>1. BranchTick(w.finishing, w.trap.valid \/ w.mret_commit, Bundle(d), w.completions)
    BY <1>1 DEF BackSteps
  <2>2. pending \in RobTag \cup {Empty}
    BY <1>1 DEF RetireTypes
  <2> DEFINE recovery == w.trap.valid \/ w.mret_commit
  <2> HIDE DEF recovery
  <2>3. BranchTick(w.finishing, recovery, Bundle(d), w.completions)
    BY <2>1 DEF recovery
  <2> QED
    BY <1>6, <2>2, <2>3, PendingTypeStep
<1>11. registers' \in [RegisterWords -> Word]
  <2> DEFINE port == [p \in Lane |-> WritePort(w, p)]
  <2>1. RegisterTick(port)
    BY <1>1 DEF BackSteps
  <2>2. \A p \in Lane : port[p].valid => port[p].value \in Word
    BY <1>1, WritePortType
  <2> HIDE DEF port
  <2> QED
    BY <1>1, <2>1, <2>2, RegisterTypesStep
<1> QED
  BY <1>7, <1>8, <1>9, <1>10, <1>11

(* A clock edge preserves the types of all registers.                      *)
LEMMA TypesClock == TypesInv /\ ClockEdge /\ InterruptLine => TypesInv'
<1> SUFFICES ASSUME TypesInv, ClockEdge, InterruptLine PROVE TypesInv'
  OBVIOUS
<1>1. QueuesBounded /\ FrontTypes /\ MemoryTypes /\ RenameTypes /\ ExecutionTypes /\ RetireTypes /\ QueuesInv
  BY DEF TypesInv, TypeOK
<1>2. \E w, d, chosen : EdgeHolds(w, d, chosen)
  BY <1>1, EdgeIs DEF FrontTypes, ExecutionTypes
<1>3. PICK w, d, chosen : EdgeHolds(w, d, chosen)
  BY <1>2
<1>4. /\ RenameTypes' /\ ExecutionTypes'
      /\ rob' \in [RobTag -> rob_entry_t \cup {Empty}] /\ pending' \in RobTag \cup {Empty}
      /\ registers' \in [RegisterWords -> Word]
  BY <1>3, BackTypesStep
<1>5. /\ WiresHold(w) /\ DispatchFacts(w, d) /\ FrontEdge(w, d) /\ SystemEdge(w, d)
  BY <1>3 DEF EdgeHolds
<1>6. /\ sys_pending' \in BOOLEAN /\ arch_next_pc' \in Word /\ csr' \in CsrRegisters
      /\ halted' \in BOOLEAN /\ fault' \in BOOLEAN /\ fault_code' \in FaultCode
  BY <1>1, <1>5, SystemTypesStep
<1>7. w.fetch_stop \in BOOLEAN /\ w.redirect.valid \in BOOLEAN /\ (w.redirect.valid => w.redirect.pc \in Word)
  BY <1>1, <1>5, RedirectTypes
<1>8. d.n \in 0 .. 2 /\ d.n <= Len(id_q)
  BY <1>5 DEF DispatchFacts
<1>9. /\ MemoryTypes'
      /\ req_valid' \in BOOLEAN /\ outstanding' \in BOOLEAN /\ stopped' \in BOOLEAN
      /\ redirect_pending' \in BOOLEAN /\ out_valid' \in BOOLEAN
      /\ req_addr' \in Word /\ fetch_pc' \in Word /\ pending_pc' \in Word /\ restart_pc' \in Word
      /\ out_valid' => out_data' \in fetch_t
      /\ fifo_q' \in Seq(fetch_t) /\ if_q' \in Seq(fetch_t) /\ id_q' \in Seq(decode_t)
      /\ fetch_stopped' \in BOOLEAN /\ terminal_enqueued' \in BOOLEAN
  BY <1>1, <1>5, <1>7, <1>8, FrontTypesStep
<1>10. FrontTypes'
  BY <1>6, <1>9 DEF FrontTypes
<1>11. QueuesInv' /\ QueuesBounded'
  BY <1>1, QueuesInvClock DEF QueuesInv
<1>12. tail' \in RobTag
  <2>1. head' \in RobTag /\ count' \in 0 .. RobDepth /\ tail' = (head' + count') % RobDepth
    BY <1>11 DEF QueuesBounded
  <2> QED
    BY <2>1, Advances
<1>13. irq_external' \in BOOLEAN
  BY <1>1 DEF InterruptLine, RetireTypes
<1>14. RetireTypes'
  BY <1>4, <1>6, <1>12, <1>13 DEF RetireTypes, RegisterWords
<1> QED
  BY <1>4, <1>9, <1>10, <1>11, <1>14 DEF TypesInv, TypeOK

(* The state after reset, whether it is the first or a later one.          *)
LEMMA ResetTypes ==
  /\ [t \in RobTag |-> Empty] \in [RobTag -> rob_entry_t \cup {Empty}]
  /\ [s \in Slot |-> Empty] \in [Slot -> issue_t \cup {Empty}]
  /\ [p \in Lane |-> Empty] \in [Lane -> execute_t \cup {Empty}]
  /\ [p \in Lane |-> Empty] \in [Lane -> result_t \cup {Empty}]
  /\ [r \in Arch |-> r] \in [Arch -> Phys] /\ Phys \ Arch \subseteq Phys
  /\ [p \in Phys |-> TRUE] \in [Phys -> BOOLEAN]
  /\ [r \in Arch |-> 0] \in [Arch -> RobTag]
  /\ [r \in RegisterWords |-> 0] \in [RegisterWords -> Word]
  /\ 0 \in Word /\ 0 \in Unit /\ 0 \in RobTag
  /\ CsrResetValue \in CsrRegisters /\ FAULT_NONE \in FaultCode
<1>1. 0 \in Word /\ 0 \in RobTag /\ Arch \subseteq Phys
  BY SmallWords
<1>2. CsrResetValue \in CsrRegisters
  BY <1>1 DEF CsrResetValue, CsrRegisters
<1> QED
  BY <1>1, <1>2 DEF Unit, FaultCode

(* The reset values of the multiply and divide unit are in their types.    *)
LEMMA MdResetTypes ==
  /\ MdReset \in MdRegisters
  /\ MdReset.busy = FALSE /\ MdReset.product \div WordModulus \in Word
<1>1. 0 \in Word /\ 0 \in 0 .. XLEN /\ WordModulus \in Nat /\ WordModulus >= 1
  BY SmallWords, WordSize
<1>2. MdReset \in MdRegisters
  BY <1>1 DEF MdReset, MdRegisters
<1>3. 0 \div WordModulus = 0
  BY <1>1
<1> QED
  BY <1>1, <1>2, <1>3 DEF MdReset

(* The initial states are in their types.                                  *)
LEMMA TypesInit == Init => TypesInv
<1> SUFFICES ASSUME Init PROVE TypesInv
  OBVIOUS
<1>1. QueuesInv /\ QueuesBounded
  BY QueuesInvInit DEF QueuesInv
<1>2. FrontTypes
  <2>1. Fetch!Init /\ fifo_q = <<>> /\ if_q = <<>> /\ id_q = <<>>
    BY DEF Init, Fifo!QueueInit, IfId!QueueInit, IdDispatch!QueueInit
  <2>2. fetch_stopped = FALSE /\ terminal_enqueued = FALSE /\ sys_pending = FALSE
    BY DEF Init
  <2>3. <<>> \in Seq(fetch_t) /\ <<>> \in Seq(decode_t)
    BY EmptySeq
  <2> QED
    BY <2>1, <2>2, <2>3, ResetTypes DEF Fetch!Init, FrontTypes
<1>3. MemoryTypes
  <2>1. Memory!MemInit /\ program \in Programs
    BY DEF Init
  <2>2. mem_rsp = [valid |-> FALSE, data |-> NoWord, status |-> "reserved"]
    BY <2>1 DEF Memory!MemInit, Memory!NoResponse
  <2>3. mem_req_ready \in BOOLEAN
    <3>1. mem_req_ready = (timing.request_wait_cycles = 0)
      BY <2>1 DEF Memory!MemInit
    <3>2. CASE timing.request_wait_cycles = 0
      BY <3>1, <3>2
    <3>3. CASE ~(timing.request_wait_cycles = 0)
      BY <3>1, <3>3
    <3> QED
      BY <3>2, <3>3
  <2>4. program \in Seq(instruction_t)
    BY <2>1, CoreProgramsAssumption
  <2>5. pending_address \in Word /\ mem_state \in Memory!MemState
    BY <2>1, ResetTypes DEF Memory!MemInit, Memory!MemState
  <2> QED
    BY <2>2, <2>3, <2>4, <2>5 DEF MemoryTypes
<1>4. RenameTypes
  <2>1. RenameInit /\ InorderInit
    BY DEF Init
  <2> QED
    BY <2>1, ResetTypes DEF RenameInit, InorderInit, RenameTypes
<1>5. ExecutionTypes
  <2>1. IssueInit /\ ExecutionInit
    BY DEF Init
  <2>2. MdTypes
    BY <2>1, MdResetTypes DEF ExecutionInit, MdInit, MdTypes
  <2> QED
    BY <2>1, <2>2, ResetTypes DEF IssueInit, ExecutionInit, ExecutionTypes
<1>6. RetireTypes
  <2>1. /\ CompletionInit /\ RetireInit /\ BranchInit /\ CsrInit
        /\ arch_next_pc = 0 /\ registers = [r \in RegisterWords |-> 0] /\ irq_external = FALSE
    BY DEF Init
  <2> QED
    BY <2>1, ResetTypes DEF CompletionInit, RetireInit, BranchInit, CsrInit, RetireTypes
<1> QED
  BY <1>1, <1>2, <1>3, <1>4, <1>5, <1>6 DEF TypesInv, TypeOK

(* The reset values are in their types.                                    *)
LEMMA TypesReset == TypesInv /\ ResetEdge /\ InterruptLine => TypesInv'
<1> SUFFICES ASSUME TypesInv, ResetEdge, InterruptLine PROVE TypesInv'
  OBVIOUS
<1>0. QueuesBounded /\ FrontTypes /\ MemoryTypes /\ RenameTypes /\ ExecutionTypes /\ RetireTypes /\ QueuesInv
  BY DEF TypesInv, TypeOK
<1>1. QueuesInv' /\ QueuesBounded'
  BY <1>0, QueuesInvReset DEF QueuesInv
<1>2. FrontTypes'
  <2>1. Fetch!Reset /\ fifo_q' = <<>> /\ if_q' = <<>> /\ id_q' = <<>>
    BY DEF ResetEdge, Fifo!QueueTick, IfId!QueueTick, IdDispatch!QueueTick
  <2>2. fetch_stopped' = FALSE /\ terminal_enqueued' = FALSE /\ sys_pending' = FALSE
    BY DEF ResetEdge, PathReset
  <2>3. <<>> \in Seq(fetch_t) /\ <<>> \in Seq(decode_t)
    BY EmptySeq
  <2> QED
    BY <2>1, <2>2, <2>3, ResetTypes DEF Fetch!Reset, FrontTypes
<1>3. MemoryTypes'
  <2>1. Memory!reset_protocol
    BY DEF ResetEdge
  <2>2. mem_rsp' = [valid |-> FALSE, data |-> NoWord, status |-> "reserved"]
    BY <2>1 DEF Memory!reset_protocol, Memory!NoResponse
  <2>3. mem_req_ready' \in BOOLEAN
    <3>1. mem_req_ready' = (timing.request_wait_cycles = 0)
      BY <2>1 DEF Memory!reset_protocol
    <3>2. CASE timing.request_wait_cycles = 0
      BY <3>1, <3>2
    <3>3. CASE ~(timing.request_wait_cycles = 0)
      BY <3>1, <3>3
    <3> QED
      BY <3>2, <3>3
  <2>4. program' \in Seq(instruction_t)
    BY <1>0, <2>1 DEF Memory!reset_protocol, MemoryTypes
  <2>5. pending_address' \in Word /\ mem_state' \in Memory!MemState
    BY <2>1, ResetTypes DEF Memory!reset_protocol, Memory!MemState
  <2> QED
    BY <2>2, <2>3, <2>4, <2>5 DEF MemoryTypes
<1>4. RenameTypes'
  <2>1. RenameReset /\ InorderTick(TRUE, <<>>, <<>>)
    BY DEF ResetEdge
  <2>2. busy' = {} /\ producer' = [r \in Arch |-> 0]
    BY <2>1 DEF InorderTick, BusyAfterFlush
  <2> QED
    BY <2>1, <2>2, ResetTypes DEF RenameReset, RenameTypes
<1>5. ExecutionTypes'
  <2>1. IssueTick(TRUE, {}, <<>>, {}) /\ ExecutionTick(TRUE, [p \in Lane |-> Empty])
    BY DEF ResetEdge
  <2>2. /\ iq' = [s \in Slot |-> Empty] /\ ex' = [p \in Lane |-> Empty]
        /\ alu' = [p \in Lane |-> Empty] /\ wb' = [p \in Lane |-> Empty]
        /\ next_q' = 0 /\ md' = MdReset
    BY <2>1 DEF IssueTick, ExecutionTick, MdTick
  <2>3. MdTypes'
    BY <2>2, MdResetTypes DEF MdTypes, MdRegisters
  <2> QED
    BY <2>2, <2>3, ResetTypes DEF ExecutionTypes
<1>6. RetireTypes'
  <2>1. /\ CompletionTick(TRUE, <<>>, {}, 0) /\ RetireReset /\ BranchTick(TRUE, FALSE, <<>>, {})
        /\ CsrReset /\ arch_next_pc' = 0 /\ registers' = [r \in RegisterWords |-> 0]
    BY DEF ResetEdge
  <2>2. rob' = [t \in RobTag |-> Empty] /\ tail' = 0
    BY <2>1 DEF CompletionTick
  <2>3. pending' = Empty
    BY <2>1 DEF BranchTick
  <2>4. irq_external' \in BOOLEAN
    BY <1>0 DEF InterruptLine, RetireTypes
  <2> QED
    BY <2>1, <2>2, <2>3, <2>4, ResetTypes DEF RetireReset, CsrReset, RetireTypes, RegisterWords
<1> QED
  BY <1>1, <1>2, <1>3, <1>4, <1>5, <1>6 DEF TypesInv, TypeOK

(* A step that changes nothing preserves the types.                        *)
LEMMA TypesStutter == TypesInv /\ UNCHANGED vars => TypesInv'
<1> SUFFICES ASSUME TypesInv, UNCHANGED vars PROVE TypesInv'
  OBVIOUS
<1>1. QueuesInv'
  BY QueuesInvStutter DEF TypesInv
<1>2. /\ UNCHANGED frontVars /\ UNCHANGED memoryVars /\ UNCHANGED backVars /\ UNCHANGED renameVars
      /\ UNCHANGED iq /\ UNCHANGED executionVars /\ UNCHANGED robVars /\ UNCHANGED retireVars
      /\ UNCHANGED irq_external
  BY DEF vars
<1>3. FrontTypes'
  BY <1>2 DEF TypesInv, TypeOK, FrontTypes, frontVars, backVars
<1>4. MemoryTypes'
  BY <1>2 DEF TypesInv, TypeOK, MemoryTypes, memoryVars
<1>5. RenameTypes'
  BY <1>2 DEF TypesInv, TypeOK, RenameTypes, renameVars, backVars
<1>6. ExecutionTypes'
  BY <1>2 DEF TypesInv, TypeOK, ExecutionTypes, executionVars, MdTypes
<1>7. RetireTypes'
  BY <1>2 DEF TypesInv, TypeOK, RetireTypes, robVars, retireVars, backVars
<1> QED
  BY <1>1, <1>3, <1>4, <1>5, <1>6, <1>7 DEF TypesInv, TypeOK, QueuesInv

(* Every register of the core holds a value of its type, in every          *)
(* configuration: no queue overflows, a word the memory returns without an *)
(* error is an instruction, and each packet has the fields its readers use *)
(* (pkg/tiny5_pkg.sv:8-66, lib/core_pipeline.sv).                          *)
THEOREM CoreTypes == Spec => []TypeOK
<1>1. Init => TypesInv
  BY TypesInit
<1>2. TypesInv /\ [Next]_vars => TypesInv'
  BY TypesClock, TypesReset, TypesStutter DEF Next
<1>3. TypesInv => TypeOK
  BY DEF TypesInv
<1> QED
  BY <1>1, <1>2, <1>3, PTL DEF Spec

-----------------------------------------------------------------------------
(* Inside the window every entry is valid and carries its own tag.         *)
WindowFull ==
  \A i \in 1 .. count :
    LET t == (head + i - 1) % RobDepth IN rob[t] # Empty /\ rob[t].meta.tag = t

(* An entry after an edge on which it does not leave: its result may have  *)
(* arrived.                                                                *)
Kept(new, old, completions) ==
  \/ \E r \in completions : r.meta.tag = old.meta.tag /\ new = CompletedEntry(old, r)
  \/ ~(\E r \in completions : r.meta.tag = old.meta.tag) /\ new = old

-----------------------------------------------------------------------------
(* Positions in the window.                                                *)
LEMMA PositionOf ==
  ASSUME NEW h \in RobTag, NEW i \in 0 .. RobDepth - 1
  PROVE  (h + i) % RobDepth \in RobTag /\ (((h + i) % RobDepth) - h) % RobDepth = i
<1> DEFINE t == (h + i) % RobDepth
<1>1. RobDepth \in Nat /\ RobDepth >= 2 /\ h \in 0 .. RobDepth - 1 /\ i \in 0 .. RobDepth
  BY Tiny5Assumption DEF RobTag
<1>2. t = (IF h + i < RobDepth THEN h + i ELSE h + i - RobDepth)
  BY <1>1, Advances
<1>3. t \in RobTag
  BY <1>1, Advances
<1> HIDE DEF t
<1> DEFINE back == (t - h) % RobDepth
<1>4. back = IF h <= t THEN t - h ELSE t - h + RobDepth
  BY <1>3, Distances
<1> HIDE DEF back
<1>5. back = i
  BY <1>1, <1>2, <1>4
<1>6. (t - h) % RobDepth = i
  BY <1>5 DEF back
<1> QED
  BY <1>3, <1>6 DEF t

(* The distance of a tag from the head, and the tag at a distance.         *)
LEMMA DistanceOf ==
  ASSUME NEW h \in RobTag, NEW t \in RobTag
  PROVE  (t - h) % RobDepth \in 0 .. RobDepth - 1 /\ (h + ((t - h) % RobDepth)) % RobDepth = t
<1> DEFINE i == (t - h) % RobDepth
<1>1. RobDepth \in Nat /\ RobDepth >= 2 /\ h \in 0 .. RobDepth - 1 /\ t \in 0 .. RobDepth - 1
  BY Tiny5Assumption DEF RobTag
<1>2. i = IF h <= t THEN t - h ELSE t - h + RobDepth
  BY Distances
<1> HIDE DEF i
<1>3. i \in 0 .. RobDepth - 1 /\ i \in 0 .. RobDepth
  BY <1>1, <1>2
<1> DEFINE again == (h + i) % RobDepth
<1>4. again = IF h + i < RobDepth THEN h + i ELSE h + i - RobDepth
  BY <1>3, Advances
<1> HIDE DEF again
<1>5. again = t
  BY <1>1, <1>2, <1>3, <1>4
<1>6. (h + i) % RobDepth = t
  BY <1>5 DEF again
<1> QED
  BY <1>3, <1>6 DEF i

(* The window as a sequence: its entries are valid, in the order of their  *)
(* tags, and every valid entry is in it once.                              *)
LEMMA WindowIs ==
  ASSUME TypesInv, WindowFull
  PROVE  /\ DOMAIN Window = 1 .. count /\ count \in 0 .. RobDepth
         /\ \A i \in 1 .. count :
              /\ Window[i] \in rob_entry_t /\ Window[i].meta.tag \in RobTag
              /\ Window[i].meta.tag = (head + i - 1) % RobDepth
              /\ rob[Window[i].meta.tag] = Window[i] /\ Window[i] # Empty
              /\ Distance(Window[i].meta.tag) = i - 1
         /\ \A t \in RobTag : rob[t] # Empty =>
              /\ rob[t] \in rob_entry_t /\ rob[t].meta.tag = t
              /\ Distance(t) + 1 \in 1 .. count /\ Window[Distance(t) + 1] = rob[t]
<1>1. /\ head \in RobTag /\ count \in 0 .. RobDepth /\ RobDepth \in Nat
      /\ rob \in [RobTag -> rob_entry_t \cup {Empty}]
  BY Tiny5Assumption DEF TypesInv, TypeOK, QueuesBounded, RetireTypes
<1>2. DOMAIN Window = 1 .. count /\ \A i \in 1 .. count : Window[i] = rob[(head + i - 1) % RobDepth]
  BY DEF Window
<1>3. ASSUME NEW i \in 1 .. count
      PROVE  /\ Window[i] \in rob_entry_t /\ Window[i].meta.tag \in RobTag
             /\ Window[i].meta.tag = (head + i - 1) % RobDepth
             /\ rob[Window[i].meta.tag] = Window[i] /\ Window[i] # Empty
             /\ Distance(Window[i].meta.tag) = i - 1
  <2> DEFINE t == (head + i - 1) % RobDepth
             k == i - 1
  <2>1. k \in 0 .. RobDepth - 1 /\ head + i - 1 = head + k
    BY <1>1 DEF RobTag
  <2> HIDE DEF k
  <2>2. (head + k) % RobDepth \in RobTag /\ (((head + k) % RobDepth) - head) % RobDepth = k
    BY <1>1, <2>1, PositionOf
  <2>3. t \in RobTag /\ (t - head) % RobDepth = k
    BY <2>1, <2>2
  <2>4. rob[t] # Empty /\ rob[t].meta.tag = t
    BY DEF WindowFull
  <2>5. Window[i] = rob[t]
    BY <1>2
  <2> HIDE DEF t
  <2>6. rob[t] \in rob_entry_t
    BY <1>1, <2>3, <2>4
  <2>7. Distance(t) = i - 1
    BY <2>3 DEF Distance, k
  <2> QED
    BY <2>3, <2>4, <2>5, <2>6, <2>7 DEF t
<1>4. ASSUME NEW t \in RobTag, rob[t] # Empty
      PROVE  /\ rob[t] \in rob_entry_t /\ rob[t].meta.tag = t
             /\ Distance(t) + 1 \in 1 .. count /\ Window[Distance(t) + 1] = rob[t]
  <2> DEFINE k == (t - head) % RobDepth
  <2>1. k \in 0 .. RobDepth - 1 /\ (head + k) % RobDepth = t
    <3>1. head \in RobTag
      BY <1>1
    <3> QED
      BY <3>1, DistanceOf
  <2>2. k < count
    BY <1>4 DEF TypesInv, QueuesInv, NothingOutside
  <2>3. Distance(t) = k
    BY DEF Distance
  <2> HIDE DEF k
  <2>4. k + 1 \in 1 .. count /\ head + (k + 1) - 1 = head + k
    BY <1>1, <2>1, <2>2 DEF RobTag
  <2>5. Window[k + 1] = rob[t]
    BY <1>2, <2>1, <2>4
  <2>6. rob[t].meta.tag = t
    BY <2>1, <2>4 DEF WindowFull
  <2>7. rob[t] \in rob_entry_t
    BY <1>1, <1>4
  <2> QED
    BY <2>3, <2>4, <2>5, <2>6, <2>7
<1> QED
  BY <1>1, <1>2, <1>3, <1>4

(* Advancing twice around the ring is advancing by the sum.                *)
LEMMA Chained ==
  ASSUME NEW h \in RobTag, NEW a \in 0 .. RobDepth, NEW b \in 0 .. RobDepth, a + b <= RobDepth
  PROVE  (((h + a) % RobDepth) + b) % RobDepth = (h + (a + b)) % RobDepth
<1> DEFINE g == (h + a) % RobDepth
           k == a + b
<1>1. RobDepth \in Nat /\ RobDepth >= 2 /\ h \in 0 .. RobDepth - 1
  BY Tiny5Assumption DEF RobTag
<1>2. g = IF h + a < RobDepth THEN h + a ELSE h + a - RobDepth
  BY Advances
<1>3. g \in RobTag
  BY Advances
<1>4. k \in 0 .. RobDepth /\ k = a + b
  BY <1>1
<1> HIDE DEF g, k
<1>5. (g + b) % RobDepth = IF g + b < RobDepth THEN g + b ELSE g + b - RobDepth
  BY <1>3, Advances
<1>6. (h + k) % RobDepth = IF h + k < RobDepth THEN h + k ELSE h + k - RobDepth
  BY <1>4, Advances
<1>7. g \in 0 .. RobDepth - 1
  BY <1>3 DEF RobTag
<1>8. (g + b) % RobDepth = (h + k) % RobDepth
  BY <1>1, <1>2, <1>4, <1>5, <1>6, <1>7
<1> QED
  BY <1>8 DEF g, k

-----------------------------------------------------------------------------
(* What an edge does to the window.                                        *)
LEMMA KeptIs ==
  ASSUME NEW old \in rob_entry_t, NEW new, NEW completions \in SUBSET result_t,
         Kept(new, old, completions)
  PROVE  /\ new \in rob_entry_t /\ new.meta = old.meta /\ new.serial = old.serial
         /\ old.done => new.done
         /\ old.terminal => new.terminal
         /\ new.done /\ ~old.done => \E r \in completions : r.meta.tag = old.meta.tag
         /\ (\E r \in completions : r.meta.tag = old.meta.tag) => new.done
         /\ new.terminal /\ ~old.terminal => new.branch.fault # FAULT_NONE
<1>1. CASE ~(\E r \in completions : r.meta.tag = old.meta.tag) /\ new = old
  BY <1>1
<1>2. CASE \E r \in completions : r.meta.tag = old.meta.tag /\ new = CompletedEntry(old, r)
  <2>1. PICK r \in completions : r.meta.tag = old.meta.tag /\ new = CompletedEntry(old, r)
    BY <1>2
  <2>2. r \in result_t
    OBVIOUS
  <2>3. /\ CompletedEntry(old, r) \in rob_entry_t
        /\ CompletedEntry(old, r).done /\ CompletedEntry(old, r).meta = old.meta
        /\ CompletedEntry(old, r).serial = old.serial
        /\ old.terminal => CompletedEntry(old, r).terminal
    BY <2>2, CompletedEntryType
  <2>4. new.terminal /\ ~old.terminal => new.branch.fault # FAULT_NONE
    <3>1. old.terminal \in BOOLEAN
      BY DEF rob_entry_t
    <3>2. new.terminal = (old.terminal \/ r.branch.fault # FAULT_NONE) /\ new.branch = r.branch
      <4>1. new = [old EXCEPT !.done = TRUE, !.value = r.value, !.branch = r.branch,
                     !.terminal = old.terminal \/ r.branch.fault # FAULT_NONE,
                     !.fault = IF r.branch.fault # FAULT_NONE THEN r.branch.fault ELSE old.fault]
        BY <2>1 DEF CompletedEntry
      <4>2. old \in [done : BOOLEAN, terminal : BOOLEAN, serial : BOOLEAN, fault : FaultCode,
                 trap_cause : Word, instruction : instruction_t \cup {NoWord}, meta : meta_t,
                 value : Word, branch : branch_result_t]
        BY DEF rob_entry_t
      <4> QED
        BY <4>1, <4>2
    <3> QED
      BY <3>1, <3>2
  <2> QED
    BY <2>1, <2>3, <2>4
<1> QED
  BY <1>1, <1>2 DEF Kept

(* The new entries take the tags behind the window, one after another.     *)
LEMMA NewTags ==
  ASSUME TypesInv, NEW p \in Lane, count + p < RobDepth
  PROVE  /\ allocate_tag(p) \in RobTag /\ Distance(allocate_tag(p)) = count + p
         /\ rob[allocate_tag(p)] = Empty
<1>1. head \in RobTag /\ count \in 0 .. RobDepth /\ tail = (head + count) % RobDepth /\ RobDepth \in Nat
  BY Tiny5Assumption DEF TypesInv, TypeOK, QueuesBounded
<1> DEFINE k == count + p
           t == (head + k) % RobDepth
<1>2. p \in 0 .. RobDepth /\ k \in 0 .. RobDepth - 1 /\ count + p <= RobDepth /\ ~(k < count)
  BY <1>1, Tiny5Assumption DEF Lane
<1>3. allocate_tag(p) = t
  BY <1>1, <1>2, Chained DEF allocate_tag
<1> HIDE DEF k
<1>4. t \in RobTag /\ (t - head) % RobDepth = k
  BY <1>1, <1>2, PositionOf
<1> HIDE DEF t
<1>5. rob[t] = Empty
  BY <1>2, <1>4 DEF TypesInv, QueuesInv, NothingOutside
<1> QED
  BY <1>3, <1>4, <1>5 DEF Distance, k

(* The new entries of a bundle.                                            *)
NewEntry(d, i) == AllocatedEntry(id_q[i], d.prepared[i].meta)

(* What an edge does to the entry of a tag, by its distance from the head: *)
(* retired, kept with its result, allocated, or left invalid.              *)
LEMMA RobEdge ==
  ASSUME TypesInv, WindowFull, NEW w, NEW d, NEW chosen, EdgeHolds(w, d, chosen),
         ~w.backend_flush, NEW t \in RobTag
  PROVE  /\ Distance(t) < w.retiring => rob'[t] = Empty
         /\ w.retiring <= Distance(t) /\ Distance(t) < count => Kept(rob'[t], rob[t], w.completions)
         /\ count <= Distance(t) /\ Distance(t) < count + d.n =>
              rob'[t] = NewEntry(d, Distance(t) - count + 1) /\ t = allocate_tag(Distance(t) - count)
         /\ count + d.n <= Distance(t) => rob'[t] = Empty
<1> DEFINE k == Distance(t)
           n == d.n
           e == w.retiring
<1>1. /\ QueuesBounded /\ WiresHold(w) /\ DispatchFacts(w, d) /\ RenameTypes /\ RetireTypes
      /\ CompletionTick(w.backend_flush, Allocations(d), w.completions, w.retiring)
  BY DEF EdgeHolds, BackSteps, TypesInv, TypeOK
<1>2. /\ head \in RobTag /\ count \in 0 .. RobDepth /\ RobDepth \in Nat
      /\ n \in 0 .. 2 /\ n <= RobDepth - count /\ e \in 0 .. 2 /\ e <= count
  BY <1>1, RetiringIs, Tiny5Assumption DEF QueuesBounded, DispatchFacts
<1>3. Len(Allocations(d)) = n /\ \A i \in 1 .. n : Allocations(d)[i] = NewEntry(d, i)
  BY <1>1, BundleTypes DEF NewEntry
<1>4. k \in 0 .. RobDepth - 1 /\ (head + k) % RobDepth = t
  BY <1>2, DistanceOf DEF Distance
<1>5. \/ \E p \in Lane : p < n /\ allocate_tag(p) = t /\ rob'[t] = Allocations(d)[1 + p]
      \/ /\ ~ \E p \in Lane : p < n /\ allocate_tag(p) = t
         /\ \/ /\ rob[t] = Empty \/ \E p \in Lane : p < e /\ t = (head + p) % RobDepth
               /\ rob'[t] = Empty
            \/ /\ rob[t] # Empty /\ ~ \E p \in Lane : p < e /\ t = (head + p) % RobDepth
               /\ \/ \E r \in w.completions : /\ r.meta.tag = t
                                              /\ rob'[t] = CompletedEntry(rob[t], r)
                  \/ ~(\E r \in w.completions : r.meta.tag = t) /\ rob'[t] = rob[t]
  <2>1. CompletionTick(w.backend_flush, Allocations(d), w.completions, w.retiring)
    BY <1>1
  <2>2. Len(Allocations(d)) = n
    BY <1>3
  <2> QED
    BY <2>1, <2>2, CompletionIs
<1>6. \A p \in Lane : p < n => /\ Distance(allocate_tag(p)) = count + p
                               /\ (allocate_tag(p) = t <=> k = count + p)
  <2> SUFFICES ASSUME NEW p \in Lane, p < n
               PROVE  /\ Distance(allocate_tag(p)) = count + p
                      /\ (allocate_tag(p) = t <=> k = count + p)
    OBVIOUS
  <2>1. count + p < RobDepth
    BY <1>2 DEF Lane
  <2>2. allocate_tag(p) \in RobTag /\ Distance(allocate_tag(p)) = count + p
    BY <2>1, NewTags
  <2> DEFINE a == allocate_tag(p)
  <2> HIDE DEF a
  <2>3. (head + Distance(a)) % RobDepth = a
    BY <1>2, <2>2, DistanceOf DEF Distance, a
  <2>4. a = t <=> k = count + p
    BY <1>4, <2>2, <2>3 DEF a
  <2> QED
    BY <2>2, <2>4 DEF a
<1>7. \A p \in Lane : p < e => (t = (head + p) % RobDepth <=> k = p)
  <2> SUFFICES ASSUME NEW p \in Lane, p < e PROVE t = (head + p) % RobDepth <=> k = p
    OBVIOUS
  <2>1. p \in 0 .. RobDepth - 1
    BY Tiny5Assumption DEF Lane
  <2>2. (((head + p) % RobDepth) - head) % RobDepth = p
    BY <1>2, <2>1, PositionOf
  <2> QED
    BY <1>4, <2>2 DEF Distance
<1>8. k < count => rob[t] # Empty /\ rob[t].meta.tag = t
  <2>1. k < count => k + 1 \in 1 .. count /\ head + (k + 1) - 1 = head + k
    BY <1>2, <1>4 DEF RobTag
  <2> HIDE DEF k
  <2> QED
    BY <1>4, <2>1 DEF WindowFull
<1>9. rob[t] # Empty => k < count
  BY <1>1 DEF TypesInv, QueuesInv, NothingOutside, Distance
<1> HIDE DEF k, n, e
<1>10. k < e => k \in Lane
  BY <1>2, <1>4 DEF Lane
<1>11. CASE k < e
  <2>1. ~ \E p \in Lane : p < n /\ allocate_tag(p) = t
    BY <1>2, <1>4, <1>6, <1>11 DEF Lane
  <2>2. rob'[t] = Empty
    BY <1>5, <1>7, <1>10, <1>11, <2>1
  <2> QED
    BY <1>2, <1>4, <1>11, <2>2 DEF k, e, n
<1>12. CASE e <= k /\ k < count
  <2>1. ~ \E p \in Lane : p < n /\ allocate_tag(p) = t
    BY <1>2, <1>4, <1>6, <1>12 DEF Lane
  <2>2. ~ \E p \in Lane : p < e /\ t = (head + p) % RobDepth
    BY <1>2, <1>4, <1>7, <1>12 DEF Lane
  <2>3. Kept(rob'[t], rob[t], w.completions)
    BY <1>5, <1>8, <1>12, <2>1, <2>2 DEF Kept
  <2> QED
    BY <1>2, <1>4, <1>12, <2>3 DEF k, e, n
<1>13. CASE count <= k /\ k < count + n
  <2> DEFINE q == k - count
  <2>1. q \in Lane /\ q < n /\ k = count + q /\ 1 + q \in 1 .. n
    BY <1>2, <1>4, <1>13 DEF Lane
  <2> HIDE DEF q
  <2>2. allocate_tag(q) = t
    BY <1>6, <2>1
  <2>3. \A p \in Lane : p < n /\ allocate_tag(p) = t => p = q
    BY <1>2, <1>4, <1>6, <2>1 DEF Lane
  <2>4. rob'[t] = Allocations(d)[1 + q]
    BY <1>5, <2>1, <2>2, <2>3
  <2>5. rob'[t] = NewEntry(d, 1 + q)
    BY <1>3, <2>1, <2>4
  <2>6. Distance(t) - count = q /\ Distance(t) - count + 1 = 1 + q
    BY <1>2, <1>4, <2>1 DEF k, q
  <2> QED
    BY <1>2, <1>4, <1>13, <2>2, <2>5, <2>6 DEF k, e, n
<1>14. CASE count + n <= k
  <2>1. ~ \E p \in Lane : p < n /\ allocate_tag(p) = t
    BY <1>2, <1>4, <1>6, <1>14 DEF Lane
  <2>2. rob[t] = Empty
    BY <1>2, <1>4, <1>9, <1>14
  <2>3. rob'[t] = Empty
    BY <1>5, <2>1, <2>2
  <2> QED
    BY <1>2, <1>4, <1>14, <2>3 DEF k, e, n
<1> QED
  BY <1>2, <1>4, <1>11, <1>12, <1>13, <1>14

(* The entry allocated for a dispatched instruction carries its tag, its   *)
(* registers and its flags, the same as the instruction prepared for the   *)
(* issue queue.                                                            *)
LEMMA NewEntryIs ==
  ASSUME TypesInv, NEW w, NEW d, NEW chosen, EdgeHolds(w, d, chosen), NEW i \in 1 .. d.n
  PROVE  /\ id_q[i] \in decode_t /\ NewEntry(d, i) \in rob_entry_t
         /\ NewEntry(d, i).meta.tag = allocate_tag(i - 1)
         /\ NewEntry(d, i).meta.rd = id_q[i].rd
         /\ NewEntry(d, i).meta.pdst = Destination(i)
         /\ NewEntry(d, i).meta.old_pdst = Replaced(i)
         /\ NewEntry(d, i).done = (id_q[i].terminal \/ id_q[i].serial)
         /\ NewEntry(d, i).terminal = id_q[i].terminal
         /\ NewEntry(d, i).serial = id_q[i].serial
         /\ NewEntry(d, i).branch = NoBranch
         /\ d.prepared[i].meta = NewEntry(d, i).meta
         /\ d.prepared[i] \in issue_t /\ d.prepared[i].op = id_q[i].op
<1>1. QueuesBounded /\ RenameTypes /\ RetireTypes /\ DispatchFacts(w, d)
  BY DEF EdgeHolds, TypesInv, TypeOK
<1> DEFINE m == d.prepared[i].meta
           tag == allocate_tag(i - 1)
           e == NewEntry(d, i)
<1>2. id_q[i] \in decode_t
  BY <1>1 DEF DispatchFacts
<1>3. d.prepared[i] \in issue_t /\ d.prepared[i].op = id_q[i].op
  BY <1>1, PreparedTypes
<1>4. m = [pc |-> id_q[i].pc, rd |-> id_q[i].rd, tag |-> tag,
           pdst |-> Destination(i), old_pdst |-> Replaced(i)]
  BY <1>1, PreparedTypes
<1>5. m \in meta_t
  BY <1>3 DEF issue_t
<1>6. e = [done |-> id_q[i].terminal \/ id_q[i].serial, terminal |-> id_q[i].terminal,
           serial |-> id_q[i].serial, fault |-> id_q[i].fault, trap_cause |-> id_q[i].trap_cause,
           instruction |-> id_q[i].instruction, meta |-> m, value |-> 0, branch |-> NoBranch]
  BY DEF NewEntry, AllocatedEntry
<1>7. e \in rob_entry_t
  BY <1>2, <1>5, AllocatedEntryType DEF NewEntry
<1> HIDE DEF m, tag, e
<1>8. m.tag = tag /\ m.rd = id_q[i].rd /\ m.pdst = Destination(i) /\ m.old_pdst = Replaced(i)
  BY <1>4
<1>9. /\ e.meta = m /\ e.done = (id_q[i].terminal \/ id_q[i].serial)
      /\ e.terminal = id_q[i].terminal /\ e.serial = id_q[i].serial /\ e.branch = NoBranch
  BY <1>6
<1> QED
  BY <1>2, <1>3, <1>4, <1>7, <1>8, <1>9 DEF m, tag, e

(* How the window moves on an edge that does not flush it.                 *)
LEMMA Moved ==
  ASSUME TypesInv, NEW w, NEW d, NEW chosen, EdgeHolds(w, d, chosen), ~w.backend_flush
  PROVE  /\ w.retiring \in 0 .. 2 /\ w.retiring <= count
         /\ d.n \in 0 .. 2 /\ d.n <= RobDepth - count
         /\ count \in 0 .. RobDepth /\ RobDepth \in Nat /\ RobDepth >= 2 /\ head \in RobTag
         /\ count' = count + d.n - w.retiring /\ count' \in 0 .. RobDepth
         /\ head' = (head + w.retiring) % RobDepth /\ head' \in RobTag
         /\ \A t \in RobTag : w.retiring <= Distance(t) => Distance(t)' = Distance(t) - w.retiring
<1>1. /\ QueuesBounded /\ WiresHold(w) /\ DispatchFacts(w, d) /\ RenameTypes /\ RetireTypes
      /\ CompletionTick(w.backend_flush, Allocations(d), w.completions, w.retiring)
  BY DEF EdgeHolds, BackSteps, TypesInv, TypeOK
<1>2. /\ head \in RobTag /\ count \in 0 .. RobDepth /\ RobDepth \in Nat /\ RobDepth >= 2
      /\ d.n \in 0 .. 2 /\ d.n <= RobDepth - count /\ w.retiring \in 0 .. 2 /\ w.retiring <= count
  BY <1>1, RetiringIs, Tiny5Assumption DEF QueuesBounded, DispatchFacts
<1>3. Len(Allocations(d)) = d.n
  BY <1>1, BundleTypes
<1>4. count' = count + d.n - w.retiring /\ head' = (head + w.retiring) % RobDepth
  BY <1>1, <1>3 DEF CompletionTick
<1> DEFINE e == w.retiring
           n == d.n
<1> HIDE DEF e, n
<1>5. count' \in 0 .. RobDepth
  <2>1. count' = count + n - e
    BY <1>4 DEF n, e
  <2>2. n \in 0 .. 2 /\ n <= RobDepth - count /\ e \in 0 .. 2 /\ e <= count
    BY <1>2 DEF n, e
  <2> QED
    BY <1>2, <2>1, <2>2
<1>6. e \in 0 .. RobDepth /\ head' \in RobTag
  <2>1. e \in 0 .. RobDepth
    BY <1>2 DEF e
  <2> QED
    BY <1>2, <1>4, <2>1, Advances DEF e
<1>7. ASSUME NEW t \in RobTag, w.retiring <= Distance(t)
      PROVE  Distance(t)' = Distance(t) - w.retiring
  <2> DEFINE k == Distance(t)
             j == k - e
             new == (t - head') % RobDepth
  <2>1. k \in 0 .. RobDepth - 1 /\ (head + k) % RobDepth = t
    BY <1>2, DistanceOf DEF Distance
  <2>2. Distance(t)' = new
    BY DEF Distance
  <2>3. e <= k
    BY <1>7 DEF e
  <2> HIDE DEF k, new
  <2>4. j \in 0 .. RobDepth - 1 /\ j \in 0 .. RobDepth /\ e + j = k /\ e + j <= RobDepth
    BY <1>2, <1>6, <2>1, <2>3
  <2> HIDE DEF j
  <2>5. (((head + e) % RobDepth) + j) % RobDepth = (head + (e + j)) % RobDepth
    BY <1>2, <1>6, <2>4, Chained
  <2>6. (head' + j) % RobDepth = t
    BY <1>4, <2>1, <2>4, <2>5 DEF e
  <2>7. (((head' + j) % RobDepth) - head') % RobDepth = j
    BY <1>6, <2>4, PositionOf
  <2>8. new = j
    BY <2>6, <2>7 DEF new
  <2> QED
    BY <2>2, <2>8 DEF j, k, e
<1> QED
  BY <1>2, <1>4, <1>5, <1>6, <1>7

(* Every entry after an edge is an old one or one of the bundle.           *)
LEMMA EntryAfter ==
  ASSUME TypesInv, WindowFull, NEW w, NEW d, NEW chosen, EdgeHolds(w, d, chosen),
         ~w.backend_flush, NEW t \in RobTag, rob'[t] # Empty
  PROVE  /\ rob'[t] \in rob_entry_t /\ rob'[t].meta.tag = t
         /\ \/ /\ rob[t] # Empty /\ Kept(rob'[t], rob[t], w.completions)
               /\ w.retiring <= Distance(t) /\ Distance(t) < count
            \/ /\ rob[t] = Empty /\ count <= Distance(t) /\ Distance(t) < count + d.n
               /\ Distance(t) - count + 1 \in 1 .. d.n
               /\ t = allocate_tag(Distance(t) - count)
               /\ rob'[t] = NewEntry(d, Distance(t) - count + 1)
<1> DEFINE k == Distance(t)
           n == d.n
           e == w.retiring
<1>1. /\ e \in 0 .. 2 /\ e <= count /\ n \in 0 .. 2 /\ n <= RobDepth - count
      /\ count \in 0 .. RobDepth /\ RobDepth \in Nat /\ head \in RobTag
  BY Moved
<1>2. k \in 0 .. RobDepth - 1
  BY <1>1, DistanceOf DEF Distance
<1>3. /\ k < e => rob'[t] = Empty
      /\ e <= k /\ k < count => Kept(rob'[t], rob[t], w.completions)
      /\ count <= k /\ k < count + n => rob'[t] = NewEntry(d, k - count + 1) /\ t = allocate_tag(k - count)
      /\ count + n <= k => rob'[t] = Empty
  BY RobEdge
<1>4. rob[t] # Empty => rob[t] \in rob_entry_t /\ rob[t].meta.tag = t /\ k + 1 \in 1 .. count
  BY WindowIs
<1>5. k < count => rob[t] # Empty
  <2>1. k < count => k + 1 \in 1 .. count /\ head + (k + 1) - 1 = head + k
    BY <1>1, <1>2 DEF RobTag
  <2>2. (head + k) % RobDepth = t
    BY <1>1, DistanceOf DEF Distance
  <2> HIDE DEF k
  <2> QED
    BY <2>1, <2>2 DEF WindowFull
<1> HIDE DEF k, n, e
<1>6. (e <= k /\ k < count) \/ (count <= k /\ k < count + n)
  BY <1>1, <1>2, <1>3
<1>7. CASE e <= k /\ k < count
  <2>1. rob[t] # Empty /\ rob[t] \in rob_entry_t /\ rob[t].meta.tag = t
    BY <1>4, <1>5, <1>7
  <2>2. Kept(rob'[t], rob[t], w.completions)
    BY <1>3, <1>7
  <2>3. w.completions \in SUBSET result_t
    BY CompletionsTypes DEF EdgeHolds, TypesInv, TypeOK
  <2>4. rob'[t] \in rob_entry_t /\ rob'[t].meta = rob[t].meta
    BY <2>1, <2>2, <2>3, KeptIs
  <2> QED
    BY <1>7, <2>1, <2>2, <2>4 DEF k, e
<1>8. CASE count <= k /\ k < count + n
  <2> DEFINE i == k - count + 1
  <2>1. i \in 1 .. n /\ i - 1 = k - count /\ ~(k + 1 \in 1 .. count)
    BY <1>1, <1>2, <1>8
  <2> HIDE DEF i
  <2>2. rob'[t] = NewEntry(d, i) /\ t = allocate_tag(i - 1)
    BY <1>3, <1>8, <2>1 DEF i
  <2>3. NewEntry(d, i) \in rob_entry_t /\ NewEntry(d, i).meta.tag = allocate_tag(i - 1)
    <3>1. i \in 1 .. d.n
      BY <2>1 DEF n
    <3>2. NewEntry(d, i) \in rob_entry_t
      BY <3>1, NewEntryIs
    <3>3. NewEntry(d, i).meta.tag = allocate_tag(i - 1)
      BY <3>1, NewEntryIs
    <3> QED
      BY <3>2, <3>3
  <2>4. rob[t] = Empty
    BY <1>4, <2>1
  <2> QED
    BY <1>8, <2>1, <2>2, <2>3, <2>4 DEF k, n, i
<1> QED
  BY <1>6, <1>7, <1>8

(* The window after an edge: what stays, then the bundle.                  *)
LEMMA WindowAfter ==
  ASSUME TypesInv, WindowFull, NEW w, NEW d, NEW chosen, EdgeHolds(w, d, chosen),
         ~w.backend_flush
  PROVE  /\ WindowFull'
         /\ \A i \in 1 .. count' :
              /\ i <= count - w.retiring =>
                   i + w.retiring \in 1 .. count /\ Kept(Window'[i], Window[i + w.retiring], w.completions)
              /\ i > count - w.retiring =>
                   /\ i - (count - w.retiring) \in 1 .. d.n
                   /\ Window'[i] = NewEntry(d, i - (count - w.retiring))
<1> DEFINE n == d.n
           e == w.retiring
<1>1. /\ e \in 0 .. 2 /\ e <= count /\ n \in 0 .. 2 /\ n <= RobDepth - count
      /\ count \in 0 .. RobDepth /\ RobDepth \in Nat /\ head \in RobTag
      /\ count' = count + n - e /\ count' \in 0 .. RobDepth
      /\ head' = (head + e) % RobDepth /\ head' \in RobTag
  BY Moved
<1> HIDE DEF n, e
<1>2. ASSUME NEW i \in 1 .. count'
      PROVE  LET t == (head' + i - 1) % RobDepth
             IN /\ rob'[t] # Empty /\ rob'[t].meta.tag = t
                /\ i <= count - e => i + e \in 1 .. count /\ Kept(rob'[t], Window[i + e], w.completions)
                /\ i > count - e => i - (count - e) \in 1 .. n /\ rob'[t] = NewEntry(d, i - (count - e))
  <2> DEFINE j == i - 1
             k == e + j
             t == (head' + i - 1) % RobDepth
  <2>1. /\ j \in 0 .. RobDepth /\ e \in 0 .. RobDepth /\ k \in 0 .. RobDepth - 1 /\ e + j <= RobDepth
        /\ k < count + n /\ e <= k /\ j = i - 1 /\ k = e + i - 1 /\ head' + i - 1 = head' + j
        /\ (k < count <=> i <= count - e) /\ (count <= k <=> i > count - e)
        /\ (k < count => k + 1 \in 1 .. count /\ i + e = k + 1 /\ head + (k + 1) - 1 = head + k)
        /\ (count <= k => k - count + 1 = i - (count - e) /\ i - (count - e) \in 1 .. n)
    <3>1. i \in 1 .. count + n - e /\ head' \in 0 .. RobDepth - 1 /\ head \in 0 .. RobDepth - 1
      BY <1>1 DEF RobTag
    <3> HIDE DEF t
    <3> QED
      BY <1>1, <3>1
  <2>2. t = (head' + j) % RobDepth
    BY <2>1
  <2> HIDE DEF j, t
  <2>3. t = (head + k) % RobDepth
    BY <1>1, <2>1, <2>2, Chained
  <2> HIDE DEF k
  <2>4. t \in RobTag /\ Distance(t) = k
    BY <1>1, <2>1, <2>3, PositionOf DEF Distance
  <2>5. /\ e <= k /\ k < count => Kept(rob'[t], rob[t], w.completions)
        /\ count <= k /\ k < count + n => rob'[t] = NewEntry(d, k - count + 1) /\ t = allocate_tag(k - count)
    BY <2>4, RobEdge DEF n, e
  <2>6. CASE k < count
    <3>1. Window[k + 1] = rob[t] /\ rob[t] # Empty
      BY <2>1, <2>3, <2>6 DEF Window, WindowFull
    <3>2. Kept(rob'[t], rob[t], w.completions)
      BY <2>1, <2>5, <2>6
    <3>3. rob[t] \in rob_entry_t /\ rob[t].meta.tag = t
      BY <2>4, <3>1, WindowIs
    <3>4. w.completions \in SUBSET result_t
      BY CompletionsTypes DEF EdgeHolds, TypesInv, TypeOK
    <3>5. rob'[t] \in rob_entry_t /\ rob'[t].meta = rob[t].meta
      BY <3>2, <3>3, <3>4, KeptIs
    <3>6. rob'[t] # Empty /\ rob'[t].meta.tag = t
      BY <3>3, <3>5, EmptyEntryAssumption
    <3>7. Kept(rob'[t], Window[i + e], w.completions)
      BY <2>1, <2>6, <3>1, <3>2
    <3>8. ~(i > count - e) /\ i + e \in 1 .. count
      BY <1>1, <2>1, <2>6
    <3> QED
      BY <3>6, <3>7, <3>8 DEF t
  <2>7. CASE count <= k
    <3> DEFINE b == i - (count - e)
    <3>1. b \in 1 .. n /\ k - count = b - 1 /\ ~(i <= count - e) /\ k - count + 1 = b
      BY <1>1, <2>1, <2>7
    <3> HIDE DEF b
    <3>2. rob'[t] = NewEntry(d, b) /\ t = allocate_tag(b - 1)
      BY <2>1, <2>5, <2>7, <3>1
    <3>3. NewEntry(d, b) \in rob_entry_t /\ NewEntry(d, b).meta.tag = allocate_tag(b - 1)
      <4>1. b \in 1 .. d.n
        BY <3>1 DEF n
      <4>2. NewEntry(d, b) \in rob_entry_t
        BY <4>1, NewEntryIs
      <4>3. NewEntry(d, b).meta.tag = allocate_tag(b - 1)
        BY <4>1, NewEntryIs
      <4> QED
        BY <4>2, <4>3
    <3>4. rob'[t] # Empty /\ rob'[t].meta.tag = t
      BY <3>2, <3>3, EmptyEntryAssumption
    <3> QED
      BY <3>1, <3>2, <3>4 DEF t, b
  <2> QED
    BY <1>1, <2>1, <2>6, <2>7
<1>3. WindowFull'
  BY <1>2 DEF WindowFull
<1>4. \A i \in 1 .. count' : Window'[i] = rob'[(head' + i - 1) % RobDepth]
  BY DEF Window
<1> QED
  BY <1>2, <1>3, <1>4 DEF n, e

-----------------------------------------------------------------------------
(* A pipeline with nothing in flight: after reset, and after a flush.      *)
Cleared ==
  /\ rob = [t \in RobTag |-> Empty] /\ head = 0 /\ tail = 0 /\ count = 0
  /\ iq = [s \in Slot |-> Empty] /\ ex = [p \in Lane |-> Empty]
  /\ alu = [u \in Lane |-> Empty] /\ wb = [p \in Lane |-> Empty]
  /\ md.busy = FALSE /\ md.out = Empty
  /\ pending = Empty /\ sys_pending = FALSE /\ (~OUT_OF_ORDER => busy = {})

(* The core starts with its back end empty.                                *)
LEMMA ClearedInit == Init => Cleared
<1> SUFFICES ASSUME Init PROVE Cleared
  OBVIOUS
<1>1. CompletionInit /\ IssueInit /\ ExecutionInit /\ BranchInit /\ InorderInit /\ sys_pending = FALSE
  BY DEF Init
<1>2. md = MdReset
  BY <1>1 DEF ExecutionInit, MdInit
<1>3. md.busy = FALSE /\ md.out = Empty
  BY <1>2 DEF MdReset
<1> QED
  BY <1>1, <1>3 DEF CompletionInit, IssueInit, ExecutionInit, BranchInit, InorderInit, Cleared

(* A reset leaves the back end empty.                                      *)
LEMMA ClearedReset == ResetEdge => Cleared'
<1> SUFFICES ASSUME ResetEdge PROVE Cleared'
  OBVIOUS
<1>1. /\ CompletionTick(TRUE, <<>>, {}, 0) /\ IssueTick(TRUE, {}, <<>>, {})
      /\ ExecutionTick(TRUE, [p \in Lane |-> Empty]) /\ BranchTick(TRUE, FALSE, <<>>, {})
      /\ InorderTick(TRUE, <<>>, <<>>) /\ PathReset
  BY DEF ResetEdge
<1>2. md' = MdReset
  BY <1>1 DEF ExecutionTick, MdTick
<1>3. md'.busy = FALSE /\ md'.out = Empty
  BY <1>2 DEF MdReset
<1>4. /\ rob' = [t \in RobTag |-> Empty] /\ head' = 0 /\ tail' = 0 /\ count' = 0
      /\ iq' = [s \in Slot |-> Empty] /\ pending' = Empty /\ sys_pending' = FALSE /\ busy' = {}
  BY <1>1 DEF CompletionTick, IssueTick, BranchTick, InorderTick, PathReset, BusyAfterFlush
<1>5. /\ ex' = [p \in Lane |-> Empty]
      /\ alu' = [u \in Lane |-> Empty] /\ wb' = [p \in Lane |-> Empty]
  BY <1>1 DEF ExecutionTick
<1> QED
  BY <1>3, <1>4, <1>5 DEF Cleared

(* A flush is the end of the program, a trap, its return, or a taken branch*)
(* that retires.                                                           *)
LEMMA ClearedFlush ==
  ASSUME NEW w, NEW d, NEW chosen, EdgeHolds(w, d, chosen), w.backend_flush
  PROVE  Cleared'
<1>1. /\ CompletionTick(w.backend_flush, Allocations(d), w.completions, w.retiring)
      /\ IssueTick(w.backend_flush, Removed(chosen), SubSeq(d.prepared, 1, d.enqueued), w.completions)
      /\ ExecutionTick(w.backend_flush, Sent(chosen))
      /\ BranchTick(w.finishing, w.trap.valid \/ w.mret_commit, Bundle(d), w.completions)
      /\ ~OUT_OF_ORDER => InorderTick(w.backend_flush, Writers(d), Leaving(w))
      /\ SystemEdge(w, d) /\ WiresHold(w)
  BY DEF EdgeHolds, BackSteps
<1>2. md' = MdReset
  BY <1>1 DEF ExecutionTick, MdTick
<1>3. md'.busy = FALSE /\ md'.out = Empty
  BY <1>2 DEF MdReset
<1>4. /\ rob' = [t \in RobTag |-> Empty] /\ head' = 0 /\ tail' = 0 /\ count' = 0
      /\ iq' = [s \in Slot |-> Empty] /\ sys_pending' = FALSE /\ (~OUT_OF_ORDER => busy' = {})
  BY <1>1 DEF CompletionTick, IssueTick, SystemEdge, InorderTick, BusyAfterFlush
<1>5. /\ ex' = [p \in Lane |-> Empty]
      /\ alu' = [u \in Lane |-> Empty] /\ wb' = [p \in Lane |-> Empty]
  BY <1>1 DEF ExecutionTick
<1>6. pending' = Empty
  <2>1. w.recovered.valid => BRANCH_AT_RETIRE
    BY <1>1 DEF WiresHold, retire_redirect, NoRedirect
  <2>2. BRANCH_AT_RETIRE \/ w.finishing \/ w.trap.valid \/ w.mret_commit
    BY <1>1, <2>1 DEF WiresHold
  <2> QED
    BY <1>1, <2>2 DEF BranchTick
<1> QED
  BY <1>3, <1>4, <1>5, <1>6 DEF Cleared

(* An empty back end has an empty window and nothing in flight.            *)
LEMMA ClearedWindow ==
  ASSUME Cleared
  PROVE  WindowFull /\ DOMAIN Window = {} /\ InFlight = {}
<1>1. count = 0
  BY DEF Cleared
<1>2. 1 .. count = {}
  BY <1>1
<1>3. WindowFull /\ DOMAIN Window = {}
  BY <1>2 DEF WindowFull, Window
<1>4. InFlight = {}
  BY DEF Cleared, InFlight, Occupied
<1> QED
  BY <1>3, <1>4

(* Steps: an edge that flushes, one that does not, reset, and nothing.     *)
LEMMA Steps ==
  ASSUME TypesInv, [Next]_vars
  PROVE  \/ Cleared'
         \/ \E w, d, chosen : EdgeHolds(w, d, chosen) /\ ~w.backend_flush
         \/ UNCHANGED vars
<1>1. CASE ClockEdge
  <2>1. QueuesBounded /\ id_q \in Seq(decode_t) /\ iq \in [Slot -> issue_t \cup {Empty}]
    BY DEF TypesInv, TypeOK, FrontTypes, ExecutionTypes
  <2>2. PICK w, d, chosen : EdgeHolds(w, d, chosen)
    BY <1>1, <2>1, EdgeIs
  <2> QED
    BY <2>2, ClearedFlush
<1>2. CASE ResetEdge
  BY <1>2, ClearedReset
<1> QED
  BY <1>1, <1>2 DEF Next

(* The valid entries are the window from head to tail, and each carries its*)
(* own tag: tags that are used again never leave a hole or overlap.        *)
WindowInv == TypesInv /\ WindowFull

(* Every step preserves the window.                                        *)
LEMMA WindowInvStep == WindowInv /\ TypesInv' /\ [Next]_vars => WindowInv'
<1> SUFFICES ASSUME WindowInv, TypesInv', [Next]_vars PROVE WindowFull'
  BY DEF WindowInv
<1>1. Cleared' => WindowFull'
  BY DEF Cleared, WindowFull
<1>2. ASSUME NEW w, NEW d, NEW chosen, EdgeHolds(w, d, chosen), ~w.backend_flush
      PROVE  WindowFull'
  BY <1>2, WindowAfter DEF WindowInv
<1>3. UNCHANGED vars => WindowFull'
  BY DEF vars, robVars, WindowInv, WindowFull
<1> QED
  BY <1>1, <1>2, <1>3, Steps DEF WindowInv

(* The invariant of the window is what the runs check.                     *)
LEMMA WindowIsContiguous == WindowInv => WindowContiguous
<1> SUFFICES ASSUME WindowInv PROVE WindowContiguous
  OBVIOUS
<1>1. TypesInv /\ WindowFull
  BY DEF WindowInv
<1>2. tail = (head + count) % RobDepth /\ head \in RobTag /\ count \in 0 .. RobDepth /\ RobDepth \in Nat
  BY <1>1, Tiny5Assumption DEF TypesInv, TypeOK, QueuesBounded
<1>3. \A t \in RobTag : rob[t] # Empty => rob[t].meta.tag = t
  BY <1>1, WindowIs
<1>4. ASSUME NEW t \in RobTag, rob[t] # Empty
      PROVE  t \in {(head + i) % RobDepth : i \in 0 .. count - 1}
  <2> DEFINE k == (t - head) % RobDepth
  <2>1. k \in 0 .. RobDepth - 1 /\ (head + k) % RobDepth = t
    BY <1>2, DistanceOf
  <2>2. k < count
    BY <1>1, <1>4 DEF TypesInv, QueuesInv, NothingOutside
  <2> HIDE DEF k
  <2>3. k \in 0 .. count - 1
    BY <1>2, <2>1, <2>2
  <2> QED
    BY <2>1, <2>3
<1>5. ASSUME NEW i \in 0 .. count - 1
      PROVE  (head + i) % RobDepth \in RobTag /\ rob[(head + i) % RobDepth] # Empty
  <2>1. i \in 0 .. RobDepth - 1 /\ i + 1 \in 1 .. count /\ head + (i + 1) - 1 = head + i
    BY <1>2 DEF RobTag
  <2>2. (head + i) % RobDepth \in RobTag
    BY <1>2, <2>1, PositionOf
  <2>3. rob[(head + i) % RobDepth] # Empty
    BY <1>1, <2>1 DEF WindowFull
  <2> QED
    BY <2>2, <2>3
<1>6. {t \in RobTag : rob[t] # Empty} = {(head + i) % RobDepth : i \in 0 .. count - 1}
  BY <1>4, <1>5
<1> QED
  BY <1>2, <1>3, <1>6 DEF WindowContiguous

(* Every step preserves the types.                                         *)
LEMMA TypesStep == TypesInv /\ [Next]_vars => TypesInv'
  BY TypesClock, TypesReset, TypesStutter DEF Next

(* The initial states satisfy the invariant of the window.                 *)
LEMMA WindowInvInit == Init => WindowInv
  BY TypesInit, ClearedInit, ClearedWindow DEF WindowInv

(* The valid entries of the completion queue are the window from head to   *)
(* tail, each under its own tag, whatever is dispatched, retired or flushed*)
(* (lib/completion_queue.sv:30-54).                                        *)
THEOREM CoreWindow == Spec => []WindowContiguous
<1>1. Init => WindowInv
  BY WindowInvInit
<1>2. WindowInv /\ [Next]_vars => WindowInv'
  BY WindowInvStep, TypesStep DEF WindowInv
<1>3. WindowInv => WindowContiguous
  BY WindowIsContiguous
<1> QED
  BY <1>1, <1>2, <1>3, PTL DEF Spec

-----------------------------------------------------------------------------
(* What may retire is at the head of the window.                           *)
LEMMA HeadIs ==
  ASSUME WindowInv
  PROVE  /\ hd0 # Empty <=> count > 0
         /\ count > 0 => 1 \in 1 .. count /\ hd0 = Window[1] /\ hd0 \in rob_entry_t
         /\ hd1 # Empty <=> count > 1
         /\ count > 1 => 2 \in 1 .. count /\ hd1 = Window[2] /\ hd1 \in rob_entry_t
<1>1. TypesInv /\ WindowFull /\ count \in 0 .. RobDepth /\ RobDepth \in Nat /\ head \in 0 .. RobDepth - 1
  BY Tiny5Assumption DEF WindowInv, TypesInv, TypeOK, QueuesBounded, RobTag
<1>2. \A i \in 1 .. count : Window[i] = rob[(head + i - 1) % RobDepth]
  BY DEF Window
<1>3. \A i \in 1 .. count : Window[i] # Empty /\ Window[i] \in rob_entry_t
  BY <1>1, WindowIs
<1>4. head + 0 = head + 1 - 1 /\ head + 1 = head + 2 - 1
  BY <1>1
<1>5. /\ count > 0 => 1 \in 1 .. count /\ Window[1] = rob[(head + 0) % RobDepth]
      /\ count > 1 => 2 \in 1 .. count /\ Window[2] = rob[(head + 1) % RobDepth]
  <2>1. (count > 0 => 1 \in 1 .. count) /\ (count > 1 => 2 \in 1 .. count)
    BY <1>1
  <2> QED
    BY <1>2, <1>4, <2>1
<1> QED
  BY <1>3, <1>5 DEF hd0, hd1, head_data

(* What retires on an edge: done, not terminal, and serial only alone.     *)
LEMMA Retires ==
  ASSUME WindowInv, NEW w, WiresHold(w), NEW i \in 1 .. w.retiring
  PROVE  /\ i \in 1 .. count /\ Window[i].done /\ ~Window[i].terminal
         /\ Window[i] = EntryAt(i - 1) /\ ~w.finishing /\ ~w.trap.valid /\ ~halted /\ ~fault
         /\ w.sys_retire <=> Window[1].serial
         /\ Window[i].serial => w.retiring = 1 /\ i = 1
<1>1. QueuesBounded /\ count \in 0 .. RobDepth /\ RobDepth \in Nat
  BY Tiny5Assumption DEF WindowInv, TypesInv, TypeOK, QueuesBounded
<1>2. /\ w.retiring \in 0 .. 2 /\ w.retiring <= count
      /\ w.retiring > 0 => /\ Done(hd0) /\ ~hd0.terminal /\ ~halted /\ ~fault
                           /\ ~w.trap.valid /\ ~w.finishing
      /\ w.retiring > 1 => Done(hd1) /\ ~hd1.terminal /\ ~hd1.serial /\ ~hd0.serial
  BY <1>1, RetiringIs
<1>3. w.sys_retire = (w.retiring # 0 /\ hd0.serial)
  BY DEF WiresHold
<1> DEFINE n == w.retiring
<1>4. n \in 0 .. 2 /\ n <= count /\ i \in 1 .. n
  BY <1>2
<1> HIDE DEF n
<1>5. i \in 1 .. count /\ n > 0 /\ n # 0 /\ count > 0 /\ (i = 1 \/ (i = 2 /\ n > 1 /\ count > 1))
      /\ (~(n > 1) => n = 1)
  BY <1>1, <1>4
<1>6. hd0 = Window[1] /\ (count > 1 => hd1 = Window[2])
  BY <1>5, HeadIs
<1>7. w.sys_retire <=> Window[1].serial
  BY <1>3, <1>5, <1>6 DEF n
<1>8. i = 1 => EntryAt(i - 1) = hd0
  BY DEF EntryAt
<1>9. i = 2 => EntryAt(i - 1) = hd1
  BY DEF EntryAt
<1> QED
  BY <1>2, <1>5, <1>6, <1>7, <1>8, <1>9 DEF n, Done

(* A serial instruction is the youngest in flight, and sys_pending says    *)
(* that there is one.                                                      *)
SerialLast ==
  /\ sys_pending <=> \E i \in DOMAIN Window : Window[i].serial
  /\ \A i \in DOMAIN Window : Window[i].serial => i = count

(* An edge without a flush keeps a serial entry the youngest: dispatch     *)
(* waits for an empty queue before it and stops behind it.                 *)
LEMMA SerialEdge ==
  ASSUME WindowInv, SerialLast, NEW w, NEW d, NEW chosen, EdgeHolds(w, d, chosen), ~w.backend_flush
  PROVE  SerialLast'
<1> DEFINE e == w.retiring
           n == d.n
<1>1. TypesInv /\ WindowFull /\ WiresHold(w) /\ DispatchFacts(w, d)
  BY DEF WindowInv, EdgeHolds
<1>2. /\ e \in 0 .. 2 /\ e <= count /\ n \in 0 .. 2 /\ count \in 0 .. RobDepth /\ RobDepth \in Nat
      /\ count' = count + n - e
  BY <1>1, Moved
<1>3. /\ \A i \in 1 .. count' : i <= count - e =>
           i + e \in 1 .. count /\ Kept(Window'[i], Window[i + e], w.completions)
      /\ \A i \in 1 .. count' : i > count - e =>
           i - (count - e) \in 1 .. n /\ Window'[i] = NewEntry(d, i - (count - e))
  BY <1>1, WindowAfter
<1>4. DOMAIN Window = 1 .. count /\ \A i \in 1 .. count : Window[i] \in rob_entry_t
  BY <1>1, WindowIs
<1>5. (DOMAIN Window)' = 1 .. count'
  BY DEF Window
<1>6. w.completions \in SUBSET result_t
  BY CompletionsTypes DEF EdgeHolds, WindowInv, TypesInv, TypeOK
<1>7. \A i \in 1 .. count' : i <= count - e =>
           i + e \in 1 .. count /\ Window'[i].serial = Window[i + e].serial
  BY <1>3, <1>4, <1>6, KeptIs
<1>8. \A i \in 1 .. n : NewEntry(d, i).serial = id_q[i].serial /\ d.dispatched[i].serial = id_q[i].serial
                        /\ id_q[i].serial \in BOOLEAN
  <2>1. \A i \in 1 .. n : NewEntry(d, i).serial = id_q[i].serial /\ id_q[i] \in decode_t
    BY <1>1, NewEntryIs
  <2>2. \A i \in 1 .. n : d.dispatched[i] = id_q[i]
    BY <1>1 DEF DispatchFacts
  <2> QED
    BY <2>1, <2>2 DEF decode_t
<1>9. n # 0 => ~sys_pending
  BY <1>1 DEF DispatchFacts
<1>10. n = 2 => ~id_q[1].serial
  BY <1>1 DEF DispatchFacts
<1>11. sys_pending' = (~w.sys_retire /\ (sys_pending \/ \E i \in 1 .. n : d.dispatched[i].serial))
  BY DEF EdgeHolds, SystemEdge
<1>12. w.sys_retire => 1 \in 1 .. count /\ Window[1].serial /\ e # 0
  <2>1. e # 0 => 1 \in 1 .. e
    BY <1>2
  <2>2. w.sys_retire => e # 0
    BY <1>1 DEF WiresHold
  <2> QED
    BY <1>1, <2>1, <2>2, Retires
<1>13. \A i \in 1 .. e : Window[i].serial => w.sys_retire
  BY <1>1, Retires
<1> HIDE DEF e, n
<1>14. CASE w.sys_retire
  <2>1. 1 = count /\ sys_pending
    BY <1>4, <1>12, <1>14 DEF SerialLast
  <2>2. n = 0
    BY <1>9, <2>1
  <2>3. count' = 0 /\ 1 .. count' = {}
    BY <1>2, <1>12, <1>14, <2>1, <2>2
  <2>4. ~sys_pending'
    BY <1>11, <1>14
  <2> QED
    BY <1>5, <2>3, <2>4 DEF SerialLast
<1>15. CASE ~w.sys_retire
  <2>1. sys_pending' <=> sys_pending \/ \E j \in 1 .. n : id_q[j].serial
    BY <1>8, <1>11, <1>15
  <2>2. ASSUME NEW i \in 1 .. count', Window'[i].serial PROVE i = count' /\ sys_pending'
    <3>1. CASE i <= count - e
      <4>1. i + e \in 1 .. count /\ Window[i + e].serial
        BY <1>7, <2>2, <3>1
      <4>2. i + e = count /\ sys_pending
        BY <1>4, <4>1 DEF SerialLast
      <4>3. n = 0
        BY <1>9, <4>2
      <4> QED
        BY <1>2, <2>1, <4>2, <4>3
    <3>2. CASE i > count - e
      <4> DEFINE j == i - (count - e)
      <4>1. j \in 1 .. n /\ Window'[i] = NewEntry(d, j)
        BY <1>3, <3>2
      <4>2. i = j + count - e
        BY <1>2
      <4> HIDE DEF j
      <4>3. id_q[j].serial
        BY <1>8, <2>2, <4>1
      <4>4. j = n
        BY <1>2, <1>10, <4>1, <4>3
      <4> QED
        BY <1>2, <2>1, <4>1, <4>2, <4>3, <4>4
    <3> QED
      BY <1>2, <3>1, <3>2
  <2>3. ASSUME sys_pending' PROVE \E i \in 1 .. count' : Window'[i].serial
    <3>1. CASE sys_pending
      <4>1. PICK i \in 1 .. count : Window[i].serial
        BY <1>4, <3>1 DEF SerialLast
      <4>2. ~(i \in 1 .. e)
        BY <1>13, <1>15, <4>1
      <4> DEFINE j == i - e
      <4>3. j \in 1 .. count' /\ j <= count - e /\ j + e = i
        BY <1>2, <4>1, <4>2
      <4> HIDE DEF j
      <4>4. Window'[j].serial
        BY <1>7, <4>1, <4>3
      <4> QED
        BY <4>3, <4>4
    <3>2. CASE \E j \in 1 .. n : id_q[j].serial
      <4>1. PICK j \in 1 .. n : id_q[j].serial
        BY <3>2
      <4> DEFINE i == count - e + j
      <4>2. i \in 1 .. count' /\ i > count - e /\ i - (count - e) = j
        BY <1>2, <4>1
      <4> HIDE DEF i
      <4>3. Window'[i] = NewEntry(d, j)
        BY <1>3, <4>2
      <4> QED
        BY <1>8, <4>1, <4>2, <4>3
    <3> QED
      BY <2>1, <2>3, <3>1, <3>2
  <2> QED
    BY <1>5, <2>2, <2>3 DEF SerialLast
<1> QED
  BY <1>14, <1>15

(* Every step keeps a serial entry the youngest.                           *)
LEMMA SerialStep == WindowInv /\ SerialLast /\ [Next]_vars => SerialLast'
<1> SUFFICES ASSUME WindowInv, SerialLast, [Next]_vars PROVE SerialLast'
  OBVIOUS
<1>1. Cleared' => SerialLast'
  <2> SUFFICES ASSUME Cleared' PROVE SerialLast'
    OBVIOUS
  <2>1. count' = 0 /\ sys_pending' = FALSE
    BY DEF Cleared
  <2>2. (DOMAIN Window)' = {}
    <3>1. 1 .. count' = {}
      BY <2>1
    <3> QED
      BY <3>1 DEF Window
  <2> QED
    BY <2>1, <2>2 DEF SerialLast
<1>2. UNCHANGED vars => SerialLast'
  BY DEF vars, robVars, backVars, SerialLast, Window
<1> QED
  BY <1>1, <1>2, Steps, SerialEdge DEF WindowInv

-----------------------------------------------------------------------------
(* In order: the registers with a writer in flight.                        *)
WriterAt(i, r) == Window[i].meta.rd = r /\ ~Window[i].serial
BusyOf(r) ==
  /\ r \in busy <=> \E i \in 1 .. count : WriterAt(i, r)
  /\ \A i, j \in 1 .. count : WriterAt(i, r) /\ WriterAt(j, r) => i = j
  /\ \A i \in 1 .. count : WriterAt(i, r) => producer[r] = Window[i].meta.tag
BusyInv == ~OUT_OF_ORDER => \A r \in Arch \ {0} : BusyOf(r)

(* In order, dispatch gives no register a second writer, also not within a *)
(* bundle (control/inorder_operands.sv).                                   *)
LEMMA InorderAllows ==
  ASSUME ~OUT_OF_ORDER, NEW w, NEW d, DispatchFacts(w, d)
  PROVE  /\ \A j \in 1 .. d.n : Reserves(id_q[j]) => id_q[j].rd \notin busy
         /\ d.n = 2 /\ Reserves(id_q[1]) /\ Reserves(id_q[2]) => id_q[1].rd # id_q[2].rd
<1> DEFINE offer == offer_count(terminal_enqueued \/ halted \/ fault \/ w.backend_flush
                                \/ w.branch.valid \/ w.branch_fault)
           n == d.n
           d1 == dispatch_data[1]
           d2 == dispatch_data[2]
<1>1. n \in 0 .. 2 /\ n = inorder_allow_count(dispatch_data, offer)
  BY DEF DispatchFacts, allow_count
<1>2. \A j \in 1 .. n : dispatch_data[j] = id_q[j]
  BY DEF DispatchFacts
<1>3. n # 0 => (Reserves(d1) => d1.rd \notin busy)
  BY <1>1 DEF inorder_allow_count
<1>4. n = 2 => (Reserves(d2) => d2.rd \notin BusyWith(d1))
  BY <1>1 DEF inorder_allow_count
<1> HIDE DEF n, d1, d2
<1>5. /\ n # 0 => d1 = id_q[1]
      /\ n = 2 => d2 = id_q[2]
  BY <1>1, <1>2 DEF d1, d2
<1>6. n = 2 => (Reserves(id_q[2]) => /\ id_q[2].rd \notin busy
                                     /\ Reserves(id_q[1]) => id_q[1].rd # id_q[2].rd)
  BY <1>4, <1>5 DEF BusyWith
<1>7. \A j \in 1 .. n : j = 1 \/ (j = 2 /\ n = 2)
  BY <1>1
<1>8. \A j \in 1 .. n : Reserves(id_q[j]) => id_q[j].rd \notin busy
  <2>1. \A j \in 1 .. n : n # 0
    BY <1>1
  <2> QED
    BY <1>3, <1>5, <1>6, <1>7, <2>1
<1> QED
  BY <1>6, <1>8 DEF n

(* An edge without a flush keeps the busy bit and the producer of a        *)
(* register true to its writer in flight.                                  *)
LEMMA BusyEdge ==
  ASSUME ~OUT_OF_ORDER, WindowInv, SerialLast, NEW w, NEW d, NEW chosen,
         EdgeHolds(w, d, chosen), ~w.backend_flush, NEW r \in Arch \ {0}, BusyOf(r)
  PROVE  BusyOf(r)'
<1> DEFINE e == w.retiring
           n == d.n
           k == d.enqueued
           left == Leaving(w)
           new == Writers(d)
           NewWriter(j) == NewEntry(d, j).meta.rd = r /\ ~NewEntry(d, j).serial
           Last == CHOOSE i \in DOMAIN new :
                     new[i].rd = r /\ \A j \in DOMAIN new : new[j].rd = r => j <= i
<1>1. TypesInv /\ WindowFull /\ WiresHold(w) /\ DispatchFacts(w, d)
  BY DEF WindowInv, EdgeHolds
<1>2. /\ e \in 0 .. 2 /\ e <= count /\ n \in 0 .. 2 /\ count \in 0 .. RobDepth /\ RobDepth \in Nat
      /\ count' = count + n - e
  BY <1>1, Moved
<1>3. /\ \A i \in 1 .. count' : i <= count - e =>
           i + e \in 1 .. count /\ Kept(Window'[i], Window[i + e], w.completions)
      /\ \A i \in 1 .. count' : i > count - e =>
           i - (count - e) \in 1 .. n /\ Window'[i] = NewEntry(d, i - (count - e))
  BY <1>1, WindowAfter
<1>4. DOMAIN Window = 1 .. count /\ \A i \in 1 .. count : Window[i] \in rob_entry_t
  BY <1>1, WindowIs
<1>6. w.completions \in SUBSET result_t
  BY CompletionsTypes DEF EdgeHolds, WindowInv, TypesInv, TypeOK
<1>7. \A i \in 1 .. count' : i <= count - e =>
           /\ i + e \in 1 .. count
           /\ Window'[i].serial = Window[i + e].serial /\ Window'[i].meta = Window[i + e].meta
  BY <1>3, <1>4, <1>6, KeptIs
<1>8. \A j \in 1 .. n : /\ id_q[j] \in decode_t
                        /\ NewEntry(d, j).serial = id_q[j].serial
                        /\ NewEntry(d, j).meta.rd = id_q[j].rd
                        /\ d.prepared[j].meta = NewEntry(d, j).meta
  BY <1>1, NewEntryIs
<1>9. /\ k \in 0 .. n
      /\ \A j \in 1 .. n : j <= k <=> ~id_q[j].terminal /\ ~id_q[j].serial
  BY <1>1 DEF DispatchFacts
<1>10. /\ DOMAIN new = 1 .. k /\ \A j \in 1 .. k : new[j] = d.prepared[j].meta
  BY DEF Writers
<1>11. /\ busy' = (busy \ ({left[i].rd : i \in DOMAIN left} \ {0}))
                    \cup ({new[i].rd : i \in DOMAIN new} \ {0})
       /\ producer'[r] = IF r \in {new[i].rd : i \in DOMAIN new} \ {0} THEN new[Last].tag ELSE producer[r]
  BY DEF EdgeHolds, BackSteps, InorderTick
<1>12. \A i \in 1 .. e : Window[i].serial <=> w.sys_retire
  <2> SUFFICES ASSUME NEW i \in 1 .. e PROVE Window[i].serial <=> w.sys_retire
    OBVIOUS
  <2>1. /\ w.sys_retire <=> Window[1].serial
        /\ Window[i].serial => w.retiring = 1 /\ i = 1
    BY <1>1, Retires
  <2>2. Window[1].serial => count = 1
    <3>1. 1 \in 1 .. count
      BY <1>2
    <3> QED
      BY <1>4, <3>1 DEF SerialLast
  <2>3. Window[1].serial => i = 1
    BY <1>2, <2>2
  <2> QED
    BY <2>1, <2>3
<1>13. \A i \in 1 .. e : i \in 1 .. count /\ Window[i] = EntryAt(i - 1)
  BY <1>1, Retires
<1>14. /\ w.sys_retire => left = <<>>
       /\ ~w.sys_retire => left = [i \in 1 .. e |-> EntryAt(i - 1).meta]
  BY DEF Leaving
<1>15. \A j \in 1 .. n : NewWriter(j) => r \notin busy
  <2> SUFFICES ASSUME NEW j \in 1 .. n, NewWriter(j) PROVE r \notin busy
    OBVIOUS
  <2>1. id_q[j].rd = r /\ ~id_q[j].serial /\ id_q[j] \in decode_t
    BY <1>8
  <2>2. Reserves(id_q[j])
    BY <2>1 DEF decode_t, Reserves, Ends
  <2> QED
    BY <1>1, <2>1, <2>2, InorderAllows
<1>16. n = 2 => ~(NewWriter(1) /\ NewWriter(2))
  <2> SUFFICES ASSUME n = 2, NewWriter(1), NewWriter(2) PROVE FALSE
    OBVIOUS
  <2>1. 1 \in 1 .. n /\ 2 \in 1 .. n
    OBVIOUS
  <2>2. /\ id_q[1].rd = r /\ ~id_q[1].serial /\ id_q[1] \in decode_t
        /\ id_q[2].rd = r /\ ~id_q[2].serial /\ id_q[2] \in decode_t
    BY <1>8, <2>1
  <2>3. Reserves(id_q[1]) /\ Reserves(id_q[2])
    BY <2>2 DEF decode_t, Reserves, Ends
  <2> QED
    BY <1>1, <2>2, <2>3, InorderAllows
<1>17. \A j \in 1 .. n : NewWriter(j) <=> j \in 1 .. k /\ new[j].rd = r
  <2> SUFFICES ASSUME NEW j \in 1 .. n PROVE NewWriter(j) <=> j \in 1 .. k /\ new[j].rd = r
    OBVIOUS
  <2>1. id_q[j] \in decode_t /\ NewEntry(d, j).serial = id_q[j].serial
        /\ NewEntry(d, j).meta.rd = id_q[j].rd /\ (j \in 1 .. k => new[j].rd = id_q[j].rd)
    BY <1>8, <1>10
  <2>2. j \in 1 .. k <=> ~id_q[j].terminal /\ ~id_q[j].serial
    <3>1. j \in 1 .. k <=> j <= k
      <4> HIDE DEF k, n
      <4> QED
        BY <1>2, <1>9
    <3> QED
      BY <1>9, <3>1
  <2>3. id_q[j].terminal => id_q[j].rd # r
    BY <2>1 DEF decode_t
  <2> QED
    BY <2>1, <2>2, <2>3
<1> HIDE DEF e, n, k, left, new, Last
<1>18. r \in {left[i].rd : i \in DOMAIN left} <=> \E i \in 1 .. e : WriterAt(i, r)
  <2>1. CASE w.sys_retire
    <3>1. DOMAIN left = {}
      BY <1>14, <2>1
    <3> QED
      BY <1>12, <2>1, <3>1 DEF WriterAt
  <2>2. CASE ~w.sys_retire
    <3>1. DOMAIN left = 1 .. e /\ \A i \in 1 .. e : left[i] = Window[i].meta
      BY <1>13, <1>14, <2>2
    <3> QED
      BY <1>12, <2>2, <3>1 DEF WriterAt
  <2> QED
    BY <2>1, <2>2
<1>19. 1 .. k \subseteq 1 .. n
  BY <1>2, <1>9
<1>20. r \in {new[i].rd : i \in DOMAIN new} <=> \E j \in 1 .. n : NewWriter(j)
  BY <1>10, <1>17, <1>19
<1>21. \A j \in 1 .. n : NewWriter(j) => producer'[r] = NewEntry(d, j).meta.tag
  <2> SUFFICES ASSUME NEW j \in 1 .. n, NewWriter(j) PROVE producer'[r] = NewEntry(d, j).meta.tag
    OBVIOUS
  <2>1. \A i \in 1 .. n : NewWriter(i) => i = j
    BY <1>2, <1>16
  <2>2. j \in DOMAIN new /\ new[j].rd = r /\ \A i \in DOMAIN new : new[i].rd = r => i = j
    BY <1>10, <1>17, <1>19, <2>1
  <2>3. \A i \in DOMAIN new : new[i].rd = r => i <= j
    BY <1>2, <2>2
  <2>4. Last = j
    BY <2>2, <2>3 DEF Last
  <2>5. new[j] = NewEntry(d, j).meta
    BY <1>8, <1>10, <2>2
  <2>6. r \in {new[i].rd : i \in DOMAIN new} \ {0}
    BY <2>2
  <2> QED
    BY <1>11, <2>4, <2>5, <2>6
<1>22. (~ \E j \in 1 .. n : NewWriter(j)) => producer'[r] = producer[r]
  BY <1>11, <1>20
<1>23. r \in busy' <=> \/ r \in busy /\ ~ \E i \in 1 .. e : WriterAt(i, r)
                       \/ \E j \in 1 .. n : NewWriter(j)
  BY <1>11, <1>18, <1>20
<1>24. \A i \in 1 .. count' :
         /\ i <= count - e => (WriterAt(i, r)' <=> WriterAt(i + e, r)) /\ i + e \in 1 .. count
         /\ i > count - e => /\ i - (count - e) \in 1 .. n
                             /\ WriterAt(i, r)' <=> NewWriter(i - (count - e))
  BY <1>3, <1>7 DEF WriterAt, e, n
<1> HIDE DEF NewWriter
<1>25. (\E i \in 1 .. count' : WriterAt(i, r)') => r \in busy'
  <2> SUFFICES ASSUME NEW i \in 1 .. count', WriterAt(i, r)' PROVE r \in busy'
    OBVIOUS
  <2>1. CASE i <= count - e
    <3> DEFINE j == i + e
    <3>1. j \in 1 .. count /\ WriterAt(j, r) /\ ~(j \in 1 .. e)
      BY <1>2, <1>24, <2>1
    <3> HIDE DEF j
    <3>2. r \in busy /\ \A m \in 1 .. count : WriterAt(m, r) => m = j
      BY <3>1 DEF BusyOf
    <3>3. 1 .. e \subseteq 1 .. count
      BY <1>2
    <3> QED
      BY <1>23, <3>1, <3>2, <3>3
  <2>2. CASE i > count - e
    BY <1>23, <1>24, <2>2
  <2> QED
    BY <1>2, <2>1, <2>2
<1>26. r \in busy' => \E i \in 1 .. count' : WriterAt(i, r)'
  <2>1. CASE \E j \in 1 .. n : NewWriter(j)
    <3>1. PICK j \in 1 .. n : NewWriter(j)
      BY <2>1
    <3> DEFINE i == count - e + j
    <3>2. i \in 1 .. count' /\ i > count - e /\ i - (count - e) = j
      BY <1>2
    <3> HIDE DEF i
    <3> QED
      BY <1>24, <3>1, <3>2
  <2>2. CASE r \in busy /\ ~ \E i \in 1 .. e : WriterAt(i, r)
    <3>1. PICK i \in 1 .. count : WriterAt(i, r)
      BY <2>2 DEF BusyOf
    <3>2. ~(i \in 1 .. e)
      BY <2>2, <3>1
    <3> DEFINE j == i - e
    <3>3. j \in 1 .. count' /\ j <= count - e /\ j + e = i
      BY <1>2, <3>1, <3>2
    <3> HIDE DEF j
    <3> QED
      BY <1>24, <3>1, <3>3
  <2> QED
    BY <1>23, <2>1, <2>2
<1>27. ASSUME NEW i \in 1 .. count', NEW j \in 1 .. count', WriterAt(i, r)', WriterAt(j, r)'
       PROVE  i = j
  <2>1. CASE i <= count - e /\ j <= count - e
    <3>1. i + e = j + e
      BY <1>24, <1>27, <2>1 DEF BusyOf
    <3> QED
      BY <1>2, <3>1
  <2>2. CASE i > count - e /\ j > count - e
    <3> DEFINE a == i - (count - e)
               b == j - (count - e)
    <3>1. a \in 1 .. n /\ b \in 1 .. n /\ NewWriter(a) /\ NewWriter(b)
      BY <1>24, <1>27, <2>2
    <3> HIDE DEF a, b
    <3>2. a = b
      BY <1>2, <1>16, <3>1
    <3> QED
      BY <1>2, <3>2 DEF a, b
  <2>3. ASSUME NEW a \in 1 .. count', NEW b \in 1 .. count', WriterAt(a, r)', WriterAt(b, r)',
               a <= count - e, b > count - e
        PROVE  FALSE
    <3>1. r \in busy
      BY <1>24, <2>3 DEF BusyOf
    <3> QED
      BY <1>15, <1>24, <2>3, <3>1
  <2> QED
    BY <1>2, <1>27, <2>1, <2>2, <2>3
<1>28. ASSUME NEW i \in 1 .. count', WriterAt(i, r)'
       PROVE  producer'[r] = Window'[i].meta.tag
  <2>1. CASE i <= count - e
    <3>1. i + e \in 1 .. count /\ WriterAt(i + e, r) /\ Window'[i].meta = Window[i + e].meta
      BY <1>7, <1>24, <1>28, <2>1 DEF e
    <3>2. r \in busy /\ producer[r] = Window[i + e].meta.tag
      BY <3>1 DEF BusyOf
    <3>3. producer'[r] = producer[r]
      BY <1>15, <1>22, <3>2
    <3> QED
      BY <3>1, <3>2, <3>3
  <2>2. CASE i > count - e
    BY <1>3, <1>21, <1>24, <1>28, <2>2 DEF e, n
  <2> QED
    BY <1>2, <2>1, <2>2
<1> QED
  BY <1>25, <1>26, <1>27, <1>28 DEF BusyOf

(* Every step keeps busy bits and producers true.                          *)
LEMMA BusyStep == WindowInv /\ SerialLast /\ BusyInv /\ [Next]_vars => BusyInv'
<1> SUFFICES ASSUME WindowInv, SerialLast, BusyInv, [Next]_vars, ~OUT_OF_ORDER, NEW r \in Arch \ {0}
             PROVE  BusyOf(r)'
  BY DEF BusyInv
<1>1. Cleared' => BusyOf(r)'
  <2> SUFFICES ASSUME Cleared' PROVE BusyOf(r)'
    OBVIOUS
  <2>1. count' = 0 /\ busy' = {}
    BY DEF Cleared
  <2>2. 1 .. count' = {}
    BY <2>1
  <2> QED
    BY <2>1, <2>2 DEF BusyOf
<1>2. UNCHANGED vars => BusyOf(r)'
  <2> SUFFICES ASSUME UNCHANGED vars PROVE BusyOf(r)'
    OBVIOUS
  <2>1. UNCHANGED <<rob, head, count, busy, producer>>
    BY DEF vars, robVars, backVars
  <2>2. BusyOf(r)
    BY DEF BusyInv
  <2> QED
    BY <2>1, <2>2 DEF BusyOf, WriterAt, Window
<1>3. ASSUME NEW w, NEW d, NEW chosen, EdgeHolds(w, d, chosen), ~w.backend_flush
      PROVE  BusyOf(r)'
  <2>1. BusyOf(r)
    BY DEF BusyInv
  <2> QED
    BY <1>3, <2>1, BusyEdge
<1> QED
  BY <1>1, <1>2, <1>3, Steps DEF WindowInv

(* The invariant of the busy bits is what the runs check.                  *)
LEMMA BusyIsExact == WindowInv /\ BusyInv => BusyExact
<1> SUFFICES ASSUME WindowInv, BusyInv, ~OUT_OF_ORDER, NEW r \in Arch \ {0}
             PROVE  LET writers == {i \in DOMAIN Window : Window[i].meta.rd = r /\ ~Window[i].serial}
                    IN /\ r \in busy <=> writers # {}
                       /\ Cardinality(writers) <= 1
                       /\ \A i \in writers : producer[r] = Window[i].meta.tag
  BY DEF BusyExact
<1> DEFINE writers == {i \in DOMAIN Window : Window[i].meta.rd = r /\ ~Window[i].serial}
<1>1. writers = {i \in 1 .. count : WriterAt(i, r)}
  BY DEF WriterAt, Window
<1>2. BusyOf(r)
  BY DEF BusyInv
<1> HIDE DEF writers
<1>3. r \in busy <=> writers # {}
  BY <1>1, <1>2 DEF BusyOf
<1>4. \A i \in writers : producer[r] = Window[i].meta.tag
  BY <1>1, <1>2 DEF BusyOf
<1>5. Cardinality(writers) <= 1
  <2>1. CASE writers = {}
    <3>1. Cardinality(writers) = 0
      BY <2>1, FS_EmptySet
    <3> QED
      BY <3>1
  <2>2. CASE writers # {}
    <3>1. PICK i : i \in writers
      BY <2>2
    <3>2. writers = {i}
      BY <1>1, <1>2, <3>1 DEF BusyOf
    <3>3. Cardinality(writers) = 1
      BY <3>2, FS_Singleton
    <3> QED
      BY <3>3
  <2> QED
    BY <2>1, <2>2
<1> QED
  BY <1>3, <1>4, <1>5 DEF writers

(* With nothing in flight no register is busy and no serial instruction    *)
(* pends.                                                                  *)
LEMMA ClearedOperands == Cleared => SerialLast /\ BusyInv
<1> SUFFICES ASSUME Cleared PROVE SerialLast /\ BusyInv
  OBVIOUS
<1>1. DOMAIN Window = {} /\ sys_pending = FALSE
  BY ClearedWindow DEF Cleared
<1>2. SerialLast
  BY <1>1 DEF SerialLast
<1>3. 1 .. count = {} /\ (~OUT_OF_ORDER => busy = {})
  BY DEF Cleared
<1>4. BusyInv
  BY <1>3 DEF BusyInv, BusyOf
<1> QED
  BY <1>2, <1>4

(* The in-order core's busy bits and producers are exactly its writers in  *)
(* flight: a register has at most one, and its operands wait for that one  *)
(* (control/inorder_operands.sv:58-61,66-80).                              *)
THEOREM CoreBusy == Spec => []BusyExact
<1> DEFINE I == WindowInv /\ SerialLast /\ BusyInv
<1>1. Init => I
  BY WindowInvInit, ClearedInit, ClearedOperands
<1>2. I /\ [Next]_vars => I'
  BY WindowInvStep, TypesStep, SerialStep, BusyStep DEF WindowInv
<1>3. I => BusyExact
  BY BusyIsExact
<1> QED
  BY <1>1, <1>2, <1>3, PTL DEF Spec
=============================================================================
