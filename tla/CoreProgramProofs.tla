------------------------- MODULE CoreProgramProofs --------------------------
(***************************************************************************)
(* What the pipeline holds is the program: everything fetched, decoded and *)
(* in flight is the word of the memory at its address, the addresses in    *)
(* flight follow one path from the last retired instruction, the registers *)
(* an instruction reads are those the instructions before it leave, and    *)
(* its result is the one of the instruction set.                           *)
(***************************************************************************)
EXTENDS CoreFlightProofs

-----------------------------------------------------------------------------
(* What is known of the pipeline before its values are: every component    *)
(* keeps its promises (CoreTypesProofs, CoreFlightProofs).               *)
Base == WaitInv /\ EndInv /\ AlignedInv /\ Path!AddressesAgree

(* The invariants of the other proof modules hold together.                *)
LEMMA BaseHolds == Spec => []Base
<1>1. Init => EndInv
  BY BranchInvInit, ChannelInvInit, EndInit, OneEndInit DEF EndInv
<1>2. Spec => []WaitInv
  BY WaitInit, WaitStep, PTL DEF Spec
<1>3. Spec => []EndInv
  BY <1>1, EndInvStep, PTL DEF Spec
<1>4. Spec => []AlignedInv
  BY AlignedInit, AlignedStep, PTL DEF Spec
<1> QED
  BY <1>2, <1>3, <1>4, CoreAddresses, PTL DEF Base

(* The parts of it that the steps use.                                     *)
LEMMA BaseIs ==
  ASSUME Base
  PROVE  /\ WindowInv /\ TypesInv /\ QueuesInv /\ TypeOK /\ PlaceInv /\ RenameInv /\ BranchInv
         /\ WindowFull /\ MdOne /\ EachInOnePlace /\ SerialLast /\ BusyInv /\ InorderNamed /\ ReadyInv
         /\ QueuesBounded /\ FrontTypes /\ MemoryTypes /\ RenameTypes /\ ExecutionTypes /\ RetireTypes
  BY DEF Base, WaitInv, WakeBase, PlaceInv, WindowInv, TypesInv, TypeOK, RenameInv, EndInv

(* And after a step.                                                       *)
LEMMA BaseNext ==
  ASSUME Base'
  PROVE  /\ WindowInv' /\ TypesInv' /\ PlaceInv' /\ RenameInv' /\ BranchInv'
         /\ FrontTypes' /\ MemoryTypes' /\ RenameTypes' /\ ExecutionTypes' /\ RetireTypes'
         /\ QueuesBounded' /\ EachInOnePlace' /\ WindowFull'
  BY DEF Base, WaitInv, WakeBase, PlaceInv, WindowInv, TypesInv, TypeOK, RenameInv, EndInv

-----------------------------------------------------------------------------
(* The word the memory holds at an address, as the fetch unit delivers it, *)
(* and what the decoder makes of it.                                       *)
FetchedAt(a) ==
  [pc |-> a, instruction |-> Memory!ReadWord(a).data, status |-> Memory!ReadWord(a).status]
CodeAt(a) == rv32_decode(FetchedAt(a))

(* Everything in the frontend is the program at its address.               *)
TrueWords == {x \in fetch_t : x = FetchedAt(x.pc)}
TrueCodes == {x \in decode_t : x = CodeAt(x.pc)}
FrontTrue ==
  /\ out_valid => out_data \in TrueWords
  /\ fifo_q \in Seq(TrueWords) /\ if_q \in Seq(TrueWords) /\ id_q \in Seq(TrueCodes)

(* Loaded once, the program stays.                                         *)
LEMMA ProgramStays == [Next]_vars => program' = program
<1>1. ASSUME NEW w, NEW d, FrontEdge(w, d)
      PROVE  program' = program
  BY <1>1 DEF FrontEdge, Memory!MemTick
<1>2. ClockEdge => program' = program
  BY <1>1 DEF ClockEdge, EdgeAfter, EdgeWith
<1>3. ResetEdge => program' = program
  BY DEF ResetEdge, Memory!reset_protocol
<1> QED
  BY <1>2, <1>3 DEF Next, vars, memoryVars

(* So does what it says.                                                   *)
LEMMA CodeStays ==
  ASSUME program' = program
  PROVE  /\ \A a : FetchedAt(a)' = FetchedAt(a) /\ CodeAt(a)' = CodeAt(a)
         /\ TrueWords' = TrueWords /\ TrueCodes' = TrueCodes
<1>1. ASSUME NEW a
      PROVE  FetchedAt(a)' = FetchedAt(a)
  BY DEF FetchedAt, Memory!ReadWord
<1>2. ASSUME NEW a
      PROVE  CodeAt(a)' = CodeAt(a)
  BY <1>1 DEF CodeAt
<1> QED
  BY <1>1, <1>2 DEF TrueWords, TrueCodes

(* The word at an address is fetched from that address.                    *)
LEMMA CodePlace ==
  ASSUME NEW a
  PROVE  FetchedAt(a).pc = a /\ CodeAt(a).pc = a
  BY DEF FetchedAt, CodeAt, rv32_decode, Terminal, Legal

(* A word of the program decodes to code of the program.                   *)
LEMMA TrueDecode == \A x \in TrueWords : rv32_decode(x) \in TrueCodes
<1> SUFFICES ASSUME NEW x \in TrueWords
             PROVE  rv32_decode(x) \in TrueCodes
  OBVIOUS
<1>1. x \in fetch_t /\ x = FetchedAt(x.pc)
  BY DEF TrueWords
<1>2. rv32_decode(x) \in decode_t
  BY <1>1, DecodeType
<1>3. rv32_decode(x) = CodeAt(x.pc) /\ CodeAt(x.pc).pc = x.pc
  BY <1>1, CodePlace DEF CodeAt
<1> QED
  BY <1>2, <1>3 DEF TrueCodes

(* What the memory answers is the word at the address asked for.           *)
LEMMA FrontTrueEdge ==
  ASSUME Base, Base', FrontTrue, NEW w, NEW d, NEW chosen, EdgeHolds(w, d, chosen), program' = program
  PROVE  FrontTrue'
<1>1. FrontEdge(w, d) /\ d.n \in 0 .. 2 /\ d.n <= Len(id_q)
  BY DEF EdgeHolds, DispatchFacts
<1>2. fifo_q' \in Seq(TrueWords) /\ if_q' \in Seq(TrueWords) /\ id_q' \in Seq(TrueCodes)
  BY <1>1, BaseIs, TrueDecode, QueuesCarry DEF FrontTrue
<1>3. ASSUME out_valid'
      PROVE  out_data' \in TrueWords
  <2>1. Fetch!Tick(w.fetch_stop, w.redirect, mem_req_ready, mem_rsp, fetched_ready)
    BY <1>1 DEF FrontEdge
  <2>2. out_data' \in fetch_t
    BY <1>3, BaseNext DEF FrontTypes
  <2>3. \/ out_valid /\ out_data' = out_data
        \/ /\ mem_rsp.valid
           /\ out_data' = [pc |-> pending_pc, instruction |-> mem_rsp.data, status |-> mem_rsp.status]
    BY <2>1, <1>3 DEF Fetch!Tick
  <2>4. mem_rsp.valid => /\ mem_rsp.data = Memory!ReadWord(pending_pc).data
                         /\ mem_rsp.status = Memory!ReadWord(pending_pc).status
    BY DEF Base, Path!AddressesAgree, Path!ReadWord, Memory!ReadWord
  <2>5. CASE out_valid /\ out_data' = out_data
    BY <2>5 DEF FrontTrue
  <2>6. CASE /\ mem_rsp.valid
             /\ out_data' = [pc |-> pending_pc, instruction |-> mem_rsp.data, status |-> mem_rsp.status]
    BY <2>2, <2>4, <2>6 DEF TrueWords, FetchedAt
  <2> QED
    BY <2>3, <2>5, <2>6
<1> QED
  BY <1>2, <1>3, CodeStays DEF FrontTrue

(* Reset empties the frontend.                                             *)
LEMMA FrontTrueEmpty ==
  ASSUME ~out_valid, fifo_q = <<>>, if_q = <<>>, id_q = <<>>
  PROVE  FrontTrue
  BY DEF FrontTrue
(* Reset leaves nothing fetched, queued or asked for, and the program      *)
(* starts at 0.                                                            *)
LEMMA ResetFront ==
  ASSUME ResetEdge
  PROVE  /\ ~out_valid' /\ fifo_q' = <<>> /\ if_q' = <<>> /\ id_q' = <<>> /\ ~terminal_enqueued'
         /\ ~redirect_pending' /\ ~outstanding' /\ fetch_pc' = 0 /\ ~stopped' /\ arch_next_pc' = 0
  BY DEF ResetEdge, Fetch!Reset, PathReset, Fifo!QueueTick, IfId!QueueTick, IdDispatch!QueueTick

(* A step of the core is an edge, a reset, or nothing.                     *)
LEMMA CoreSteps ==
  ASSUME Base, [Next]_vars
  PROVE  \/ ResetEdge
         \/ \E w, d, chosen : EdgeHolds(w, d, chosen)
         \/ UNCHANGED vars
  BY BaseIs, EdgeIs DEF Next, FrontTypes, ExecutionTypes

(* Every step keeps what the front end holds true to the program.          *)
LEMMA FrontTrueStep == Base /\ Base' /\ FrontTrue /\ [Next]_vars => FrontTrue'
<1> SUFFICES ASSUME Base, Base', FrontTrue, [Next]_vars
             PROVE  FrontTrue'
  OBVIOUS
<1>1. program' = program
  BY ProgramStays
<1>2. CASE ResetEdge
  <2>1. fifo_q' \in Seq(TrueWords') /\ if_q' \in Seq(TrueWords') /\ id_q' \in Seq(TrueCodes') /\ ~out_valid'
    BY <1>2, ResetFront
  <2> QED
    BY <2>1 DEF FrontTrue
<1>3. ASSUME NEW w, NEW d, NEW chosen, EdgeHolds(w, d, chosen)
      PROVE  FrontTrue'
  BY <1>1, <1>3, FrontTrueEdge
<1>4. CASE UNCHANGED vars
  BY <1>1, <1>4, CodeStays DEF FrontTrue, vars, frontVars
<1> QED
  BY <1>2, <1>3, <1>4, CoreSteps
(* Before the first edge the front end holds nothing.                      *)
LEMMA FrontTrueInit == Init => FrontTrue
  BY FrontTrueEmpty DEF Init, Fetch!Init, Fifo!QueueInit, IfId!QueueInit, IdDispatch!QueueInit

-----------------------------------------------------------------------------
(* The address k instructions after p.                                     *)
AddressAt(p, k) == (p + 4 * k) % WordModulus

(* Addresses add up.                                                       *)
LEMMA AddressSteps ==
  ASSUME NEW p \in Word, NEW j \in Nat, NEW k \in Nat
  PROVE  /\ AddressAt(p, j) \in Word /\ AddressAt(p, 0) = p
         /\ AddressAt(AddressAt(p, j), k) = AddressAt(p, j + k)
         /\ AddressAt(p, 1) = (p + 4) % WordModulus
<1> DEFINE M == WordModulus
           n == p + 4 * j
           q == n \div M
           r == n % M
           u == r + 4 * k
           s == u \div M
           t == u % M
<1>1. M \in Nat /\ M >= 16
  BY WordSize
<1>2. p \in 0 .. M - 1
  BY DEF Word
<1> HIDE DEF M
<1>3. n \in Nat
  BY <1>1, <1>2
<1> HIDE DEF n
<1>4. q \in Int /\ r \in 0 .. M - 1 /\ n = M * q + r
  BY <1>1, <1>3, DivMod
<1> HIDE DEF q, r
<1>5. u \in Int
  BY <1>1, <1>4
<1> HIDE DEF u
<1>6. s \in Int /\ t \in 0 .. M - 1 /\ u = M * s + t
  BY <1>1, <1>5, DivMod
<1> HIDE DEF s, t
<1>7. p + 4 * (j + k) = M * (q + s) + t
  <2>1. p + 4 * (j + k) = n + 4 * k
    BY <1>1, <1>2 DEF n
  <2>2. M * (q + s) = M * q + M * s
    BY <1>1, <1>4, <1>6
  <2> QED
    BY <2>1, <2>2, <1>1, <1>3, <1>4, <1>5, <1>6 DEF u
<1>8. (p + 4 * (j + k)) % M = t
  <2>1. p + 4 * (j + k) \in Int /\ q + s \in Int
    BY <1>1, <1>2, <1>4, <1>6
  <2> QED
    BY <1>1, <1>6, <1>7, <2>1, DivModUnique
<1>9. p % M = p
  <2>1. p = M * 0 + p
    BY <1>1, <1>2
  <2> QED
    BY <2>1, <1>1, <1>2, DivModUnique
<1>10. p + 4 * 0 = p /\ p + 4 * 1 = p + 4
  BY <1>1, <1>2
<1> QED
  BY <1>4, <1>8, <1>9, <1>10 DEF AddressAt, Word, M, n, r, t, u

(* The packets of q lie on consecutive words from p on.                    *)
Run(q, p) == \A i \in 1 .. Len(q) : q[i].pc = AddressAt(p, i - 1)

(* A queue that gives up its first n packets and takes those that follow.  *)
LEMMA RunMoves ==
  ASSUME NEW S, NEW q \in Seq(S), NEW push \in Seq(S), NEW n \in 0 .. Len(q), NEW p \in Word,
         Run(q, p), Run(push, AddressAt(p, Len(q)))
  PROVE  LET next == SubSeq(q, n + 1, Len(q)) \o push
         IN Len(next) = (Len(q) - n) + Len(push) /\ Run(next, AddressAt(p, n))
<1> DEFINE old == Len(q)
           new == Len(push)
           rest == SubSeq(q, n + 1, old)
           next == rest \o push
<1>1. old \in Nat /\ new \in Nat
  BY LenProperties
<1>2. rest \in Seq(S) /\ Len(rest) = old - n /\ \A i \in 1 .. old - n : rest[i] = q[n + i]
  <2>1. n + 1 \in 1 .. old + 1 /\ old \in n .. old
    BY <1>1
  <2>2. \A i \in n + 1 .. old : q[i] \in S
    BY <1>1, ElementOfSeq
  <2>3. n + 1 <= old + 1
    BY <1>1
  <2>4. Len(rest) = old - n /\ \A i \in 1 .. old - n : rest[i] = q[n + i]
    BY <1>1, <2>3, SubSeqProperties
  <2> QED
    BY <1>1, <2>2, <2>4, SubSeqProperties
<1>3. Len(next) = (old - n) + new
  BY <1>1, <1>2, ConcatProperties
<1>4. ASSUME NEW i \in 1 .. Len(next)
      PROVE  next[i].pc = AddressAt(AddressAt(p, n), i - 1)
  <2>1. i \in Nat /\ i >= 1 /\ i <= (old - n) + new /\ n \in Nat /\ old - n \in Nat
    BY <1>1, <1>3
  <2>2. AddressAt(AddressAt(p, n), i - 1) = AddressAt(p, n + (i - 1))
    BY <2>1, AddressSteps
  <2>3. CASE i <= old - n
    <3>1. next[i] = rest[i] /\ rest[i] = q[n + i]
      BY <1>1, <1>2, <2>1, <2>3, ConcatProperties
    <3>2. n + i \in 1 .. old /\ (n + i) - 1 = n + (i - 1)
      BY <1>1, <2>1, <2>3
    <3> QED
      BY <2>2, <3>1, <3>2 DEF Run
  <2>4. CASE i > old - n
    <3> DEFINE j == i - (old - n)
    <3>1. j \in 1 .. new /\ j - 1 \in Nat /\ old + (j - 1) = n + (i - 1)
      BY <1>1, <2>1, <2>4
    <3>2. next[i] = push[j]
      BY <1>1, <1>2, <2>1, <2>4, ConcatProperties
    <3> HIDE DEF j
    <3>3. push[j].pc = AddressAt(AddressAt(p, old), j - 1)
      BY <3>1 DEF Run
    <3>4. AddressAt(AddressAt(p, old), j - 1) = AddressAt(p, old + (j - 1))
      BY <1>1, <3>1, AddressSteps
    <3> QED
      BY <2>2, <3>1, <3>2, <3>3, <3>4
  <2> QED
    BY <1>1, <2>1, <2>3, <2>4
<1> QED
  BY <1>3, <1>4 DEF Run

(* The front of a queue is a run where the queue is.                       *)
LEMMA RunPrefix ==
  ASSUME NEW S, NEW q \in Seq(S), NEW p, Run(q, p), NEW n \in 0 .. Len(q), NEW s,
         Len(s) = n, \A i \in 1 .. n : s[i].pc = q[i].pc
  PROVE  Run(s, p)
<1>1. \A i \in 1 .. n : i \in 1 .. Len(q)
  BY LenProperties
<1> QED
  BY <1>1 DEF Run

(* Decoding keeps the address.                                             *)
LEMMA DecodedAddress == \A x : rv32_decode(x).pc = x.pc
  BY DEF rv32_decode, Terminal, Legal

(* On an edge that flushes nothing every queue gives up a prefix, which    *)
(* the next one takes.                                                     *)
LEMMA FrontFlow ==
  ASSUME QueuesInv, FrontTypes, NEW w, NEW d, d.n \in 0 .. 2, d.n <= Len(id_q), FrontEdge(w, d),
         ~(d.terminal \/ w.finishing \/ w.branch.valid \/ w.branch_fault
             \/ w.trap.valid \/ w.mret_commit)
  PROVE  \E a \in Seq(fetch_t), b \in Seq(decode_t), m \in 0 .. Len(fifo_q), k \in 0 .. Len(if_q) :
           /\ Len(a) = m /\ \A i \in 1 .. m : a[i] = fifo_q[i]
           /\ Len(b) = k /\ \A i \in 1 .. k : b[i].pc = if_q[i].pc
           /\ fifo_q' = SubSeq(fifo_q, m + 1, Len(fifo_q)) \o
                (IF out_valid /\ ~terminal_enqueued /\ fetched_ready THEN <<out_data>> ELSE <<>>)
           /\ if_q' = SubSeq(if_q, k + 1, Len(if_q)) \o a
           /\ id_q' = SubSeq(id_q, d.n + 1, Len(id_q)) \o b
<1> DEFINE flush == \/ d.terminal \/ w.finishing \/ w.branch.valid \/ w.branch_fault
                    \/ w.trap.valid \/ w.mret_commit
           fetched == IF out_valid /\ ~terminal_enqueued /\ fetched_ready THEN <<out_data>> ELSE <<>>
           m == Lower(Fifo!pop_available, IfId!push_capacity)
           k == Lower(IfId!pop_available, IdDispatch!push_capacity)
           a == SubSeq(Fifo!pop_data, 1, m)
           b == SubSeq(decoded, 1, k)
<1>1. /\ Fifo!QueueTick(flush, fetched, m) /\ IfId!QueueTick(flush, a, k)
      /\ IdDispatch!QueueTick(flush, b, d.n)
  BY DEF FrontEdge
<1>2. fifo_q \in Seq(fetch_t) /\ if_q \in Seq(fetch_t)
  BY DEF FrontTypes
<1>3. /\ m \in 0 .. Len(fifo_q) /\ m <= Fifo!pop_available /\ Fifo!pop_available \in 0 .. Len(fifo_q)
      /\ k \in 0 .. Len(if_q) /\ k <= IfId!pop_available /\ IfId!pop_available \in 0 .. Len(if_q)
  <2> DEFINE in_fifo == Len(fifo_q)
             in_if == Len(if_q)
             in_id == Len(id_q)
  <2>1. in_fifo \in Nat /\ in_if \in 0 .. 2 /\ in_id \in 0 .. 2
    BY FifoAssumption DEF QueuesInv, QueuesBounded
  <2>2. /\ Fifo!pop_available = IF in_fifo >= 2 THEN 2 ELSE in_fifo
        /\ IfId!pop_available = IF in_if >= 2 THEN 2 ELSE in_if
        /\ IfId!push_capacity = IF 2 - in_if >= 2 THEN 2 ELSE 2 - in_if
        /\ IdDispatch!push_capacity = IF 2 - in_id >= 2 THEN 2 ELSE 2 - in_id
    BY DEF Fifo!pop_available, IfId!pop_available, IfId!push_capacity, IdDispatch!push_capacity
  <2> HIDE DEF in_fifo, in_if, in_id
  <2>3. m \in 0 .. in_fifo /\ m <= Fifo!pop_available /\ Fifo!pop_available \in 0 .. in_fifo
    BY <2>1, <2>2 DEF Lower
  <2>4. k \in 0 .. in_if /\ k <= IfId!pop_available /\ IfId!pop_available \in 0 .. in_if
    BY <2>1, <2>2 DEF Lower
  <2> QED
    BY <2>3, <2>4 DEF in_fifo, in_if
<1>4. a \in Seq(fetch_t) /\ Len(a) = m /\ \A i \in 1 .. m : a[i] = fifo_q[i]
  <2>1. /\ Fifo!pop_data \in Seq(fetch_t) /\ Len(Fifo!pop_data) = Fifo!pop_available
        /\ \A i \in 1 .. Fifo!pop_available : Fifo!pop_data[i] = fifo_q[i]
    BY <1>2, <1>3, PrefixTypes DEF Fifo!pop_data
  <2>2. m \in 0 .. Len(Fifo!pop_data)
    BY <1>3, <2>1
  <2>3. \A i \in 1 .. m : i \in 1 .. Fifo!pop_available
    BY <1>3
  <2> QED
    BY <2>1, <2>2, <2>3, PrefixTypes
<1>5. b \in Seq(decode_t) /\ Len(b) = k /\ \A i \in 1 .. k : b[i].pc = if_q[i].pc
  <2> DEFINE n == IfId!pop_available
  <2>1. n \in Nat /\ k \in 0 .. n
    BY <1>3
  <2>2. \A i \in 1 .. n : IfId!pop_data[i] = if_q[i] /\ if_q[i] \in fetch_t
    BY <1>2, <1>3, PrefixTypes DEF IfId!pop_data
  <2>3. \A i \in 1 .. n : rv32_decode(if_q[i]) \in decode_t
    BY <2>2, DecodeType
  <2>4. decoded \in [1 .. n -> decode_t] /\ \A i \in 1 .. n : decoded[i] = rv32_decode(if_q[i])
    BY <2>2, <2>3 DEF decoded
  <2> HIDE DEF n
  <2>5. decoded \in Seq(decode_t) /\ Len(decoded) = n
    BY <2>1, <2>4, SeqDef, LenProperties
  <2>6. k \in 0 .. Len(decoded)
    BY <2>1, <2>5
  <2>7. b \in Seq(decode_t) /\ Len(b) = k /\ \A i \in 1 .. k : b[i] = decoded[i]
    BY <2>5, <2>6, PrefixTypes
  <2>8. ASSUME NEW i \in 1 .. k
        PROVE  b[i].pc = if_q[i].pc
    <3>1. i \in 1 .. n
      BY <2>1
    <3>2. b[i] = rv32_decode(if_q[i])
      BY <2>4, <2>7, <3>1
    <3> QED
      BY <3>2, DecodedAddress
  <2> QED
    BY <2>7, <2>8
<1>6. /\ fifo_q' = SubSeq(fifo_q, m + 1, Len(fifo_q)) \o fetched
      /\ if_q' = SubSeq(if_q, k + 1, Len(if_q)) \o a
      /\ id_q' = SubSeq(id_q, d.n + 1, Len(id_q)) \o b
  <2>1. ~flush
    OBVIOUS
  <2> HIDE DEF flush, fetched, m, k, a, b
  <2> QED
    BY <1>1, <2>1 DEF Fifo!QueueTick, IfId!QueueTick, IdDispatch!QueueTick
<1> HIDE DEF m, k, a, b
<1> QED
  BY <1>3, <1>4, <1>5, <1>6

-----------------------------------------------------------------------------
(* The address the fetch unit goes on at.                                  *)
NextFetch == IF redirect_pending THEN restart_pc ELSE IF outstanding THEN pending_pc ELSE fetch_pc

(* Without a redirect or a stop it delivers the word at that address, or   *)
(* keeps it for later.                                                     *)
LEMMA FetchMoves ==
  ASSUME Base, NEW stop, NEW redirect, NEW room, ~stop, ~redirect.valid,
         Fetch!Tick(stop, redirect, mem_req_ready, mem_rsp, room)
  PROVE  \/ /\ out_valid' /\ ~out_valid /\ ~stopped /\ out_data'.pc = NextFetch
            /\ ~stopped' => NextFetch' = (NextFetch + 4) % WordModulus
         \/ /\ out_valid' = (out_valid /\ ~room) /\ (out_valid' => out_data' = out_data)
            /\ ~stopped' => ~stopped /\ NextFetch' = NextFetch
<1>1. /\ ~(req_valid /\ outstanding) /\ (mem_rsp.valid => outstanding)
      /\ (req_valid \/ outstanding => ~out_valid)
      /\ (outstanding => fetch_pc = (pending_pc + 4) % WordModulus)
      /\ (req_valid => req_addr = fetch_pc)
  <2>1. Path!SingleRequest /\ Path!AddressesAgree
    BY DEF Base, EndInv, ChannelInv
  <2> QED
    BY <2>1 DEF Path!SingleRequest, Path!AddressesAgree, Path!NextPc
<1>2. /\ out_valid \in BOOLEAN /\ outstanding \in BOOLEAN /\ stopped \in BOOLEAN
      /\ redirect_pending \in BOOLEAN
  BY BaseIs DEF FrontTypes
<1>3. CASE mem_rsp.valid /\ ~stopped /\ ~redirect_pending
  <2>1. /\ out_valid' /\ ~outstanding' /\ ~redirect_pending' /\ out_data'.pc = pending_pc
        /\ fetch_pc' = fetch_pc
    BY <1>1, <1>2, <1>3
    DEF Fetch!Tick, Fetch!RequestEdge, Fetch!rsp_ready, Fetch!draining, Fetch!restart, Fetch!issue
  <2> QED
    BY <1>1, <1>3, <2>1 DEF NextFetch
<1>4. CASE ~(mem_rsp.valid /\ ~stopped /\ ~redirect_pending)
  <2>1. /\ out_valid' = (out_valid /\ ~room) /\ out_data' = out_data /\ stopped' = stopped
        /\ redirect_pending' = (redirect_pending /\ ~Fetch!restart(redirect))
        /\ restart_pc' = restart_pc
    BY <1>1, <1>2, <1>4 DEF Fetch!Tick, Fetch!rsp_ready, Fetch!draining
  <2>2. ~stopped' => NextFetch' = NextFetch
    BY <1>1, <1>2, <1>4, <2>1
    DEF Fetch!Tick, Fetch!RequestEdge, Fetch!rsp_ready, Fetch!draining, Fetch!restart, Fetch!issue,
        Fetch!NextPc, NextFetch
  <2> QED
    BY <2>1, <2>2
<1> QED
  BY <1>3, <1>4

(* The frontend holds the words of one path from address p on: queue after *)
(* queue, then the fetched word, then what is fetched next.                *)
Ahead == Len(id_q) + Len(if_q) + Len(fifo_q)
FollowsFrom(p) ==
  /\ Run(id_q, p) /\ Run(if_q, AddressAt(p, Len(id_q)))
  /\ Run(fifo_q, AddressAt(p, Len(id_q) + Len(if_q)))
  /\ out_valid => out_data.pc = AddressAt(p, Ahead)
  /\ ~stopped => NextFetch = AddressAt(p, IF out_valid THEN Ahead + 1 ELSE Ahead)

(* On the same path the frontend goes on from what is dispatched.          *)
LEMMA FollowsOn ==
  ASSUME Base, NEW p \in Word, FollowsFrom(p), ~terminal_enqueued,
         NEW w, NEW d, WiresHold(w), d.n \in 0 .. 2, d.n <= Len(id_q), FrontEdge(w, d), ~w.redirect.valid,
         ~(d.terminal \/ w.finishing \/ w.branch.valid \/ w.branch_fault
             \/ w.trap.valid \/ w.mret_commit)
  PROVE  FollowsFrom(AddressAt(p, d.n))'
<1> DEFINE n == d.n
           i == Len(id_q)
           f == Len(if_q)
           h == Len(fifo_q)
           taken == out_valid /\ fetched_ready
           word == IF out_valid /\ ~terminal_enqueued /\ fetched_ready THEN <<out_data>> ELSE <<>>
           one == IF taken THEN 1 ELSE 0
<1>1. QueuesInv /\ FrontTypes /\ fifo_q \in Seq(fetch_t) /\ if_q \in Seq(fetch_t) /\ id_q \in Seq(decode_t)
  BY BaseIs DEF FrontTypes
<1>2. i \in Nat /\ f \in Nat /\ h \in Nat /\ n \in 0 .. i /\ n \in Nat
  BY <1>1, LenProperties
<1>3. PICK a \in Seq(fetch_t), b \in Seq(decode_t), m \in 0 .. h, k \in 0 .. f :
        /\ Len(a) = m /\ \A x \in 1 .. m : a[x] = fifo_q[x]
        /\ Len(b) = k /\ \A x \in 1 .. k : b[x].pc = if_q[x].pc
        /\ fifo_q' = SubSeq(fifo_q, m + 1, h) \o word
        /\ if_q' = SubSeq(if_q, k + 1, f) \o a
        /\ id_q' = SubSeq(id_q, n + 1, i) \o b
  <2> HIDE DEF word
  <2>1. \E a \in Seq(fetch_t), b \in Seq(decode_t), m \in 0 .. Len(fifo_q), k \in 0 .. Len(if_q) :
          /\ Len(a) = m /\ \A x \in 1 .. m : a[x] = fifo_q[x]
          /\ Len(b) = k /\ \A x \in 1 .. k : b[x].pc = if_q[x].pc
          /\ fifo_q' = SubSeq(fifo_q, m + 1, Len(fifo_q)) \o word
          /\ if_q' = SubSeq(if_q, k + 1, Len(if_q)) \o a
          /\ id_q' = SubSeq(id_q, d.n + 1, Len(id_q)) \o b
    BY <1>1, FrontFlow DEF word
  <2> QED
    BY <2>1
<1>4. /\ word \in Seq(fetch_t) /\ Len(word) = one
      /\ (taken => word = <<out_data>> /\ one = 1) /\ (~taken => word = <<>> /\ one = 0) /\ one \in 0 .. 1
  <2>1. out_valid => <<out_data>> \in Seq(fetch_t) /\ Len(<<out_data>>) = 1
    BY <1>1 DEF FrontTypes
  <2>2. Len(<<>>) = 0 /\ <<>> \in Seq(fetch_t)
    BY EmptySeq
  <2> QED
    BY <2>1, <2>2
<1>5. Run(id_q, p) /\ Run(if_q, AddressAt(p, i)) /\ Run(fifo_q, AddressAt(p, i + f))
      /\ (out_valid => out_data.pc = AddressAt(p, i + f + h))
      /\ (~stopped => NextFetch = AddressAt(p, IF out_valid THEN i + f + h + 1 ELSE i + f + h))
  BY DEF FollowsFrom, Ahead
<1> HIDE DEF word, taken, i, f, h, n, one
<1>6. /\ \A x \in Nat, y \in Nat : AddressAt(AddressAt(p, x), y) = AddressAt(p, x + y)
      /\ \A x \in Nat : AddressAt(p, x) \in Word /\ AddressAt(AddressAt(p, x), 0) = AddressAt(p, x)
      /\ i + f \in Nat /\ i + f + h \in Nat
      /\ AddressAt(p, n) \in Word /\ AddressAt(p, i) \in Word /\ AddressAt(p, i + f) \in Word
  <2>1. i + f \in Nat /\ i + f + h \in Nat
    BY <1>2
  <2>2. \A x \in Nat : AddressAt(p, x) \in Word
    BY AddressSteps
  <2>3. \A x \in Nat : AddressAt(AddressAt(p, x), 0) = AddressAt(p, x)
    BY <2>2, AddressSteps
  <2>4. \A x \in Nat, y \in Nat : AddressAt(AddressAt(p, x), y) = AddressAt(p, x + y)
    BY AddressSteps
  <2> QED
    BY <1>2, <2>1, <2>2, <2>3, <2>4
<1>7. word \in Seq(fetch_t) /\ Len(word) = one
  BY <1>4
<1>8. Run(word, AddressAt(AddressAt(p, i + f), h))
  <2>1. CASE taken
    <3>1. word[1].pc = AddressAt(p, i + f + h)
      BY <1>4, <1>5, <2>1 DEF taken
    <3>2. AddressAt(AddressAt(p, i + f), h) = AddressAt(p, i + f + h)
      BY <1>2, <1>6
    <3>3. AddressAt(AddressAt(p, i + f + h), 0) = AddressAt(p, i + f + h)
      BY <1>6
    <3> QED
      BY <1>4, <2>1, <3>1, <3>2, <3>3 DEF Run
  <2>2. CASE ~taken
    BY <1>4, <2>2 DEF Run
  <2> QED
    BY <2>1, <2>2
<1>9. Run(a, AddressAt(AddressAt(p, i), f))
  <2>1. Run(a, AddressAt(p, i + f))
    BY <1>1, <1>3, <1>5, RunPrefix DEF h
  <2> QED
    BY <1>2, <1>6, <2>1
<1>10. Run(b, AddressAt(p, i))
  BY <1>1, <1>3, <1>5, RunPrefix DEF f
<1>11. Len(fifo_q') = (h - m) + one /\ Run(fifo_q', AddressAt(AddressAt(p, i + f), m))
  BY <1>1, <1>3, <1>7, <1>5, <1>6, <1>8, RunMoves DEF h
<1>12. Len(if_q') = (f - k) + m /\ Run(if_q', AddressAt(AddressAt(p, i), k))
  BY <1>1, <1>3, <1>5, <1>6, <1>9, RunMoves DEF f
<1>13. Len(id_q') = (i - n) + k /\ Run(id_q', AddressAt(p, n))
  BY <1>1, <1>2, <1>3, <1>5, <1>10, RunMoves DEF i
<1>14. /\ AddressAt(AddressAt(p, i + f), m) = AddressAt(AddressAt(p, n), Len(id_q') + Len(if_q'))
       /\ AddressAt(AddressAt(p, i), k) = AddressAt(AddressAt(p, n), Len(id_q'))
       /\ Len(id_q') + Len(if_q') + Len(fifo_q') \in Nat
       /\ n + (Len(id_q') + Len(if_q') + Len(fifo_q')) = i + f + h + one
  <2>1. m \in Nat /\ k \in Nat /\ k <= f /\ m <= h /\ one \in Nat
    BY <1>2, <1>4
  <2>2. n + ((i - n) + k) = i + k /\ n + (((i - n) + k) + ((f - k) + m)) = (i + f) + m
    BY <1>2, <2>1
  <2>3. (i - n) + k \in Nat /\ ((i - n) + k) + ((f - k) + m) \in Nat
    BY <1>2, <2>1
  <2>4. /\ ((i - n) + k) + ((f - k) + m) + ((h - m) + one) \in Nat
        /\ n + (((i - n) + k) + ((f - k) + m) + ((h - m) + one)) = i + f + h + one
    BY <1>2, <2>1
  <2>5. /\ AddressAt(AddressAt(p, i + f), m) = AddressAt(p, (i + f) + m)
        /\ AddressAt(AddressAt(p, i), k) = AddressAt(p, i + k)
        /\ AddressAt(AddressAt(p, n), (i - n) + k) = AddressAt(p, n + ((i - n) + k))
        /\ AddressAt(AddressAt(p, n), ((i - n) + k) + ((f - k) + m))
             = AddressAt(p, n + (((i - n) + k) + ((f - k) + m)))
    <3>1. i + f \in Nat /\ m \in Nat /\ k \in Nat
      BY <1>2, <2>1
    <3> QED
      BY <1>2, <1>6, <2>3, <3>1
  <2> QED
    BY <1>11, <1>12, <1>13, <2>2, <2>4, <2>5
<1>15. Fetch!Tick(w.fetch_stop, w.redirect, mem_req_ready, mem_rsp, fetched_ready)
  BY DEF FrontEdge
<1> DEFINE total == Len(id_q') + Len(if_q') + Len(fifo_q')
<1>16. /\ out_valid' => out_data'.pc = AddressAt(AddressAt(p, n), total)
       /\ ~stopped' => NextFetch' = AddressAt(AddressAt(p, n), IF out_valid' THEN total + 1 ELSE total)
  <2>1. /\ AddressAt(AddressAt(p, n), total) = AddressAt(p, i + f + h + one)
        /\ AddressAt(AddressAt(p, n), total + 1) = AddressAt(p, i + f + h + one + 1)
        /\ i + f + h + one \in Nat
    <3> HIDE DEF total
    <3>1. total \in Nat /\ n + total = i + f + h + one /\ total + 1 \in Nat
          /\ n + (total + 1) = i + f + h + one + 1
      BY <1>2, <1>14 DEF total
    <3>2. i + f + h + one \in Nat /\ i + f + h + one + 1 \in Nat
      BY <1>2, <1>4
    <3>3. /\ AddressAt(AddressAt(p, n), total) = AddressAt(p, n + total)
          /\ AddressAt(AddressAt(p, n), total + 1) = AddressAt(p, n + (total + 1))
      BY <1>2, <1>6, <3>1
    <3> QED
      BY <3>1, <3>2, <3>3
  <2> HIDE DEF total
  <2>2. CASE w.fetch_stop
    <3>1. ~out_valid' /\ stopped'
      BY <1>15, <2>2 DEF Fetch!Tick, Fetch!draining
    <3> QED
      BY <3>1
  <2>3. CASE ~w.fetch_stop
    <3>1. \/ /\ out_valid' /\ ~out_valid /\ ~stopped /\ out_data'.pc = NextFetch
             /\ ~stopped' => NextFetch' = (NextFetch + 4) % WordModulus
          \/ /\ out_valid' = (out_valid /\ ~fetched_ready) /\ (out_valid' => out_data' = out_data)
             /\ ~stopped' => ~stopped /\ NextFetch' = NextFetch
      BY <1>15, <2>3, FetchMoves
    <3>2. i + f + h \in Nat /\ i + f + h + 0 = i + f + h
      BY <1>2
    <3>3. CASE /\ out_valid' /\ ~out_valid /\ ~stopped /\ out_data'.pc = NextFetch
               /\ ~stopped' => NextFetch' = (NextFetch + 4) % WordModulus
      <4>1. one = 0 /\ NextFetch = AddressAt(p, i + f + h)
        BY <1>4, <1>5, <3>3 DEF taken
      <4>2. (AddressAt(p, i + f + h) + 4) % WordModulus = AddressAt(p, i + f + h + 1)
        BY <1>6, <3>2, AddressSteps
      <4> QED
        BY <2>1, <3>2, <3>3, <4>1, <4>2
    <3>4. CASE /\ out_valid' = (out_valid /\ ~fetched_ready) /\ (out_valid' => out_data' = out_data)
               /\ ~stopped' => ~stopped /\ NextFetch' = NextFetch
      <4>1. CASE taken
        BY <1>4, <1>5, <2>1, <3>4, <4>1 DEF taken
      <4>2. CASE ~taken
        BY <1>4, <1>5, <2>1, <3>2, <3>4, <4>2 DEF taken
      <4> QED
        BY <4>1, <4>2
    <3> QED
      BY <3>1, <3>3, <3>4
  <2> QED
    BY <2>2, <2>3
<1> QED
  BY <1>11, <1>12, <1>13, <1>14, <1>16 DEF FollowsFrom, Ahead, n

(* An edge that redirects starts a new path where it is told.              *)
LEMMA FollowsAnew ==
  ASSUME NEW w, NEW d, WiresHold(w), FrontEdge(w, d), w.redirect.valid, w.redirect.pc \in Word
  PROVE  /\ FollowsFrom(w.redirect.pc)' /\ ~terminal_enqueued'
         /\ id_q' = <<>> /\ if_q' = <<>> /\ fifo_q' = <<>>
<1>1. w.trap.valid \/ w.mret_commit \/ w.branch.valid
  BY RedirectFlushes
<1>2. id_q' = <<>> /\ if_q' = <<>> /\ fifo_q' = <<>>
  BY <1>1 DEF FrontEdge, Fifo!QueueTick, IfId!QueueTick, IdDispatch!QueueTick
<1>3. ~out_valid' /\ redirect_pending' /\ restart_pc' = w.redirect.pc
  BY DEF FrontEdge, Fetch!Tick, Fetch!draining
<1>4. ~terminal_enqueued'
  BY DEF FrontEdge
<1>5. AddressAt(w.redirect.pc, 0) = w.redirect.pc
  BY AddressSteps
<1>6. Len(id_q') = 0 /\ Len(if_q') = 0 /\ Len(fifo_q') = 0
  BY <1>2
<1>7. Ahead' = 0 /\ NextFetch' = w.redirect.pc
  BY <1>3, <1>6 DEF Ahead, NextFetch
<1> QED
  BY <1>2, <1>3, <1>4, <1>5, <1>6, <1>7 DEF FollowsFrom, Run

-----------------------------------------------------------------------------
(* The instructions in flight with those that an edge dispatches.          *)
Line(d) == [i \in 1 .. count + d.n |-> IF i <= count THEN Window[i] ELSE NewEntry(d, i - count)]

(* The line of an edge: the window, then the entries dispatched behind it. *)
LEMMA LineIs ==
  ASSUME Base, NEW w, NEW d, NEW chosen, EdgeHolds(w, d, chosen)
  PROVE  /\ count \in Nat /\ d.n \in 0 .. 2 /\ w.retiring \in 0 .. 2 /\ w.retiring <= count
         /\ \A i \in 1 .. count : i \in 1 .. count + d.n /\ Line(d)[i] = Window[i]
         /\ \A j \in 1 .. d.n : count + j \in 1 .. count + d.n /\ Line(d)[count + j] = NewEntry(d, j)
         /\ \A i \in 1 .. count + d.n : /\ Line(d)[i] \in rob_entry_t
                                        /\ i <= count \/ i - count \in 1 .. d.n
<1>1. TypesInv /\ WindowFull /\ QueuesBounded
  BY BaseIs
<1>2. WiresHold(w) /\ DispatchFacts(w, d)
  BY DEF EdgeHolds
<1>3. d.n \in 0 .. 2 /\ count \in Nat
  BY <1>1, <1>2 DEF DispatchFacts, QueuesBounded
<1>4. w.retiring \in 0 .. 2 /\ w.retiring <= count
  BY <1>1, <1>2, RetiringIs
<1>5. \A i \in 1 .. count : i \in 1 .. count + d.n /\ Line(d)[i] = Window[i]
  BY <1>3 DEF Line
<1>6. \A j \in 1 .. d.n : count + j \in 1 .. count + d.n /\ Line(d)[count + j] = NewEntry(d, j)
  <2> SUFFICES ASSUME NEW j \in 1 .. d.n
               PROVE  count + j \in 1 .. count + d.n /\ Line(d)[count + j] = NewEntry(d, j)
    OBVIOUS
  <2>1. count + j \in 1 .. count + d.n /\ ~(count + j <= count) /\ (count + j) - count = j
    BY <1>3
  <2> QED
    BY <2>1 DEF Line
<1>7. ASSUME NEW i \in 1 .. count + d.n
      PROVE  Line(d)[i] \in rob_entry_t /\ (i <= count \/ i - count \in 1 .. d.n)
  <2>1. i \in 1 .. count \/ (~(i <= count) /\ i - count \in 1 .. d.n)
    BY <1>3
  <2>2. CASE i \in 1 .. count
    BY <1>1, <1>3, <1>5, <2>2, WindowIs
  <2>3. CASE ~(i <= count) /\ i - count \in 1 .. d.n
    <3>1. NewEntry(d, i - count) \in rob_entry_t
      BY <1>1, <2>3, NewEntryIs
    <3> QED
      BY <2>3, <3>1 DEF Line
  <2> QED
    BY <2>1, <2>2, <2>3
<1> QED
  BY <1>3, <1>4, <1>5, <1>6, <1>7

(* Every result belongs to one entry, which waits for it; no entry has two.*)
LEMMA OneResult ==
  ASSUME Base, NEW w, NEW d, NEW chosen, EdgeHolds(w, d, chosen),
         NEW r \in w.completions, NEW s \in w.completions, r.meta.tag = s.meta.tag
  PROVE  r = s
<1>1. PICK p \in Lane : r = wb[p] /\ <<"wb", p, r.meta>> \in InFlight
  BY CompletionAt DEF EdgeHolds
<1>2. PICK q \in Lane : s = wb[q] /\ <<"wb", q, s.meta>> \in InFlight
  BY CompletionAt DEF EdgeHolds
<1> DEFINE a == <<"wb", p, r.meta>>
           b == <<"wb", q, s.meta>>
<1>3. a \in InFlight /\ b \in InFlight /\ a[3].tag = b[3].tag /\ a[2] = p /\ b[2] = q
  BY <1>1, <1>2
<1> HIDE DEF a, b
<1>4. a = b
  BY <1>3, BaseIs DEF EachInOnePlace
<1> QED
  BY <1>1, <1>2, <1>3, <1>4

(* After an edge without a flush the window is the line without what       *)
(* retires, with the results filled in.                                    *)
LEMMA LineAdvances ==
  ASSUME Base, NEW w, NEW d, NEW chosen, EdgeHolds(w, d, chosen), ~w.backend_flush
  PROVE  /\ count' = (count + d.n) - w.retiring
         /\ \A k \in 1 .. count' :
              LET i == k + w.retiring
              IN /\ i \in 1 .. count + d.n
                 /\ \/ /\ Window'[k] = Line(d)[i]
                       /\ \A r \in w.completions : r.meta.tag # Line(d)[i].meta.tag
                    \/ /\ i \in 1 .. count /\ ~Window[i].done
                       /\ \E r \in w.completions :
                            r.meta = Window[i].meta /\ Window'[k] = CompletedEntry(Window[i], r)
<1>1. PlaceInv /\ TypesInv /\ WindowFull
  BY BaseIs
<1>2. /\ w.retiring \in 0 .. 2 /\ d.n \in 0 .. 2 /\ count \in Nat /\ w.retiring <= count
      /\ count' = (count + d.n) - w.retiring
  BY <1>1, Moved
<1>3. ASSUME NEW k \in 1 .. count', NEW i, i = k + w.retiring
      PROVE  /\ i \in 1 .. count + d.n
             /\ \/ /\ Window'[k] = Line(d)[i]
                   /\ \A r \in w.completions : r.meta.tag # Line(d)[i].meta.tag
                \/ /\ i \in 1 .. count /\ ~Window[i].done
                   /\ \E r \in w.completions :
                        r.meta = Window[i].meta /\ Window'[k] = CompletedEntry(Window[i], r)
  <2>1. i \in 1 .. count + d.n
    BY <1>2, <1>3
  <2>2. CASE k <= count - w.retiring
    <3>1. i \in 1 .. count /\ Kept(Window'[k], Window[i], w.completions)
      BY <1>1, <1>3, <2>2, WindowAfter
    <3>2. Line(d)[i] = Window[i]
      BY <3>1, LineIs
    <3>3. CASE ~ \E r \in w.completions : r.meta.tag = Window[i].meta.tag
      BY <2>1, <3>1, <3>2, <3>3 DEF Kept
    <3>4. ASSUME NEW r \in w.completions, r.meta.tag = Window[i].meta.tag,
                 Window'[k] = CompletedEntry(Window[i], r)
          PROVE  r.meta = Window[i].meta /\ ~Window[i].done
      <4> DEFINE m == Distance(r.meta.tag) + 1
      <4>1. /\ Window[m].meta = r.meta /\ ~Window[m].done
            /\ \A j \in 1 .. count : Window[j].meta.tag = r.meta.tag => j = m
        BY <1>1, ResultOf
      <4> HIDE DEF m
      <4>2. i = m
        BY <3>1, <3>4, <4>1
      <4> QED
        BY <4>1, <4>2
    <3> QED
      BY <2>1, <3>1, <3>2, <3>3, <3>4 DEF Kept
  <2>3. CASE ~(k <= count - w.retiring)
    <3> DEFINE j == k - (count - w.retiring)
    <3>1. j \in 1 .. d.n /\ Window'[k] = NewEntry(d, j)
      BY <1>1, <1>2, <2>3, WindowAfter
    <3>2. i = count + j
      BY <1>2, <1>3
    <3> HIDE DEF j
    <3>3. Line(d)[i] = NewEntry(d, j)
      BY <3>1, <3>2, LineIs
    <3>4. ASSUME NEW r \in w.completions, r.meta.tag = NewEntry(d, j).meta.tag PROVE FALSE
      <4> DEFINE t == allocate_tag(j - 1)
      <4>1. t \in RobTag /\ Distance(t) = (count + j) - 1 /\ NewEntry(d, j).meta.tag = t
        BY <1>1, <1>2, <3>1, PlaceNew, NewEntryIs
      <4>2. Distance(r.meta.tag) + 1 \in 1 .. count
        BY <1>1, ResultOf
      <4>3. r.meta.tag = t
        BY <3>4, <4>1
      <4> HIDE DEF t
      <4> QED
        BY <1>2, <3>1, <4>1, <4>2, <4>3
    <3> QED
      BY <2>1, <3>1, <3>3, <3>4
  <2> QED
    BY <2>2, <2>3
<1> QED
  BY <1>2, <1>3

-----------------------------------------------------------------------------
(* An entry is what the decoder makes of the word at its address; until    *)
(* its result arrives it has no value, and its branch no outcome.          *)
EntryTrue(e) ==
  LET D == CodeAt(e.meta.pc)
  IN /\ e.meta.rd = D.rd /\ e.serial = D.serial
     /\ e.trap_cause = D.trap_cause /\ e.instruction = D.instruction
     /\ D.terminal => e.terminal /\ e.fault = D.fault
     /\ D.terminal \/ D.serial \/ ~e.done => e.value = 0 /\ e.branch = NoBranch
     /\ D.terminal \/ D.serial => e.done
     /\ ~D.terminal => e.terminal = (e.branch.fault # FAULT_NONE) /\ e.fault = e.branch.fault
WindowTrue == \A i \in 1 .. count : EntryTrue(Window[i])

(* A dispatched instruction is one of the program.                         *)
LEMMA NewTrue ==
  ASSUME Base, FrontTrue, NEW w, NEW d, NEW chosen, EdgeHolds(w, d, chosen), NEW j \in 1 .. d.n
  PROVE  /\ id_q[j] = CodeAt(id_q[j].pc) /\ id_q[j] \in decode_t
         /\ NewEntry(d, j).meta.pc = id_q[j].pc /\ EntryTrue(NewEntry(d, j))
         /\ d.prepared[j].branch_offset = id_q[j].immediate
<1>1. TypesInv /\ RenameTypes /\ RetireTypes /\ QueuesBounded /\ DispatchFacts(w, d)
  BY BaseIs DEF EdgeHolds
<1>2. j \in 1 .. Len(id_q)
  BY <1>1 DEF DispatchFacts
<1>3. id_q[j] \in TrueCodes
  BY <1>2, ElementOfSeq DEF FrontTrue
<1> DEFINE c == id_q[j]
<1>4. c \in decode_t /\ c = CodeAt(c.pc)
  BY <1>3 DEF TrueCodes
<1>5. NewEntry(d, j) = AllocatedEntry(c, d.prepared[j].meta)
  BY DEF NewEntry
<1>6. d.prepared[j].meta.pc = c.pc /\ d.prepared[j].meta.rd = c.rd
  <2>1. d.prepared[j].meta = [pc |-> id_q[j].pc, rd |-> id_q[j].rd, tag |-> allocate_tag(j - 1),
                              pdst |-> Destination(j), old_pdst |-> Replaced(j)]
    BY <1>1, PreparedTypes
  <2> QED
    BY <2>1
<1>7. d.prepared[j].branch_offset = c.immediate
  <2>1. d.prepared[j] = PreparedAs(j)
    BY <1>1, PreparedIs
  <2> QED
    BY <2>1 DEF PreparedAs, Renamed, InorderPrepared
<1>8. (~c.terminal => c.fault = FAULT_NONE) /\ c.terminal \in BOOLEAN /\ c.serial \in BOOLEAN
  BY <1>4 DEF decode_t
<1> HIDE DEF c
<1>9. EntryTrue(NewEntry(d, j))
  <2>1. /\ NewEntry(d, j).meta = d.prepared[j].meta /\ NewEntry(d, j).serial = c.serial
        /\ NewEntry(d, j).trap_cause = c.trap_cause /\ NewEntry(d, j).instruction = c.instruction
        /\ NewEntry(d, j).terminal = c.terminal /\ NewEntry(d, j).fault = c.fault
        /\ NewEntry(d, j).value = 0 /\ NewEntry(d, j).branch = NoBranch
        /\ NewEntry(d, j).done = (c.terminal \/ c.serial)
    BY <1>5 DEF AllocatedEntry
  <2>2. CodeAt(NewEntry(d, j).meta.pc) = c
    BY <1>4, <1>6, <2>1
  <2>3. NoBranch.fault = FAULT_NONE
    BY DEF NoBranch
  <2> QED
    BY <1>6, <1>8, <2>1, <2>2, <2>3 DEF EntryTrue
<1> QED
  BY <1>4, <1>5, <1>6, <1>7, <1>9 DEF AllocatedEntry, c

(* A result leaves an entry what it is.                                    *)
LEMMA CompletedTrue ==
  ASSUME NEW e \in rob_entry_t, EntryTrue(e), ~e.done, NEW r \in result_t, r.meta = e.meta
  PROVE  EntryTrue(CompletedEntry(e, r))
<1> DEFINE D == CodeAt(e.meta.pc)
           n == CompletedEntry(e, r)
<1>1. /\ n.meta = e.meta /\ n.serial = e.serial /\ n.trap_cause = e.trap_cause
      /\ n.instruction = e.instruction /\ n.done /\ n.value = r.value /\ n.branch = r.branch
      /\ n.terminal = (e.terminal \/ r.branch.fault # FAULT_NONE)
      /\ n.fault = IF r.branch.fault # FAULT_NONE THEN r.branch.fault ELSE e.fault
  BY DEF CompletedEntry, rob_entry_t
<1> HIDE DEF n
<1>2. ~D.terminal /\ ~D.serial /\ e.branch = NoBranch /\ NoBranch.fault = FAULT_NONE
  BY DEF EntryTrue, NoBranch
<1>3. e.terminal = FALSE /\ e.fault = FAULT_NONE
  BY <1>2 DEF EntryTrue
<1>4. CodeAt(n.meta.pc) = D /\ e.meta.rd = D.rd /\ e.serial = D.serial
      /\ e.trap_cause = D.trap_cause /\ e.instruction = D.instruction
  BY <1>1 DEF EntryTrue
<1> HIDE DEF D
<1>5. EntryTrue(n)
  BY <1>1, <1>2, <1>3, <1>4 DEF EntryTrue
<1> QED
  BY <1>5 DEF n

(* The program stays, and with it what it makes of an entry.               *)
LEMMA EntryTrueNext ==
  ASSUME program' = program, NEW i, EntryTrue(Window'[i])
  PROVE  EntryTrue(Window[i])'
<1>1. FetchedAt(Window[i].meta.pc)' = FetchedAt(Window'[i].meta.pc)
  BY DEF FetchedAt, Memory!ReadWord
<1>2. CodeAt(Window[i].meta.pc)' = CodeAt(Window'[i].meta.pc)
  BY <1>1 DEF CodeAt
<1> QED
  BY <1>2 DEF EntryTrue

(* After an edge without a flush the window is still the program's.        *)
LEMMA WindowTrueEdge ==
  ASSUME Base, FrontTrue, WindowTrue, NEW w, NEW d, NEW chosen, EdgeHolds(w, d, chosen),
         ~w.backend_flush, program' = program
  PROVE  WindowTrue'
<1>1. \A i \in 1 .. count + d.n : EntryTrue(Line(d)[i])
  <2> SUFFICES ASSUME NEW i \in 1 .. count + d.n
               PROVE  EntryTrue(Line(d)[i])
    OBVIOUS
  <2>1. CASE i <= count
    BY <2>1, LineIs DEF WindowTrue
  <2>2. CASE i - count \in 1 .. d.n
    <3> DEFINE j == i - count
    <3>1. j \in 1 .. d.n /\ i = count + j
      BY <2>2, LineIs
    <3> HIDE DEF j
    <3> QED
      BY <3>1, LineIs, NewTrue
  <2> QED
    BY <2>1, <2>2, LineIs
<1>3. w.completions \subseteq result_t
  BY BaseIs, CompletionsTypes DEF EdgeHolds
<1>4. ASSUME NEW k \in 1 .. count'
      PROVE  EntryTrue(Window'[k])
  <2> DEFINE i == k + w.retiring
  <2>1. /\ i \in 1 .. count + d.n
        /\ \/ Window'[k] = Line(d)[i]
           \/ /\ i \in 1 .. count /\ ~Window[i].done
              /\ \E r \in w.completions :
                   r.meta = Window[i].meta /\ Window'[k] = CompletedEntry(Window[i], r)
    BY LineAdvances
  <2> HIDE DEF i
  <2>2. CASE Window'[k] = Line(d)[i]
    BY <1>1, <2>1, <2>2
  <2>3. ASSUME i \in 1 .. count, ~Window[i].done, NEW r \in w.completions,
               r.meta = Window[i].meta, Window'[k] = CompletedEntry(Window[i], r)
        PROVE  EntryTrue(Window'[k])
    <3>1. Window[i] \in rob_entry_t
      BY <2>3, LineIs
    <3> QED
      BY <1>3, <2>3, <3>1, CompletedTrue DEF WindowTrue
  <2> QED
    BY <2>1, <2>2, <2>3
<1>5. \A k \in 1 .. count' : EntryTrue(Window[k])'
  BY <1>4, EntryTrueNext
<1> QED
  BY <1>5 DEF WindowTrue

(* Every step keeps the entries in flight true to the program.             *)
LEMMA WindowTrueStep == Base /\ FrontTrue /\ WindowTrue /\ [Next]_vars => WindowTrue'
<1> SUFFICES ASSUME Base, FrontTrue, WindowTrue, [Next]_vars
             PROVE  WindowTrue'
  OBVIOUS
<1>1. program' = program
  BY ProgramStays
<1>2. CASE Cleared'
  BY <1>2 DEF WindowTrue, Cleared
<1>3. ASSUME NEW w, NEW d, NEW chosen, EdgeHolds(w, d, chosen), ~w.backend_flush
      PROVE  WindowTrue'
  BY <1>1, <1>3, WindowTrueEdge
<1>4. CASE UNCHANGED vars
  <2>1. Window' = Window /\ count' = count
    BY <1>4 DEF Window, vars, robVars
  <2>2. \A k \in 1 .. count' : EntryTrue(Window'[k])
    BY <2>1 DEF WindowTrue
  <2> QED
    BY <1>1, <2>2, EntryTrueNext DEF WindowTrue
<1> QED
  BY <1>2, <1>3, <1>4, BaseIs, Steps

-----------------------------------------------------------------------------
(* On an edge without a flush each packet of the back end is one that was  *)
(* there, woken, issued, computed or passed on, or a new one.              *)
PacketsMove(w, d) ==
  /\ \A s \in Slot : iq'[s] # Empty =>
       \/ \E j \in 1 .. d.enqueued : /\ j \in 1 .. d.n /\ d.prepared[j] \in issue_t
                                     /\ iq'[s] = Woke(d.prepared[j], w.completions)
       \/ iq[s] # Empty /\ iq[s] \in issue_t /\ iq'[s] = Woke(iq[s], w.completions)
  /\ \A p \in Lane : ex'[p] # Empty =>
       \/ \E s \in Slot : /\ iq[s] # Empty /\ iq[s] \in issue_t
                          /\ iq[s].a.ready /\ iq[s].b.ready /\ ex'[p] = Issued(s)
       \/ ex[p] # Empty /\ ex'[p] = ex[p]
  /\ md'.busy => \/ \E p \in Lane : ex[p] # Empty /\ is_muldiv(ex[p].op) /\ md'.request = ex[p]
                 \/ md.busy /\ md'.request = md.request
  /\ \A u \in Lane : alu'[u] # Empty =>
       \/ \E p \in Lane : ex[p] # Empty /\ ~is_muldiv(ex[p].op) /\ alu'[u] = AluResult(ex[p])
       \/ alu[u] # Empty /\ alu'[u] = alu[u]
  /\ md'.out # Empty =>
       \/ md.busy /\ md.step = XLEN /\ md'.out = Complete.out
       \/ md.out # Empty /\ md'.out = md.out
  /\ \A p \in Lane : wb'[p] # Empty =>
       \/ \E u \in Lane : alu[u] # Empty /\ wb'[p] = alu[u]
       \/ md.out # Empty /\ wb'[p] = md.out

(* Without a flush, each packet behind an edge was in front of it where    *)
(* PacketsMove says, or was dispatched on the edge.                        *)
LEMMA PacketsMoveIs ==
  ASSUME Base, NEW w, NEW d, NEW chosen, EdgeHolds(w, d, chosen), ~w.backend_flush
  PROVE  PacketsMove(w, d)
<1>1. TypesInv /\ MdOne /\ ExecutionTypes /\ MdTypes
  BY BaseIs DEF ExecutionTypes
<1>2. PICK seat : FlightMoves(w, d, chosen, seat)
  BY <1>1, FlightMovesIs
<1>3. ExecutionMoves(Sent(chosen))
  BY <1>2 DEF FlightMoves
<1>4. \A s \in Slot : iq[s] # Empty => iq[s] \in issue_t
  BY <1>1 DEF ExecutionTypes
<1>5. ASSUME NEW s \in Slot, iq'[s] # Empty
      PROVE  \/ \E j \in 1 .. d.enqueued : /\ j \in 1 .. d.n /\ d.prepared[j] \in issue_t
                                           /\ iq'[s] = Woke(d.prepared[j], w.completions)
             \/ iq[s] # Empty /\ iq[s] \in issue_t /\ iq'[s] = Woke(iq[s], w.completions)
  <2>1. CASE \E j \in 1 .. d.enqueued : seat[j] = s
    BY <1>2, <2>1 DEF FlightMoves
  <2>2. CASE ~ \E j \in 1 .. d.enqueued : seat[j] = s
    <3>1. iq'[s] = IF s \in Removed(chosen) \/ iq[s] = Empty THEN Empty ELSE Woke(iq[s], w.completions)
      BY <1>2, <2>2 DEF FlightMoves
    <3> QED
      BY <1>4, <1>5, <3>1
  <2> QED
    BY <2>1, <2>2
<1>6. ASSUME NEW p \in Lane, ex'[p] # Empty
      PROVE  \/ \E s \in Slot : /\ iq[s] # Empty /\ iq[s] \in issue_t
                                /\ iq[s].a.ready /\ iq[s].b.ready /\ ex'[p] = Issued(s)
             \/ ex[p] # Empty /\ ex'[p] = ex[p]
  <2>1. ex'[p] = IF stage_ready(p) THEN Sent(chosen)[p] ELSE ex[p]
    BY <1>3 DEF ExecutionMoves
  <2>2. CASE stage_ready(p)
    <3>1. ex'[p] = Issued(chosen[p])
      BY <2>1, <2>2 DEF Sent
    <3>2. chosen[p] # Empty
      BY <1>6, <3>1 DEF Issued
    <3>3. chosen[p] \in Occupied /\ OperandsReady(chosen[p])
      BY <3>2 DEF EdgeHolds
    <3> QED
      BY <1>4, <3>1, <3>3 DEF Occupied, OperandsReady
  <2>3. CASE ~stage_ready(p)
    BY <1>6, <2>1, <2>3
  <2> QED
    BY <2>2, <2>3
<1>7. \A u \in Unit : \A p \in Lane : Started[p] = u => ex[p] # Empty /\ (u = MULDIV <=> is_muldiv(ex[p].op))
  <2>1. ASSUME NEW u \in Unit, NEW p \in Lane, Started[p] = u
        PROVE  ex[p] # Empty /\ (u = MULDIV <=> is_muldiv(ex[p].op))
    BY <1>1, <2>1, UnitInputIs
  <2> QED
    BY <2>1
<1>8. MULDIV \in Unit /\ Lane \subseteq Unit /\ MULDIV \notin Lane
  BY DEF MULDIV, Unit, Lane
<1>9. md'.busy => \/ \E p \in Lane : ex[p] # Empty /\ is_muldiv(ex[p].op) /\ md'.request = ex[p]
                  \/ md.busy /\ md'.request = md.request
  <2>1. CASE Starts(MULDIV)
    <3>1. PICK p \in Lane : Started[p] = MULDIV
      BY <2>1 DEF Starts
    <3>2. md'.request = ex[p]
      BY <1>3, <3>1 DEF ExecutionMoves
    <3> QED
      BY <1>7, <1>8, <3>1, <3>2
  <2>2. CASE ~Starts(MULDIV)
    BY <1>3, <2>2 DEF ExecutionMoves
  <2> QED
    BY <2>1, <2>2
<1>10. ASSUME NEW u \in Lane, alu'[u] # Empty
       PROVE  \/ \E p \in Lane : ex[p] # Empty /\ ~is_muldiv(ex[p].op) /\ alu'[u] = AluResult(ex[p])
              \/ alu[u] # Empty /\ alu'[u] = alu[u]
  <2>1. CASE Starts(u)
    <3>1. PICK p \in Lane : Started[p] = u
      BY <2>1 DEF Starts
    <3>2. alu'[u] = AluResult(ex[p])
      BY <1>3, <3>1 DEF ExecutionMoves
    <3> QED
      BY <1>7, <1>8, <3>1, <3>2
  <2>2. CASE ~Starts(u)
    <3>1. alu'[u] = IF Leaves(u) THEN Empty ELSE alu[u]
      BY <1>3, <2>2 DEF ExecutionMoves
    <3> QED
      BY <1>10, <3>1
  <2> QED
    BY <2>1, <2>2
<1>11. md'.out # Empty => \/ md.busy /\ md.step = XLEN /\ md'.out = Complete.out
                          \/ md.out # Empty /\ md'.out = md.out
  <2>1. CASE md.busy /\ md.step = XLEN
    <3>1. PICK x, taken : MdTick(FALSE, x, taken)
      <4>1. ExecutionTick(w.backend_flush, Sent(chosen))
        BY DEF EdgeHolds, BackSteps
      <4>2. ExecutionTick(FALSE, Sent(chosen))
        <5>1. w.backend_flush = FALSE \/ w.backend_flush # FALSE
          OBVIOUS
        <5> QED
          BY <4>1, <5>1 DEF ExecutionTick, MdTick
      <4> QED
        BY <4>2 DEF ExecutionTick
    <3> QED
      BY <2>1, <3>1 DEF MdTick, MdEdge
  <2>2. CASE ~(md.busy /\ md.step = XLEN)
    <3>1. CASE Starts(MULDIV)
      BY <1>3, <3>1 DEF ExecutionMoves, Starts
    <3>2. CASE ~Starts(MULDIV)
      BY <1>3, <2>2, <3>2 DEF ExecutionMoves
    <3> QED
      BY <3>1, <3>2
  <2> QED
    BY <2>1, <2>2
<1>12. ASSUME NEW p \in Lane, wb'[p] # Empty
       PROVE  \/ \E u \in Lane : alu[u] # Empty /\ wb'[p] = alu[u]
              \/ md.out # Empty /\ wb'[p] = md.out
  <2>1. Granted[p] # Empty /\ wb'[p] = UnitResult(Granted[p])
    BY <1>3, <1>12 DEF ExecutionMoves
  <2>2. Granted[p] \in Unit /\ UnitResult(Granted[p]) # Empty
    BY <1>2, <2>1 DEF FlightMoves, WaitingUnits
  <2>3. Granted[p] = MULDIV \/ Granted[p] \in Lane
    BY <2>2 DEF Unit, MULDIV, Lane
  <2> QED
    BY <1>8, <2>1, <2>2, <2>3 DEF UnitResult
<1> QED
  BY <1>5, <1>6, <1>9, <1>10, <1>11, <1>12 DEF PacketsMove

(* A packet carries the operation of the instruction at its address.       *)
OpTrue(q) == q.op = CodeAt(q.meta.pc).op /\ q.branch_offset = CodeAt(q.meta.pc).immediate
OpsTrue ==
  /\ \A s \in Slot : iq[s] # Empty => OpTrue(iq[s])
  /\ \A p \in Lane : ex[p] # Empty => OpTrue(ex[p])
  /\ md.busy => OpTrue(md.request)

(* Waking changes the operands of a waiting instruction and nothing else.  *)
LEMMA WokeOp ==
  ASSUME NEW q \in issue_t, NEW completions
  PROVE  /\ Woke(q, completions).op = q.op /\ Woke(q, completions).meta = q.meta
         /\ Woke(q, completions).branch_offset = q.branch_offset
         /\ Woke(q, completions).a = WokenOperand(q.a, completions)
         /\ Woke(q, completions).b = WokenOperand(q.b, completions)
  BY DEF Woke, issue_t

(* An edge without a flush keeps every packet the operation of its entry.  *)
LEMMA OpsTrueEdge ==
  ASSUME Base, FrontTrue, OpsTrue, NEW w, NEW d, NEW chosen, EdgeHolds(w, d, chosen),
         ~w.backend_flush, program' = program
  PROVE  OpsTrue'
<1>1. PacketsMove(w, d) /\ TypesInv
  BY PacketsMoveIs, BaseIs
<1>2. \A j \in 1 .. d.n : d.prepared[j] \in issue_t => OpTrue(d.prepared[j])
  <2> SUFFICES ASSUME NEW j \in 1 .. d.n
               PROVE  OpTrue(d.prepared[j])
    OBVIOUS
  <2>1. /\ id_q[j] = CodeAt(id_q[j].pc) /\ NewEntry(d, j).meta.pc = id_q[j].pc
        /\ d.prepared[j].branch_offset = id_q[j].immediate
    BY NewTrue
  <2>2. d.prepared[j].meta = NewEntry(d, j).meta /\ d.prepared[j].op = id_q[j].op
    BY <1>1, NewEntryIs
  <2> QED
    BY <2>1, <2>2 DEF OpTrue
<1>3. ASSUME NEW s \in Slot, iq'[s] # Empty
      PROVE  OpTrue(iq'[s])
  <2>1. PICK q \in issue_t : OpTrue(q) /\ iq'[s] = Woke(q, w.completions)
    BY <1>1, <1>2, <1>3 DEF PacketsMove, OpsTrue
  <2> QED
    BY <2>1, WokeOp DEF OpTrue
<1>4. ASSUME NEW p \in Lane, ex'[p] # Empty
      PROVE  OpTrue(ex'[p])
  <2>1. CASE \E s \in Slot : iq[s] # Empty /\ iq[s] \in issue_t /\ ex'[p] = Issued(s)
    <3>1. PICK s \in Slot : iq[s] # Empty /\ iq[s] \in issue_t /\ ex'[p] = Issued(s)
      BY <2>1
    <3>2. OpTrue(iq[s]) /\ s # Empty
      BY <3>1, NotEmpty DEF OpsTrue, Slot
    <3> QED
      BY <3>1, <3>2 DEF OpTrue, Issued
  <2>2. CASE ex[p] # Empty /\ ex'[p] = ex[p]
    BY <2>2 DEF OpsTrue
  <2> QED
    BY <1>1, <1>4, <2>1, <2>2 DEF PacketsMove
<1>5. md'.busy => OpTrue(md'.request)
  BY <1>1 DEF PacketsMove, OpsTrue
<1>6. /\ \A s \in Slot : CodeAt(iq[s].meta.pc)' = CodeAt(iq'[s].meta.pc)
      /\ \A p \in Lane : CodeAt(ex[p].meta.pc)' = CodeAt(ex'[p].meta.pc)
      /\ CodeAt(md.request.meta.pc)' = CodeAt(md'.request.meta.pc)
  BY DEF CodeAt, FetchedAt, Memory!ReadWord
<1> QED
  BY <1>3, <1>4, <1>5, <1>6 DEF OpsTrue, OpTrue

(* Every step keeps every packet the operation of its entry.               *)
LEMMA OpsTrueStep == Base /\ FrontTrue /\ OpsTrue /\ [Next]_vars => OpsTrue'
<1> SUFFICES ASSUME Base, FrontTrue, OpsTrue, [Next]_vars
             PROVE  OpsTrue'
  OBVIOUS
<1>1. program' = program
  BY ProgramStays
<1>2. CASE Cleared'
  BY <1>2 DEF OpsTrue, Cleared
<1>3. ASSUME NEW w, NEW d, NEW chosen, EdgeHolds(w, d, chosen), ~w.backend_flush
      PROVE  OpsTrue'
  BY <1>1, <1>3, OpsTrueEdge
<1>4. CASE UNCHANGED vars
  <2>1. UNCHANGED <<iq, ex, md>>
    BY <1>4 DEF vars, executionVars
  <2>2. /\ \A s \in Slot : CodeAt(iq[s].meta.pc)' = CodeAt(iq'[s].meta.pc)
        /\ \A p \in Lane : CodeAt(ex[p].meta.pc)' = CodeAt(ex'[p].meta.pc)
        /\ CodeAt(md.request.meta.pc)' = CodeAt(md'.request.meta.pc)
    BY <1>1 DEF CodeAt, FetchedAt, Memory!ReadWord
  <2> QED
    BY <2>1, <2>2 DEF OpsTrue, OpTrue
<1> QED
  BY <1>2, <1>3, <1>4, BaseIs, Steps

-----------------------------------------------------------------------------
(* The address the path goes on at after an entry: past a branch that is   *)
(* resolved at retirement the core speculates that it is not taken.        *)
After(e) == IF BRANCH_AT_RETIRE THEN NextAddress_sequential(e) ELSE NextAddress(e)
PathEnd == IF count = 0 THEN arch_next_pc ELSE After(Window[count])

(* The instructions in flight lie on one path from the address after the   *)
(* last retired one, and the frontend goes on where they end.              *)
Awake == ~halted /\ ~fault
WindowFollows ==
  Awake => /\ count > 0 => Window[1].meta.pc = arch_next_pc
           /\ \A i \in 1 .. count - 1 : Window[i + 1].meta.pc = After(Window[i])
FrontFollows == Awake /\ ~terminal_enqueued => FollowsFrom(PathEnd)
PathInv == WindowTrue /\ WindowFollows /\ FrontFollows

(* The address after an entry is a word; without a taken branch it is the  *)
(* next one.                                                               *)
LEMMA AfterType ==
  ASSUME NEW e \in rob_entry_t
  PROVE  /\ After(e) \in Word
         /\ e.branch = NoBranch => After(e) = (e.meta.pc + 4) % WordModulus
<1>1. NextAddress_sequential(e) \in Word
  BY WordSize DEF NextAddress_sequential, Word, rob_entry_t, meta_t
<1>2. e.branch = NoBranch => ~TakenBranch(e)
  BY DEF NoBranch, TakenBranch
<1> QED
  BY <1>1, <1>2, NextAddressType DEF After, NextAddress, NextAddress_sequential

(* The address where the path in flight ends is a word.                    *)
LEMMA PathEndType ==
  ASSUME Base
  PROVE  PathEnd \in Word
<1>1. arch_next_pc \in Word /\ count \in Nat
  BY BaseIs DEF RetireTypes, QueuesBounded
<1>2. count # 0 => Window[count] \in rob_entry_t
  BY <1>1, BaseIs, WindowIs
<1> QED
  BY <1>1, <1>2, AfterType DEF PathEnd

(* A core is awake after an edge only if it was, and did not finish.       *)
LEMMA AwakeBefore ==
  ASSUME NEW w, NEW d, NEW chosen, EdgeHolds(w, d, chosen), Awake'
  PROVE  Awake /\ ~w.finishing
<1>1. SystemEdge(w, d)
  BY DEF EdgeHolds
<1>2. /\ halted' = IF w.finishing THEN EntryAt(0).fault = FAULT_NONE ELSE halted
      /\ fault' = IF w.finishing THEN EntryAt(0).fault # FAULT_NONE ELSE fault
  <2> DEFINE hd == [p \in Lane |-> EntryAt(p)]
  <2>1. hd[0] = EntryAt(0)
    BY DEF Lane
  <2> HIDE DEF hd
  <2>2. /\ halted' = IF w.finishing THEN hd[0].fault = FAULT_NONE ELSE halted
        /\ fault' = IF w.finishing THEN hd[0].fault # FAULT_NONE ELSE fault
    BY <1>1 DEF SystemEdge, RetireTick, hd
  <2> QED
    BY <2>1, <2>2
<1>3. ~halted' /\ ~fault'
  BY DEF Awake
<1> HIDE DEF EntryAt
<1> QED
  BY <1>2, <1>3 DEF Awake

(* The address after the retired entries is where the path goes on.        *)
LEMMA RetiredAfter ==
  ASSUME Base, NEW w, WiresHold(w), ~w.backend_flush, NEW i \in 1 .. w.retiring
  PROVE  NextAddress(Window[i]) = After(Window[i])
<1>1. WindowInv /\ QueuesBounded
  BY BaseIs
<1>2. w.retiring \in 0 .. 2 /\ i \in 1 .. count /\ Window[i] = EntryAt(i - 1) /\ ~Window[i].terminal
      /\ ~w.finishing
  BY <1>1, RetiringIs, Retires
<1>3. CASE BRANCH_AT_RETIRE
  <2>1. ~w.recovered.valid
    BY DEF WiresHold
  <2>2. CASE i = 1
    <3>1. hd0 = Window[1] /\ w.retiring # 0 /\ ~hd0.terminal
      BY <1>2, <2>2 DEF EntryAt
    <3>2. ~TakenBranch(hd0)
      BY <1>2, <1>3, <2>1, <3>1 DEF WiresHold, retire_redirect
    <3> QED
      BY <1>3, <2>2, <3>1, <3>2 DEF After, NextAddress, NextAddress_sequential
  <2>3. CASE i = 2
    <3>1. hd1 = Window[2] /\ w.retiring = 2
      BY <1>2, <2>3 DEF EntryAt
    <3>2. retire_limit(hd0, hd1) > 1
      <4>1. w.retiring = retire_count(hd0, hd1, w.trap.valid, retire_limit(hd0, hd1))
        BY DEF WiresHold
      <4> HIDE DEF hd0, hd1
      <4>2. retire_limit(hd0, hd1) \in {1, 2}
        BY DEF retire_limit
      <4> QED
        BY <3>1, <4>1, <4>2 DEF retire_count
    <3>3. ~TakenBranch(hd1)
      BY <1>3, <3>2 DEF retire_limit
    <3> QED
      BY <1>3, <2>3, <3>1, <3>3 DEF After, NextAddress, NextAddress_sequential
  <2> QED
    BY <1>2, <2>2, <2>3
<1>4. CASE ~BRANCH_AT_RETIRE
  BY <1>4 DEF After
<1> QED
  BY <1>3, <1>4

(* The address after the last retired one, on an edge without a flush.     *)
LEMMA NextPc ==
  ASSUME Base, NEW w, NEW d, NEW chosen, EdgeHolds(w, d, chosen), ~w.backend_flush
  PROVE  arch_next_pc' = IF w.retiring = 0 THEN arch_next_pc ELSE After(Window[w.retiring])
<1>1. WiresHold(w) /\ SystemEdge(w, d) /\ ~w.trap.valid /\ ~w.mret_commit
  BY DEF EdgeHolds, WiresHold
<1>2. w.retiring \in 0 .. 2
  BY <1>1, BaseIs, RetiringIs
<1>3. arch_next_pc' = IF w.retiring = 0 THEN arch_next_pc ELSE NextAddress(EntryAt(w.retiring - 1))
  BY <1>1 DEF SystemEdge
<1>4. CASE w.retiring # 0
  <2>1. w.retiring \in 1 .. w.retiring
    BY <1>2, <1>4
  <2>2. Window[w.retiring] = EntryAt(w.retiring - 1)
    BY <1>1, <2>1, BaseIs, Retires
  <2>3. NextAddress(Window[w.retiring]) = After(Window[w.retiring])
    BY <1>1, <2>1, RetiredAfter
  <2> HIDE DEF NextAddress, EntryAt
  <2> QED
    BY <1>3, <1>4, <2>2, <2>3
<1> QED
  BY <1>3, <1>4

(* Blocking policy: the result of a branch is that of the youngest entry,  *)
(* and nothing is dispatched with it.                                      *)
LEMMA BranchResult ==
  ASSUME Base, ~BRANCH_AT_RETIRE, NEW w, NEW d, NEW chosen, EdgeHolds(w, d, chosen),
         ~w.backend_flush, NEW r \in w.completions, r.branch.valid
  PROVE  /\ count > w.retiring /\ Window[count].meta = r.meta /\ d.n = 0
         /\ r.meta.tag = pending /\ pending # Empty
<1>1. PlaceInv /\ TypesInv /\ QueuesBounded /\ OneBranch /\ PendingLast
  BY BaseIs DEF BranchInv, BlockingInv
<1>2. PICK p \in Lane : r = wb[p] /\ <<"wb", p, r.meta>> \in InFlight
  BY CompletionAt DEF EdgeHolds
<1> DEFINE a == <<"wb", p, r.meta>>
<1>3. a \in InFlight /\ a[1] = "wb" /\ a[2] = p /\ a[3].tag = r.meta.tag
  BY <1>2
<1> HIDE DEF a
<1>4. BranchAt(a)
  BY <1>2, <1>3 DEF BranchAt
<1>5. r.meta.tag = pending
  BY <1>1, <1>3, <1>4 DEF OneBranch
<1>6. r \in result_t
  BY BaseIs, CompletionsTypes DEF EdgeHolds
<1>7. pending # Empty
  <2>1. r.meta.tag \in Nat
    BY <1>6 DEF result_t, meta_t, RobTag
  <2> QED
    BY <1>5, <2>1, NotEmpty
<1>8. count > 0 /\ Window[count].meta.tag = r.meta.tag /\ count \in Nat
  BY <1>1, <1>5, <1>7 DEF PendingLast, QueuesBounded
<1> DEFINE m == Distance(r.meta.tag) + 1
<1>9. /\ m > w.retiring /\ Window[m].meta = r.meta
      /\ \A j \in 1 .. count : Window[j].meta.tag = r.meta.tag => j = m
  BY <1>1, ResultOf
<1> HIDE DEF m
<1>10. count = m
  BY <1>8, <1>9
<1>11. d.n = 0
  BY <1>1, <1>7, BlockedDispatch DEF EdgeHolds
<1> QED
  BY <1>5, <1>7, <1>9, <1>10, <1>11

(* A result that redirects nothing leaves the path after its entry.        *)
LEMMA KeptAfter ==
  ASSUME Base, WindowTrue, NEW w, NEW d, NEW chosen, EdgeHolds(w, d, chosen), ~w.backend_flush,
         NEW k \in 1 .. count', NEW i, i = k + w.retiring,
         i < count + d.n \/ (~w.redirect.valid /\ ~w.branch_fault)
  PROVE  After(Window'[k]) = After(Line(d)[i]) /\ Window'[k].meta = Line(d)[i].meta
<1>1. /\ i \in 1 .. count + d.n
      /\ \/ Window'[k] = Line(d)[i]
         \/ /\ i \in 1 .. count /\ ~Window[i].done
            /\ \E r \in w.completions :
                 r.meta = Window[i].meta /\ Window'[k] = CompletedEntry(Window[i], r)
  BY LineAdvances
<1>2. CASE Window'[k] = Line(d)[i]
  BY <1>2
<1>3. ASSUME i \in 1 .. count, ~Window[i].done, NEW r \in w.completions,
             r.meta = Window[i].meta, Window'[k] = CompletedEntry(Window[i], r)
      PROVE  After(Window'[k]) = After(Line(d)[i]) /\ Window'[k].meta = Line(d)[i].meta
  <2> DEFINE old == Window[i]
             new == CompletedEntry(old, r)
  <2>1. old \in rob_entry_t /\ Line(d)[i] = old /\ old # Empty /\ count \in Nat
    BY <1>3, LineIs, BaseIs, WindowIs
  <2>2. r \in result_t
    BY BaseIs, CompletionsTypes DEF EdgeHolds
  <2>3. new.meta = old.meta /\ new.branch = r.branch /\ new \in rob_entry_t /\ new # Empty
    <3>1. new.meta = old.meta /\ new \in rob_entry_t
      BY <2>1, <2>2, CompletedEntryType
    <3>2. new.branch = r.branch
      BY <2>1 DEF CompletedEntry, rob_entry_t
    <3> QED
      BY <3>1, <3>2, EmptyEntryAssumption
  <2>4. old.branch = NoBranch
    BY <1>3 DEF WindowTrue, EntryTrue
  <2>5. CASE BRANCH_AT_RETIRE
    BY <1>3, <2>1, <2>3, <2>5 DEF After, NextAddress_sequential
  <2>6. CASE ~BRANCH_AT_RETIRE
    <3>1. ~(r.branch.valid /\ r.branch.taken)
      <4> SUFFICES ASSUME r.branch.valid, r.branch.taken
                   PROVE  FALSE
        OBVIOUS
      <4>1. Window[count].meta = r.meta /\ d.n = 0 /\ r.meta.tag = pending /\ pending # Empty
        BY <2>6, BranchResult
      <4>2. i = count
        <5> DEFINE m == Distance(r.meta.tag) + 1
        <5>1. \A j \in 1 .. count : Window[j].meta.tag = r.meta.tag => j = m
          BY BaseIs, ResultOf
        <5> HIDE DEF m
        <5>2. i = m
          BY <1>3, <5>1
        <5>3. count \in 1 .. count /\ Window[count].meta.tag = r.meta.tag
          BY <1>3, <2>1, <4>1
        <5>4. count = m
          BY <5>1, <5>3
        <5> QED
          BY <5>2, <5>4
      <4>3. ~w.redirect.valid /\ ~w.branch_fault
        BY <2>1, <4>1, <4>2
      <4>4. r.branch.fault = FAULT_NONE
        BY <4>3 DEF EdgeHolds, WiresHold
      <4>5. r \in Resolving(w.completions)
        BY <4>1, <4>4 DEF Resolving
      <4>6. ~w.finishing /\ ~w.trap.valid /\ ~w.mret_commit /\ ~w.recovered.valid
        BY DEF EdgeHolds, WiresHold
      <4>7. w.redirect = blocking_redirect(w.completions, w.finishing)
        BY <4>6 DEF EdgeHolds, WiresHold
      <4>8. blocking_redirect(w.completions, w.finishing).valid
        BY <2>6, <4>5, <4>6 DEF blocking_redirect
      <4> QED
        BY <4>3, <4>7, <4>8
    <3>2. ~TakenBranch(new) /\ ~TakenBranch(old)
      BY <2>3, <2>4, <3>1 DEF TakenBranch, NoBranch
    <3> HIDE DEF new
    <3> QED
      BY <1>3, <2>1, <2>3, <2>6, <3>2 DEF After, NextAddress, new
  <2> QED
    BY <2>5, <2>6
<1> QED
  BY <1>1, <1>2, <1>3

(* The instructions in flight and those dispatched with an edge lie on the *)
(* path.                                                                   *)
LEMMA LineFollows ==
  ASSUME Base, FrontTrue, PathInv, Awake, NEW w, NEW d, NEW chosen, EdgeHolds(w, d, chosen)
  PROVE  /\ count + d.n > 0 => Line(d)[1].meta.pc = arch_next_pc
         /\ \A i \in 1 .. count + d.n - 1 : Line(d)[i + 1].meta.pc = After(Line(d)[i])
         /\ AddressAt(PathEnd, d.n) = IF count + d.n = 0 THEN arch_next_pc ELSE After(Line(d)[count + d.n])
<1>1. /\ count \in Nat /\ d.n \in 0 .. 2
      /\ \A i \in 1 .. count : i \in 1 .. count + d.n /\ Line(d)[i] = Window[i]
      /\ \A j \in 1 .. d.n : count + j \in 1 .. count + d.n /\ Line(d)[count + j] = NewEntry(d, j)
  BY LineIs
<1>2. PathEnd \in Word /\ arch_next_pc \in Word
  BY PathEndType, BaseIs DEF RetireTypes
<1>3. ASSUME NEW j \in 1 .. d.n
      PROVE  /\ NewEntry(d, j).meta.pc = AddressAt(PathEnd, j - 1)
             /\ After(NewEntry(d, j)) = AddressAt(PathEnd, j)
  <2>1. ~terminal_enqueued /\ d.n <= Len(id_q)
    BY <1>1 DEF EdgeHolds, DispatchFacts
  <2>2. j \in 1 .. Len(id_q)
    <3>1. Len(id_q) \in Nat
      BY BaseIs DEF QueuesBounded
    <3> QED
      BY <1>1, <2>1, <3>1
  <2>3. NewEntry(d, j).meta.pc = AddressAt(PathEnd, j - 1)
    <3>1. Run(id_q, PathEnd)
      BY <2>1 DEF PathInv, FrontFollows, FollowsFrom
    <3>2. NewEntry(d, j).meta.pc = id_q[j].pc
      BY NewTrue DEF PathInv
    <3> QED
      BY <2>2, <3>1, <3>2 DEF Run
  <2>4. After(NewEntry(d, j)) = (NewEntry(d, j).meta.pc + 4) % WordModulus
    BY BaseIs, NewEntryIs, AfterType
  <2>5. j - 1 \in Nat /\ 1 \in Nat /\ (j - 1) + 1 = j
    BY <1>1
  <2>6. (AddressAt(PathEnd, j - 1) + 4) % WordModulus = AddressAt(PathEnd, j)
    <3>1. AddressAt(PathEnd, j - 1) \in Word
      BY <1>2, <2>5, AddressSteps
    <3>2. AddressAt(AddressAt(PathEnd, j - 1), 1) = (AddressAt(PathEnd, j - 1) + 4) % WordModulus
      BY <3>1, AddressSteps
    <3>3. AddressAt(AddressAt(PathEnd, j - 1), 1) = AddressAt(PathEnd, (j - 1) + 1)
      BY <1>2, <2>5, AddressSteps
    <3> QED
      BY <2>5, <3>2, <3>3
  <2> QED
    BY <2>3, <2>4, <2>6
<1>4. AddressAt(PathEnd, 0) = PathEnd
  BY <1>2, AddressSteps
<1>5. count + d.n > 0 => Line(d)[1].meta.pc = arch_next_pc
  <2>1. CASE count > 0
    BY <1>1, <2>1 DEF PathInv, WindowFollows
  <2>2. CASE count = 0 /\ d.n > 0
    <3>1. 1 \in 1 .. d.n /\ count + 1 = 1 /\ 1 - 1 = 0
      BY <1>1, <2>2
    <3> QED
      BY <1>1, <1>3, <1>4, <2>2, <3>1 DEF PathEnd
  <2> QED
    BY <1>1, <2>1, <2>2
<1>6. ASSUME NEW i \in 1 .. count + d.n - 1
      PROVE  Line(d)[i + 1].meta.pc = After(Line(d)[i])
  <2>1. CASE i < count
    BY <1>1, <2>1 DEF PathInv, WindowFollows
  <2>2. CASE i = count
    <3>1. 1 \in 1 .. d.n /\ i + 1 = count + 1 /\ 1 - 1 = 0 /\ count \in 1 .. count
      BY <1>1, <2>2
    <3> QED
      BY <1>1, <1>3, <1>4, <2>2, <3>1 DEF PathEnd
  <2>3. CASE i > count
    <3> DEFINE j == i - count
    <3>1. j \in 1 .. d.n /\ j + 1 \in 1 .. d.n /\ i = count + j /\ i + 1 = count + (j + 1) /\ (j + 1) - 1 = j
      BY <1>1, <2>3
    <3> HIDE DEF j
    <3> QED
      BY <1>1, <1>3, <3>1
  <2> QED
    BY <1>1, <2>1, <2>2, <2>3
<1>7. AddressAt(PathEnd, d.n) = IF count + d.n = 0 THEN arch_next_pc ELSE After(Line(d)[count + d.n])
  <2>1. CASE d.n = 0
    BY <1>1, <1>4, <2>1 DEF PathEnd
  <2>2. CASE d.n > 0
    <3>1. d.n \in 1 .. d.n /\ count + d.n # 0
      BY <1>1, <2>2
    <3> QED
      BY <1>1, <1>3, <3>1
  <2> QED
    BY <1>1, <2>1, <2>2
<1> QED
  BY <1>5, <1>6, <1>7

(* So do the instructions in flight after an edge without a flush.         *)
LEMMA WindowFollowsEdge ==
  ASSUME Base, FrontTrue, PathInv, NEW w, NEW d, NEW chosen, EdgeHolds(w, d, chosen),
         ~w.backend_flush
  PROVE  WindowFollows'
<1> SUFFICES ASSUME Awake'
             PROVE  /\ count' > 0 => Window'[1].meta.pc = arch_next_pc'
                    /\ \A k \in 1 .. count' - 1 : Window'[k + 1].meta.pc = After(Window'[k])
  BY DEF WindowFollows, After, NextAddress, NextAddress_sequential
<1>1. Awake /\ WindowTrue
  BY AwakeBefore DEF PathInv
<1>2. /\ count + d.n > 0 => Line(d)[1].meta.pc = arch_next_pc
      /\ \A i \in 1 .. count + d.n - 1 : Line(d)[i + 1].meta.pc = After(Line(d)[i])
  BY <1>1, LineFollows
<1>3. /\ count' = (count + d.n) - w.retiring /\ count \in Nat /\ d.n \in 0 .. 2 /\ w.retiring \in 0 .. 2
      /\ w.retiring <= count
  BY LineAdvances, LineIs
<1>4. ASSUME NEW k \in 1 .. count'
      PROVE  Window'[k].meta = Line(d)[k + w.retiring].meta
  <2> DEFINE i == k + w.retiring
  <2>1. /\ i \in 1 .. count + d.n
        /\ \/ Window'[k] = Line(d)[i]
           \/ /\ i \in 1 .. count /\ ~Window[i].done
              /\ \E r \in w.completions :
                   r.meta = Window[i].meta /\ Window'[k] = CompletedEntry(Window[i], r)
    BY LineAdvances
  <2> HIDE DEF i
  <2>2. CASE Window'[k] = Line(d)[i]
    BY <2>2 DEF i
  <2>3. ASSUME i \in 1 .. count, NEW r \in w.completions, Window'[k] = CompletedEntry(Window[i], r)
        PROVE  Window'[k].meta = Line(d)[i].meta
    <3>1. Window[i] \in rob_entry_t /\ Line(d)[i] = Window[i]
      BY <2>3, LineIs, BaseIs, WindowIs
    <3>2. r \in result_t
      BY BaseIs, CompletionsTypes DEF EdgeHolds
    <3> QED
      BY <2>3, <3>1, <3>2, CompletedEntryType
  <2> QED
    BY <2>1, <2>2, <2>3 DEF i
<1>5. ASSUME count' > 0
      PROVE  Window'[1].meta.pc = arch_next_pc'
  <2>1. 1 \in 1 .. count' /\ 1 + w.retiring = w.retiring + 1
    BY <1>3, <1>5
  <2>2. Window'[1].meta = Line(d)[w.retiring + 1].meta
    BY <1>4, <2>1
  <2>3. CASE w.retiring = 0
    BY <1>2, <1>3, <1>5, <2>2, <2>3, NextPc
  <2>4. CASE w.retiring > 0
    <3>1. w.retiring \in 1 .. count + d.n - 1 /\ w.retiring \in 1 .. count
      BY <1>3, <1>5, <2>4
    <3>2. Line(d)[w.retiring] = Window[w.retiring]
      BY <3>1, LineIs
    <3> QED
      BY <1>2, <2>2, <2>4, <3>1, <3>2, NextPc
  <2> QED
    BY <1>3, <2>3, <2>4
<1>6. ASSUME NEW k \in 1 .. count' - 1
      PROVE  Window'[k + 1].meta.pc = After(Window'[k])
  <2> DEFINE i == k + w.retiring
  <2>1. /\ k \in 1 .. count' /\ k + 1 \in 1 .. count' /\ i \in 1 .. count + d.n - 1 /\ i < count + d.n
        /\ (k + 1) + w.retiring = i + 1
    BY <1>3
  <2>2. Window'[k + 1].meta = Line(d)[i + 1].meta
    BY <1>4, <2>1
  <2> HIDE DEF i
  <2>3. After(Window'[k]) = After(Line(d)[i])
    BY <1>1, <2>1, KeptAfter DEF i
  <2> QED
    BY <1>2, <2>1, <2>2, <2>3
<1> QED
  BY <1>5, <1>6

(* Without a redirect the path ends after what was dispatched.             *)
LEMMA PathEndStays ==
  ASSUME Base, FrontTrue, PathInv, Awake, NEW w, NEW d, NEW chosen, EdgeHolds(w, d, chosen),
         ~w.backend_flush, ~w.redirect.valid, ~w.branch_fault
  PROVE  PathEnd' = AddressAt(PathEnd, d.n)
<1>1. AddressAt(PathEnd, d.n) = IF count + d.n = 0 THEN arch_next_pc ELSE After(Line(d)[count + d.n])
  BY LineFollows
<1>2. /\ count' = (count + d.n) - w.retiring /\ count \in Nat /\ d.n \in 0 .. 2 /\ w.retiring \in 0 .. 2
      /\ w.retiring <= count
  BY LineAdvances, LineIs
<1>3. PathEnd' = IF count' = 0 THEN arch_next_pc' ELSE After(Window'[count'])
  BY DEF PathEnd, After, NextAddress, NextAddress_sequential
<1>4. CASE count' = 0
  <2>1. count = w.retiring /\ d.n = 0 /\ count + d.n = count
    <3> DEFINE n == d.n
               m == w.retiring
    <3>1. count \in Nat /\ n \in Nat /\ m \in Nat /\ m <= count /\ (count + n) - m = 0
      BY <1>2, <1>4
    <3> HIDE DEF n, m
    <3>2. count = m /\ n = 0 /\ count + n = count
      BY <3>1
    <3> QED
      BY <3>2 DEF n, m
  <2>2. count # 0 => Line(d)[count] = Window[count]
    BY <1>2, LineIs
  <2> QED
    BY <1>1, <1>3, <1>4, <2>1, <2>2, NextPc
<1>5. CASE count' # 0
  <2>1. count' \in 1 .. count' /\ count + d.n = count' + w.retiring /\ count + d.n # 0
    BY <1>2, <1>5
  <2>2. After(Window'[count']) = After(Line(d)[count + d.n])
    BY <2>1, KeptAfter DEF PathInv
  <2> QED
    BY <1>1, <1>3, <1>5, <2>1, <2>2
<1> QED
  BY <1>4, <1>5

(* A branch that is resolved as taken ends the path at its target.         *)
LEMMA PathEndMoves ==
  ASSUME Base, NEW w, NEW d, NEW chosen, EdgeHolds(w, d, chosen), ~w.backend_flush, w.redirect.valid
  PROVE  PathEnd' = w.redirect.pc
<1>1. PlaceInv
  BY BaseIs
<1>2. ~BRANCH_AT_RETIRE /\ w.branch.valid
  BY <1>1, RedirectFrom DEF EdgeHolds
<1>3. /\ w.redirect = blocking_redirect(w.completions, w.finishing)
      /\ ~w.finishing
  <2>1. WiresHold(w)
    BY DEF EdgeHolds
  <2>2. ~w.finishing /\ ~w.trap.valid /\ ~w.mret_commit /\ ~w.recovered.valid
    BY <2>1 DEF WiresHold
  <2> QED
    BY <2>1, <2>2 DEF WiresHold
<1> DEFINE taken == {r \in Resolving(w.completions) : r.branch.taken}
           r == CHOOSE x \in taken : TRUE
<1>4. taken # {} /\ w.redirect.pc = r.branch.target
  BY <1>3 DEF blocking_redirect, NoRedirect
<1>5. r \in w.completions /\ r.branch.valid /\ r.branch.taken
  <2>1. r \in taken
    BY <1>4
  <2> HIDE DEF r
  <2> QED
    BY <2>1 DEF Resolving
<1> HIDE DEF r, taken
<1>6. count > w.retiring /\ Window[count].meta = r.meta /\ d.n = 0
  BY <1>2, <1>5, BranchResult
<1>7. /\ count' = count - w.retiring /\ count \in Nat /\ w.retiring \in 0 .. 2
      /\ count' \in 1 .. count' /\ count' + w.retiring = count
  <2>1. count' = (count + d.n) - w.retiring /\ count \in Nat /\ w.retiring \in 0 .. 2
    BY LineAdvances, LineIs
  <2> QED
    BY <1>6, <2>1
<1>8. /\ Line(d)[count] = Window[count] /\ Window[count] \in rob_entry_t
      /\ r \in result_t
  <2>1. count \in 1 .. count
    BY <1>6, <1>7
  <2> QED
    BY <1>5, <2>1, LineIs, BaseIs, WindowIs, CompletionsTypes DEF EdgeHolds
<1>9. Window'[count'] = CompletedEntry(Window[count], r)
  <2>1. \/ /\ Window'[count'] = Line(d)[count]
           /\ \A s \in w.completions : s.meta.tag # Line(d)[count].meta.tag
        \/ \E s \in w.completions :
             s.meta = Window[count].meta /\ Window'[count'] = CompletedEntry(Window[count], s)
    BY <1>7, LineAdvances
  <2>2. PICK s \in w.completions : /\ s.meta = Window[count].meta
                                   /\ Window'[count'] = CompletedEntry(Window[count], s)
    BY <1>5, <1>6, <1>8, <2>1
  <2>3. s = r
    BY <1>5, <1>6, <2>2, OneResult
  <2> QED
    BY <2>2, <2>3
<1> DEFINE new == CompletedEntry(Window[count], r)
<1>10. new # Empty /\ new.branch = r.branch
  <2>1. new \in rob_entry_t
    BY <1>8, CompletedEntryType
  <2>2. new.branch = r.branch
    BY <1>8 DEF CompletedEntry, rob_entry_t
  <2> QED
    BY <2>1, <2>2, EmptyEntryAssumption
<1> HIDE DEF new
<1>11. After(new) = r.branch.target
  BY <1>2, <1>5, <1>10 DEF After, NextAddress, TakenBranch
<1>12. PathEnd' = IF count' = 0 THEN arch_next_pc' ELSE After(Window'[count'])
  BY DEF PathEnd, After, NextAddress, NextAddress_sequential
<1> QED
  BY <1>4, <1>7, <1>9, <1>11, <1>12 DEF new

(* A flush that does not end the program restarts the frontend at the next *)
(* address of the program.                                                 *)
LEMMA FlushRestarts ==
  ASSUME Base, NEW w, NEW d, NEW chosen, EdgeHolds(w, d, chosen), w.backend_flush, ~w.finishing
  PROVE  w.redirect.valid /\ arch_next_pc' = w.redirect.pc
<1>1. WiresHold(w) /\ SystemEdge(w, d)
  BY DEF EdgeHolds
<1>2. CASE w.trap.valid \/ w.mret_commit
  BY <1>1, <1>2 DEF WiresHold, SystemEdge
<1>3. CASE ~(w.trap.valid \/ w.mret_commit)
  <2>1. w.recovered.valid
    BY <1>1, <1>3 DEF WiresHold
  <2>2. /\ BRANCH_AT_RETIRE /\ w.retiring # 0 /\ TakenBranch(hd0) /\ ~hd0.terminal
        /\ w.recovered.pc = hd0.branch.target /\ w.redirect = w.recovered
    <3>1. w.redirect = w.recovered /\ w.recovered = retire_redirect(hd0, w.retiring, w.finishing)
      BY <1>1, <1>3, <2>1 DEF WiresHold
    <3> HIDE DEF hd0
    <3> QED
      BY <2>1, <3>1 DEF retire_redirect, NoRedirect
  <2>3. retire_limit(hd0, hd1) = 1
    BY <2>2 DEF retire_limit
  <2>4. w.retiring = 1
    <3>1. w.retiring = retire_count(hd0, hd1, w.trap.valid, retire_limit(hd0, hd1))
      BY <1>1 DEF WiresHold
    <3> HIDE DEF hd0, hd1
    <3> QED
      BY <2>2, <2>3, <3>1 DEF retire_count
  <2>5. arch_next_pc' = NextAddress(EntryAt(w.retiring - 1))
    BY <1>1, <1>3, <2>2 DEF SystemEdge
  <2>6. EntryAt(w.retiring - 1) = hd0
    BY <2>4 DEF EntryAt
  <2> HIDE DEF hd0
  <2> QED
    BY <2>1, <2>2, <2>5, <2>6 DEF NextAddress
<1> QED
  BY <1>2, <1>3

(* The frontend goes on where the window ends.                             *)
LEMMA FrontFollowsEdge ==
  ASSUME Base, FrontTrue, PathInv, NEW w, NEW d, NEW chosen, EdgeHolds(w, d, chosen)
  PROVE  FrontFollows'
<1> SUFFICES ASSUME Awake', ~terminal_enqueued'
             PROVE  FollowsFrom(PathEnd)'
  BY DEF FrontFollows
<1>1. Awake /\ ~w.finishing
  BY AwakeBefore
<1>2. WiresHold(w) /\ FrontEdge(w, d)
  BY DEF EdgeHolds
<1>3. w.redirect.valid => w.redirect.pc \in Word
  BY <1>2, BaseIs, RedirectTypes
<1>4. CASE w.redirect.valid
  <2>1. FollowsFrom(w.redirect.pc)'
    BY <1>2, <1>3, <1>4, FollowsAnew
  <2>2. PathEnd' = w.redirect.pc
    <3>1. CASE w.backend_flush
      <4>1. count' = 0
        BY <3>1, ClearedFlush DEF Cleared
      <4>2. arch_next_pc' = w.redirect.pc
        BY <1>1, <3>1, FlushRestarts
      <4> QED
        BY <4>1, <4>2 DEF PathEnd
    <3>2. CASE ~w.backend_flush
      BY <1>4, <3>2, PathEndMoves
    <3> QED
      BY <3>1, <3>2
  <2>3. FollowsFrom(PathEnd)' <=> FollowsFrom(w.redirect.pc)'
    BY <2>2 DEF FollowsFrom
  <2> QED
    BY <2>1, <2>3
<1>5. CASE ~w.redirect.valid
  <2>1. ~w.backend_flush
    BY <1>1, <1>5, FlushRestarts
  <2>2. ~w.trap.valid /\ ~w.mret_commit /\ ~w.recovered.valid
    BY <1>2, <2>1 DEF WiresHold
  <2>3. ~w.branch.valid
    BY <1>2, <1>5, <2>2 DEF WiresHold
  <2>4. ~terminal_enqueued /\ ~d.terminal /\ ~w.branch_fault
    BY <1>2, <1>5 DEF FrontEdge
  <2>5. FollowsFrom(PathEnd) /\ PathEnd \in Word
    BY <1>1, <2>4, PathEndType DEF PathInv, FrontFollows
  <2>6. d.n \in 0 .. 2 /\ d.n <= Len(id_q)
    BY DEF EdgeHolds, DispatchFacts
  <2>7. PICK p \in Word : p = PathEnd
    BY <2>5
  <2>8. FollowsFrom(p)
    BY <2>5, <2>7
  <2>9. PICK q : q = AddressAt(p, d.n)
    OBVIOUS
  <2>10. FollowsFrom(AddressAt(p, d.n))'
    BY <1>1, <1>2, <1>5, <2>2, <2>3, <2>4, <2>6, <2>8, FollowsOn
  <2>11. FollowsFrom(q)'
    BY <2>9, <2>10
  <2>12. PathEnd' = q
    BY <1>1, <1>5, <2>1, <2>4, <2>7, <2>9, PathEndStays
  <2>13. FollowsFrom(PathEnd)' <=> FollowsFrom(q)'
    BY <2>12 DEF FollowsFrom
  <2> QED
    BY <2>11, <2>13
<1> QED
  BY <1>4, <1>5

(* A reset starts the path anew, and a flush empties the window.           *)
LEMMA FollowStep == Base /\ FrontTrue /\ PathInv /\ [Next]_vars => PathInv'
<1> SUFFICES ASSUME Base, FrontTrue, PathInv, [Next]_vars
             PROVE  PathInv'
  OBVIOUS
<1>1. WindowTrue'
  BY WindowTrueStep DEF PathInv
<1>2. ASSUME Cleared'
      PROVE  WindowFollows'
  <2>1. count' = 0
    BY <1>2 DEF Cleared
  <2> QED
    BY <2>1 DEF WindowFollows
<1>3. CASE ResetEdge
  <2>1. FollowsFrom(0)'
    <3>1. Len(id_q') = 0 /\ Len(if_q') = 0 /\ Len(fifo_q') = 0 /\ NextFetch' = 0
      BY <1>3, ResetFront DEF NextFetch
    <3>2. Ahead' = 0 /\ ~out_valid' /\ AddressAt(0, 0) = 0
      BY <1>3, <3>1, ResetFront, WordSize DEF Ahead, AddressAt
    <3> QED
      BY <3>1, <3>2 DEF FollowsFrom, Run
  <2>2. count' = 0 /\ Cleared'
    BY <1>3, ClearedReset DEF Cleared
  <2>3. PathEnd' = 0
    BY <1>3, <2>2, ResetFront DEF PathEnd
  <2>4. FollowsFrom(PathEnd)' <=> FollowsFrom(0)'
    BY <2>3 DEF FollowsFrom
  <2> QED
    BY <1>1, <1>2, <2>1, <2>2, <2>4 DEF PathInv, FrontFollows
<1>4. ASSUME NEW w, NEW d, NEW chosen, EdgeHolds(w, d, chosen)
      PROVE  PathInv'
  <2>1. FrontFollows'
    BY <1>4, FrontFollowsEdge
  <2>2. WindowFollows'
    <3>1. CASE w.backend_flush
      BY <1>2, <1>4, <3>1, ClearedFlush
    <3>2. CASE ~w.backend_flush
      BY <1>4, <3>2, WindowFollowsEdge
    <3> QED
      BY <3>1, <3>2
  <2> QED
    BY <1>1, <2>1, <2>2 DEF PathInv
<1>5. CASE UNCHANGED vars
  <2>1. /\ UNCHANGED <<id_q, if_q, fifo_q, out_valid, out_data, stopped, redirect_pending, restart_pc>>
        /\ UNCHANGED <<outstanding, pending_pc, fetch_pc, terminal_enqueued, arch_next_pc>>
    BY <1>5 DEF vars, frontVars, backVars
  <2>2. UNCHANGED <<halted, fault, rob, head, count>>
    BY <1>5 DEF vars, robVars, retireVars
  <2>3. Window' = Window
    BY <2>2 DEF Window
  <2>4. PathEnd' = PathEnd
    BY <2>1, <2>2, <2>3 DEF PathEnd, After, NextAddress, NextAddress_sequential
  <2>5. FollowsFrom(PathEnd)' <=> FollowsFrom(PathEnd)
    BY <2>1, <2>4 DEF FollowsFrom, Run, NextFetch, Ahead
  <2>6. FrontFollows' <=> FrontFollows
    BY <2>1, <2>2, <2>5 DEF FrontFollows, Awake
  <2>7. WindowFollows' <=> WindowFollows
    BY <2>1, <2>2, <2>3 DEF WindowFollows, Awake, After, NextAddress, NextAddress_sequential
  <2> QED
    BY <1>1, <2>6, <2>7 DEF PathInv
<1> QED
  BY <1>3, <1>4, <1>5, CoreSteps

(* Before the first edge nothing is in flight and the path starts at 0.    *)
LEMMA FollowInit == Init => PathInv
<1> SUFFICES ASSUME Init
             PROVE  PathInv
  OBVIOUS
<1>1. count = 0 /\ arch_next_pc = 0
  BY ClearedInit DEF Cleared, Init
<1>2. /\ ~out_valid /\ fifo_q = <<>> /\ if_q = <<>> /\ id_q = <<>>
      /\ ~redirect_pending /\ ~outstanding /\ fetch_pc = 0
  BY DEF Init, Fetch!Init, Fifo!QueueInit, IfId!QueueInit, IdDispatch!QueueInit
<1>3. FollowsFrom(0)
  <2>1. Len(id_q) = 0 /\ Len(if_q) = 0 /\ Len(fifo_q) = 0 /\ NextFetch = 0
    BY <1>2 DEF NextFetch
  <2>2. Ahead = 0 /\ AddressAt(0, 0) = 0
    BY <2>1, WordSize DEF Ahead, AddressAt
  <2> QED
    BY <1>2, <2>1, <2>2 DEF FollowsFrom, Run
<1>4. PathEnd = 0
  BY <1>1 DEF PathEnd
<1> QED
  BY <1>1, <1>3, <1>4 DEF PathInv, FrontFollows, WindowFollows, WindowTrue

-----------------------------------------------------------------------------
(* The architectural registers, as the instruction set sees them.          *)
Committed ==
  [r \in Arch |-> IF OUT_OF_ORDER THEN registers[committed_map[r]] ELSE registers[r]]

(* Register 0 reads as zero, and an instruction that is done has written   *)
(* the physical register it was given.                                     *)
Written ==
  /\ registers[0] = 0
  /\ Renaming => \A i \in 1 .. count :
       Window[i].done /\ Window[i].meta.pdst # 0 => registers[Window[i].meta.pdst] = Window[i].value

(* What an edge leaves in a word of the register bank.                     *)
LEMMA RegisterWritten ==
  ASSUME Base, registers[0] = 0, NEW w, NEW d, NEW chosen, EdgeHolds(w, d, chosen), NEW p \in RegisterWords
  PROVE  /\ p = 0 \/ (\A q \in Lane : WritePort(w, q).valid => WritePort(w, q).address # p)
              => registers'[p] = registers[p]
         /\ \A q \in Lane :
              (/\ p # 0 /\ WritePort(w, q).valid /\ WritePort(w, q).address = p
               /\ \A s \in Lane : s > q => ~(WritePort(w, s).valid /\ WritePort(w, s).address = p))
                => registers'[p] = WritePort(w, q).value
<1> DEFINE port == [q \in Lane |-> WritePort(w, q)]
<1>1. RegisterTick(port)
  BY DEF EdgeHolds, BackSteps
<1>2. port[0] = WritePort(w, 0) /\ port[1] = WritePort(w, 1)
  BY DEF Lane
<1> HIDE DEF port
<1>3. registers'[p] = IF p = 0 THEN 0
                      ELSE IF WritePort(w, 1).valid /\ WritePort(w, 1).address = p THEN WritePort(w, 1).value
                      ELSE IF WritePort(w, 0).valid /\ WritePort(w, 0).address = p THEN WritePort(w, 0).value
                      ELSE registers[p]
  BY <1>1, <1>2 DEF RegisterTick
<1>4. 0 \in Lane /\ 1 \in Lane /\ \A q \in Lane : q = 0 \/ q = 1
  BY DEF Lane
<1> QED
  BY <1>3, <1>4

(* Renamed, a physical register has one writer at most.                    *)
LEMMA OneWriter ==
  ASSUME Base, OUT_OF_ORDER, NEW w, NEW d, NEW chosen, EdgeHolds(w, d, chosen),
         NEW r \in w.completions, r.meta.pdst # 0
  PROVE  /\ \A s \in w.completions : s.meta.pdst = r.meta.pdst => s = r
         /\ \A i \in 1 .. count : Window[i].meta.pdst = r.meta.pdst =>
              Window[i].meta = r.meta /\ ~Window[i].done
<1>1. PlaceInv /\ RenameInv
  BY BaseIs
<1>2. ~w.backend_flush /\ Renaming
  BY DEF EdgeHolds, WiresHold, Renaming
<1> DEFINE i == Distance(r.meta.tag) + 1
<1>3. i \in 1 .. count /\ Window[i].meta = r.meta /\ ~Window[i].done
  BY <1>1, <1>2, ResultOf
<1> HIDE DEF i
<1>4. ASSUME NEW j \in 1 .. count, Window[j].meta.pdst = r.meta.pdst
      PROVE  j = i
  BY <1>1, <1>2, <1>3, <1>4, OneOwner
<1>5. ASSUME NEW s \in w.completions, s.meta.pdst = r.meta.pdst
      PROVE  s = r
  <2> DEFINE j == Distance(s.meta.tag) + 1
  <2>1. j \in 1 .. count /\ Window[j].meta = s.meta
    BY <1>1, <1>2, ResultOf
  <2> HIDE DEF j
  <2>2. j = i
    BY <1>4, <1>5, <2>1
  <2>3. s.meta = r.meta
    BY <1>3, <2>1, <2>2
  <2> QED
    BY <2>3, OneResult
<1> QED
  BY <1>3, <1>4, <1>5

(* Out of order, the writeback ports and nothing else change a register on *)
(* an edge on which no serial instruction retires.                         *)
LEMMA OooWritten ==
  ASSUME Base, OUT_OF_ORDER, registers[0] = 0, NEW w, NEW d, NEW chosen, EdgeHolds(w, d, chosen),
         ~w.sys_retire, NEW p \in Phys
  PROVE  /\ p = 0 \/ (\A r \in w.completions : r.meta.pdst # p) => registers'[p] = registers[p]
         /\ \A r \in w.completions : r.meta.pdst = p /\ p # 0 => registers'[p] = r.value
<1>1. p \in RegisterWords
  BY DEF RegisterWords
<1>2. w.completions = {wb[q] : q \in w.wb_valid} /\ w.wb_valid \subseteq Lane
  BY DEF EdgeHolds, WiresHold
<1>3. \A q \in Lane : WritePort(w, q) = IF q \in w.wb_valid
                        THEN [valid |-> TRUE, address |-> wb[q].meta.pdst, value |-> wb[q].value]
                        ELSE [valid |-> FALSE, address |-> 0, value |-> 0]
  BY DEF WritePort
<1>4. ASSUME \A r \in w.completions : r.meta.pdst # p
      PROVE  registers'[p] = registers[p]
  <2>1. \A q \in Lane : WritePort(w, q).valid => WritePort(w, q).address # p
    BY <1>2, <1>3, <1>4
  <2> QED
    BY <1>1, <2>1, RegisterWritten
<1>5. ASSUME NEW r \in w.completions, r.meta.pdst = p, p # 0
      PROVE  registers'[p] = r.value
  <2>1. PICK q \in w.wb_valid : r = wb[q]
    BY <1>2
  <2>2. \A s \in w.wb_valid : wb[s].meta.pdst = p => wb[s] = r
    BY <1>2, <1>5, OneWriter
  <2> DEFINE last == IF 1 \in w.wb_valid /\ wb[1].meta.pdst = p THEN 1 ELSE q
  <2>3. /\ last \in w.wb_valid /\ last \in Lane /\ wb[last] = r
        /\ \A s \in Lane : s > last => ~(s \in w.wb_valid /\ wb[s].meta.pdst = p)
    BY <1>2, <2>1, <2>2 DEF Lane
  <2> HIDE DEF last
  <2>4. /\ WritePort(w, last).valid /\ WritePort(w, last).address = p /\ WritePort(w, last).value = r.value
        /\ \A s \in Lane : s > last => ~(WritePort(w, s).valid /\ WritePort(w, s).address = p)
    BY <1>3, <1>5, <2>3
  <2> QED
    BY <1>1, <1>5, <2>3, <2>4, RegisterWritten
<1>6. p = 0 => registers'[p] = registers[p]
  BY <1>1, RegisterWritten
<1> QED
  BY <1>4, <1>5, <1>6


(* The committed map follows the instructions that retire.                 *)
LEMMA CommittedMapAfter ==
  ASSUME Base, OUT_OF_ORDER, NEW w, NEW d, NEW chosen, EdgeHolds(w, d, chosen), ~w.backend_flush,
         NEW r \in Arch
  PROVE  \/ /\ committed_map'[r] = committed_map[r]
            /\ \A j \in 1 .. w.retiring : ~WritesTo(Window[j].meta, r)
         \/ \E j \in 1 .. w.retiring :
              /\ WritesTo(Window[j].meta, r) /\ committed_map'[r] = Window[j].meta.pdst
              /\ \A i \in j + 1 .. w.retiring : ~WritesTo(Window[i].meta, r)
<1> DEFINE C == committed_map
           V == Metas
           m == w.retiring
<1>1. WindowInv /\ TypesInv /\ WritersGiven /\ WiresHold(w) /\ BackSteps(w, d, chosen) /\ C \in [Arch -> Phys]
  BY BaseIs DEF EdgeHolds, RenameInv, RenameTypes
<1>2. m \in 0 .. 2 /\ m <= count /\ count \in Nat
  BY <1>1, Moved
<1>3. \A i \in 1 .. count : V[i] = Window[i].meta /\ V[i] \in meta_t
  <2>1. \A i \in 1 .. count : Window[i] \in rob_entry_t
    BY <1>1, WindowIs DEF WindowInv
  <2> QED
    BY <2>1 DEF Metas, rob_entry_t
<1>4. committed_map' = MapOver(C, V, 0, m)
  <2>1. ~w.restore
    <3>1. ~w.recovered.valid /\ ~(w.trap.valid \/ w.mret_commit)
          /\ w.restore = recovers(w.recovered.valid, w.trap.valid \/ w.mret_commit)
      BY <1>1 DEF WiresHold
    <3> QED
      BY <3>1 DEF recovers
  <2>2. RenameTick(w.restore, Writers(d), w.completions, Leaving(w))
    BY <1>1 DEF BackSteps
  <2> DEFINE L == Leaving(w)
  <2>3. committed_map' = Remapped(C, L)
    BY <2>1, <2>2 DEF RenameTick
  <2>4. PICK k \in 0 .. m :
           /\ DOMAIN L = 1 .. k /\ \A i \in 1 .. k : L[i] = V[0 + i]
           /\ \A i \in 1 .. k : L[i] \in meta_t /\ (L[i].pdst # 0 <=> L[i].rd # 0)
           /\ \A i \in 1 .. m : i > k => V[0 + i].pdst = 0
    <3> HIDE DEF V
    <3> QED
      BY <1>1, <1>3, LeavingIs
  <2> HIDE DEF V, C, m, L
  <2>5. k \in 0 .. 2
    BY <1>2, <2>4
  <2>6. Remapped(C, L) = MapOver(C, L, 0, k)
    BY <1>1, <2>4, <2>5, RemappedIs
  <2>7. WritersAre(L, k, V, 0, m)
    BY <1>2, <2>4 DEF WritersAre
  <2> QED
    BY <2>3, <2>6, <2>7, OverWriters
<1> HIDE DEF C, V, m
<1>5. \A i \in 1 .. m : V[i] = Window[i].meta /\ V[i] \in meta_t
  BY <1>2, <1>3
<1>6. CASE m = 0
  BY <1>4, <1>6 DEF MapOver, C, m
<1>7. CASE m = 1
  <2>1. committed_map' = Mapped(C, V[1]) /\ 1 \in 1 .. m /\ \A i \in 1 .. m : i = 1
    BY <1>4, <1>7 DEF MapOver
  <2>2. committed_map'[r] = IF WritesTo(V[1], r) THEN V[1].pdst ELSE C[r]
    BY <1>1, <1>5, <2>1, MappedAt
  <2> QED
    BY <1>5, <1>7, <2>1, <2>2 DEF C, m
<1>8. CASE m = 2
  <2>1. /\ committed_map' = Mapped(Mapped(C, V[1]), V[2])
        /\ 1 \in 1 .. m /\ 2 \in 1 .. m /\ \A i \in 1 .. m : i = 1 \/ i = 2
    BY <1>4, <1>8 DEF MapOver
  <2>2. Mapped(C, V[1]) \in [Arch -> Phys] /\ Mapped(C, V[1])[r] = IF WritesTo(V[1], r) THEN V[1].pdst ELSE C[r]
    BY <1>1, <1>5, <2>1, MappedAt
  <2>3. committed_map'[r] = IF WritesTo(V[2], r) THEN V[2].pdst ELSE Mapped(C, V[1])[r]
    BY <1>5, <2>1, <2>2, MappedAt
  <2>4. V[1] = Window[1].meta /\ V[2] = Window[2].meta
    BY <1>5, <2>1
  <2> QED
    BY <1>8, <2>1, <2>2, <2>3, <2>4 DEF C, m
<1> QED
  BY <1>2, <1>6, <1>7, <1>8


-----------------------------------------------------------------------------
(* What register r holds for instruction k of a line V of instructions,    *)
(* the registers before the line being x: the value of the last of the     *)
(* instructions before it that writes r, once that is done.                *)
WritesReg(e, r) == r # 0 /\ e.meta.rd = r
Before(V, x, k, r, v) ==
  \/ v = x[r] /\ \A j \in 1 .. k - 1 : ~WritesReg(V[j], r)
  \/ \E j \in 1 .. k - 1 : /\ WritesReg(V[j], r) /\ V[j].done /\ v = V[j].value
                           /\ \A i \in j + 1 .. k - 1 : ~WritesReg(V[i], r)

(* There is one such value.                                                *)
LEMMA BeforeOnce ==
  ASSUME NEW V, NEW x, NEW k \in Nat, NEW r, NEW u, NEW v, Before(V, x, k, r, u), Before(V, x, k, r, v)
  PROVE  u = v
<1>1. ASSUME NEW i \in 1 .. k - 1, NEW j \in 1 .. k - 1, WritesReg(V[i], r), WritesReg(V[j], r),
             \A n \in i + 1 .. k - 1 : ~WritesReg(V[n], r),
             \A n \in j + 1 .. k - 1 : ~WritesReg(V[n], r)
      PROVE  i = j
  BY <1>1
<1> QED
  BY <1>1 DEF Before

(* The registers after the instructions that retire.                       *)
LEMMA RegistersAfter ==
  ASSUME Base, Written, NEW w, NEW d, NEW chosen, EdgeHolds(w, d, chosen), ~w.backend_flush,
         ~w.sys_retire, NEW r \in Arch, NEW v, NEW k, k = w.retiring + 1,
         Before(Window, Committed, k, r, v)
  PROVE  Committed'[r] = v
<1> DEFINE m == w.retiring
<1>1. WindowInv /\ RenameInv /\ TypesInv /\ WiresHold(w)
  BY BaseIs DEF EdgeHolds
<1>2. m \in 0 .. 2 /\ m <= count /\ count \in Nat /\ k - 1 = m
  BY <1>1, Moved
<1>3. /\ \A i \in 1 .. m : /\ i \in 1 .. count /\ Window[i].done /\ ~halted /\ ~fault
                           /\ Window[i] = EntryAt(i - 1)
      /\ \A i \in 1 .. m : ~Window[i].serial
  <2>1. ASSUME NEW i \in 1 .. m
        PROVE  /\ i \in 1 .. count /\ Window[i].done /\ ~halted /\ ~fault /\ Window[i] = EntryAt(i - 1)
               /\ ~Window[i].serial
    BY <1>1, Retires
  <2> QED
    BY <2>1
<1> HIDE DEF m
<1>4. \/ v = Committed[r] /\ \A j \in 1 .. m : ~WritesReg(Window[j], r)
      \/ \E j \in 1 .. m : /\ WritesReg(Window[j], r) /\ v = Window[j].value
                           /\ \A i \in j + 1 .. m : ~WritesReg(Window[i], r)
  BY <1>2 DEF Before
<1>5. CASE OUT_OF_ORDER
  <2>1. /\ Committed[r] = registers[committed_map[r]] /\ Committed'[r] = registers'[committed_map'[r]]
        /\ committed_map[r] \in Phys
    BY <1>5, BaseIs DEF Committed, RenameTypes
  <2>2. \A i \in 1 .. m : WritesTo(Window[i].meta, r) <=> WritesReg(Window[i], r)
    BY <1>1, <1>3, <1>5 DEF WritesTo, WritesReg, RenameInv, WritersGiven
  <2>3. \/ /\ committed_map'[r] = committed_map[r]
           /\ \A j \in 1 .. m : ~WritesReg(Window[j], r)
        \/ \E j \in 1 .. m :
             /\ WritesReg(Window[j], r) /\ committed_map'[r] = Window[j].meta.pdst
             /\ \A i \in j + 1 .. m : ~WritesReg(Window[i], r)
    <3>1. \A j \in 1 .. m : \A i \in j + 1 .. m : i \in 1 .. m
      BY <1>2
    <3> QED
      BY <1>5, <2>2, <3>1, CommittedMapAfter DEF m
  <2>4. CASE committed_map'[r] = committed_map[r] /\ \A j \in 1 .. m : ~WritesReg(Window[j], r)
    <3> DEFINE p == committed_map[r]
    <3>1. p = 0 \/ \A c \in w.completions : c.meta.pdst # p
      <4> SUFFICES ASSUME p # 0, NEW c \in w.completions, c.meta.pdst = p
                   PROVE  FALSE
        OBVIOUS
      <4>1. Renaming /\ ~w.backend_flush
        BY <1>1, <1>5 DEF WiresHold, Renaming
      <4>2. PlacesApart(free_q, committed_map, Metas, 0, count)
        BY <1>1, <4>1 DEF RenameInv, RegistersKept, WellKept
      <4> DEFINE i == Distance(c.meta.tag) + 1
      <4>3. i \in 1 .. count /\ Window[i].meta = c.meta
        BY <4>1, BaseIs, ResultOf
      <4> HIDE DEF i, p
      <4>4. Metas[i].pdst = p /\ i \in 0 + 1 .. count
        BY <4>3 DEF Metas
      <4>5. committed_map[r] # Metas[i].pdst
        BY <4>2, <4>4 DEF PlacesApart
      <4> QED
        BY <4>4, <4>5 DEF p
    <3>2. registers'[p] = registers[p]
      BY <1>5, <2>1, <3>1, OooWritten DEF Written
    <3> QED
      BY <1>4, <2>1, <2>4, <3>2
  <2>5. ASSUME NEW j \in 1 .. m, WritesReg(Window[j], r), committed_map'[r] = Window[j].meta.pdst,
               \A i \in j + 1 .. m : ~WritesReg(Window[i], r)
        PROVE  Committed'[r] = v
    <3> DEFINE p == Window[j].meta.pdst
    <3>1. v = Window[j].value
      <4>1. PICK i \in 1 .. m : /\ WritesReg(Window[i], r) /\ v = Window[i].value
                                /\ \A n \in i + 1 .. m : ~WritesReg(Window[n], r)
        BY <1>4, <2>5
      <4>2. i = j
        <5>1. ~(i < j) /\ ~(j < i)
          BY <1>2, <2>5, <4>1
        <5> QED
          BY <1>2, <5>1
      <4> QED
        BY <4>1, <4>2
    <3>2. p # 0 /\ Window[j].done /\ j \in 1 .. count /\ Renaming
      BY <1>3, <1>5, <2>2, <2>5 DEF WritesTo, Renaming
    <3>3. p \in Phys
      <4>1. Window[j] \in rob_entry_t
        BY <3>2, WindowIs, <1>1 DEF WindowInv
      <4> QED
        BY <4>1 DEF rob_entry_t, meta_t
    <3>4. \A c \in w.completions : c.meta.pdst # p
      BY <1>5, <3>2, OneWriter
    <3>5. registers'[p] = registers[p]
      BY <1>5, <3>3, <3>4, OooWritten DEF Written
    <3>6. registers[p] = Window[j].value
      BY <3>2 DEF Written
    <3> QED
      BY <2>1, <2>5, <3>1, <3>5, <3>6
  <2> QED
    BY <2>3, <2>4, <2>5
<1>6. CASE ~OUT_OF_ORDER
  <2>1. Committed[r] = registers[r] /\ Committed'[r] = registers'[r] /\ r \in RegisterWords
    BY <1>6 DEF Committed, RegisterWords
  <2>2. \A q \in Lane : /\ WritePort(w, q).valid <=> q < m
                        /\ q < m => /\ WritePort(w, q).address = Window[q + 1].meta.rd
                                    /\ WritePort(w, q).value = Window[q + 1].value
                                    /\ q + 1 \in 1 .. m
    <3> SUFFICES ASSUME NEW q \in Lane
                 PROVE  /\ WritePort(w, q).valid <=> q < m
                        /\ q < m => /\ WritePort(w, q).address = Window[q + 1].meta.rd
                                    /\ WritePort(w, q).value = Window[q + 1].value
                                    /\ q + 1 \in 1 .. m
      OBVIOUS
    <3>1. WritePort(w, q) = IF q < m
            THEN [valid |-> TRUE, address |-> EntryAt(q).meta.rd, value |-> EntryAt(q).value]
            ELSE [valid |-> FALSE, address |-> 0, value |-> 0]
      BY <1>6 DEF WritePort, m
    <3>2. q \in 0 .. 1
      BY DEF Lane
    <3>3. q < m => q + 1 \in 1 .. m /\ (q + 1) - 1 = q
      BY <1>2, <3>2
    <3>4. q < m => Window[q + 1] = EntryAt(q)
      BY <1>3, <3>3
    <3> HIDE DEF EntryAt
    <3> QED
      BY <3>1, <3>3, <3>4
  <2>3. CASE v = Committed[r] /\ \A j \in 1 .. m : ~WritesReg(Window[j], r)
    <3>1. r = 0 \/ \A q \in Lane : WritePort(w, q).valid => WritePort(w, q).address # r
      BY <2>2, <2>3 DEF WritesReg
    <3>2. registers'[r] = registers[r]
      BY <2>1, <3>1, RegisterWritten DEF Written
    <3> QED
      BY <2>1, <2>3, <3>2
  <2>4. ASSUME NEW j \in 1 .. m, WritesReg(Window[j], r), v = Window[j].value,
               \A i \in j + 1 .. m : ~WritesReg(Window[i], r)
        PROVE  Committed'[r] = v
    <3> DEFINE q == j - 1
    <3>1. q \in Lane /\ q < m /\ q + 1 = j /\ r # 0
      BY <1>2, <2>4 DEF Lane, WritesReg
    <3>2. \A s \in Lane : s > q /\ s < m => s + 1 \in j + 1 .. m
      BY <1>2, <3>1 DEF Lane
    <3> HIDE DEF q
    <3>3. WritePort(w, q).valid /\ WritePort(w, q).address = r /\ WritePort(w, q).value = v
      BY <2>2, <2>4, <3>1 DEF WritesReg
    <3>4. \A s \in Lane : s > q => ~(WritePort(w, s).valid /\ WritePort(w, s).address = r)
      BY <2>2, <2>4, <3>1, <3>2 DEF WritesReg
    <3>5. registers'[r] = WritePort(w, q).value
      BY <2>1, <3>1, <3>3, <3>4, RegisterWritten DEF Written
    <3> QED
      BY <2>1, <3>3, <3>5
  <2> QED
    BY <1>4, <2>3, <2>4
<1> QED
  BY <1>5, <1>6


(* A serial instruction retires alone, and leaves the window empty.        *)
LEMMA SerialRetires ==
  ASSUME Base, NEW w, NEW d, NEW chosen, EdgeHolds(w, d, chosen), w.sys_retire
  PROVE  /\ count = 1 /\ w.retiring = 1 /\ d.n = 0 /\ Window[1].serial /\ Window[1].done
         /\ ~Window[1].terminal /\ w.completions = {} /\ Window[1] = hd0
         /\ (~w.backend_flush => count' = 0)
<1>1. WindowInv /\ SerialLast /\ WiresHold(w) /\ DispatchFacts(w, d) /\ PlaceInv /\ QueuesBounded
  BY BaseIs DEF EdgeHolds
<1>2. w.retiring # 0 /\ w.retiring \in 0 .. 2 /\ w.retiring <= count
  BY <1>1, RetiringIs DEF WiresHold
<1>3. 1 \in 1 .. w.retiring
  BY <1>2
<1>4. /\ 1 \in 1 .. count /\ Window[1].done /\ ~Window[1].terminal /\ Window[1] = EntryAt(1 - 1)
      /\ Window[1].serial /\ w.retiring = 1
  BY <1>1, <1>3, Retires
<1>5. Window[1] = hd0
  BY <1>4 DEF EntryAt
<1>6. count = 1 /\ sys_pending
  BY <1>1, <1>4, WindowIs DEF SerialLast, WindowInv
<1>7. d.n = 0
  BY <1>1, <1>6 DEF DispatchFacts
<1>8. w.completions = {}
  <2> SUFFICES ASSUME NEW r \in w.completions
               PROVE  FALSE
    OBVIOUS
  <2>1. ~w.backend_flush
    BY <1>1 DEF WiresHold
  <2> DEFINE i == Distance(r.meta.tag) + 1
  <2>2. i \in 1 .. count /\ i > w.retiring
    BY <1>1, <2>1, ResultOf
  <2> HIDE DEF i
  <2> QED
    BY <1>4, <1>6, <2>2
<1>9. ~w.backend_flush => count' = 0
  <2> SUFFICES ASSUME ~w.backend_flush
               PROVE  count' = 0
    OBVIOUS
  <2>1. count' = (count + d.n) - w.retiring
    BY LineAdvances
  <2> QED
    BY <1>4, <1>6, <1>7, <2>1
<1> QED
  BY <1>4, <1>5, <1>6, <1>7, <1>8, <1>9

(* An instruction writes its physical register as it is done, and no other *)
(* writes it until it has left.                                            *)
LEMMA WrittenEdge ==
  ASSUME Base, Written, NEW w, NEW d, NEW chosen, EdgeHolds(w, d, chosen), ~w.backend_flush
  PROVE  Written'
<1>1. registers'[0] = 0
  <2>1. 0 \in RegisterWords
    BY SmallWords DEF RegisterWords
  <2> QED
    BY <2>1, RegisterWritten DEF Written
<1>2. ASSUME Renaming', NEW k \in 1 .. count', Window'[k].done, Window'[k].meta.pdst # 0
      PROVE  registers'[Window'[k].meta.pdst] = Window'[k].value
  <2>1. OUT_OF_ORDER /\ Renaming /\ WindowInv /\ TypesInv
    BY <1>2, RenamingBefore, BaseIs
  <2>2. ~w.sys_retire
    BY <1>2, SerialRetires
  <2> DEFINE i == k + w.retiring
  <2>3. /\ i \in 1 .. count + d.n
        /\ \/ /\ Window'[k] = Line(d)[i]
              /\ \A r \in w.completions : r.meta.tag # Line(d)[i].meta.tag
           \/ /\ i \in 1 .. count /\ ~Window[i].done
              /\ \E r \in w.completions : r.meta = Window[i].meta /\ Window'[k] = CompletedEntry(Window[i], r)
    BY LineAdvances
  <2> HIDE DEF i
  <2>4. CASE /\ Window'[k] = Line(d)[i]
             /\ \A r \in w.completions : r.meta.tag # Line(d)[i].meta.tag
    <3>1. CASE i \in 1 .. count
      <4>1. Window'[k] = Window[i] /\ Window[i] \in rob_entry_t
        BY <2>1, <2>4, <3>1, LineIs, WindowIs DEF WindowInv
      <4> DEFINE p == Window[i].meta.pdst
      <4>2. p \in Phys /\ p # 0 /\ Window[i].done
        BY <1>2, <4>1 DEF rob_entry_t, meta_t
      <4>3. \A r \in w.completions : r.meta.pdst # p
        BY <2>1, <3>1, <4>2, OneWriter
      <4>4. registers[p] = Window[i].value
        BY <2>1, <3>1, <4>2 DEF Written
      <4>5. registers'[p] = registers[p]
        BY <2>1, <2>2, <4>2, <4>3, OooWritten DEF Written
      <4> QED
        BY <4>1, <4>4, <4>5
    <3>2. CASE i \notin 1 .. count
      <4> DEFINE j == i - count
      <4>1. j \in 1 .. d.n /\ count + j = i
        BY <2>3, <3>2, LineIs
      <4> HIDE DEF j
      <4>2. Window'[k] = NewEntry(d, j)
        BY <2>4, <4>1, LineIs
      <4>3. NewEntry(d, j).done = (id_q[j].terminal \/ id_q[j].serial)
        BY <2>1, <4>1, NewEntryIs
      <4>4. NewEntry(d, j).meta.pdst # 0 <=> Allocates(id_q[j])
        BY <2>1, <4>1, NewGiven
      <4> QED
        BY <1>2, <4>2, <4>3, <4>4 DEF Allocates, EndsBundle
    <3> QED
      BY <3>1, <3>2
  <2>5. CASE /\ i \in 1 .. count /\ ~Window[i].done
             /\ \E r \in w.completions : r.meta = Window[i].meta /\ Window'[k] = CompletedEntry(Window[i], r)
    <3>1. PICK r \in w.completions : r.meta = Window[i].meta /\ Window'[k] = CompletedEntry(Window[i], r)
      BY <2>5
    <3>2. Window[i] \in rob_entry_t
      BY <2>1, <2>5, WindowIs DEF WindowInv
    <3>3. Window'[k].meta = r.meta /\ Window'[k].value = r.value
      BY <3>1, <3>2 DEF CompletedEntry, rob_entry_t
    <3>4. r.meta.pdst \in Phys /\ r.meta.pdst # 0
      BY <1>2, <3>1, <3>2, <3>3 DEF rob_entry_t, meta_t
    <3>5. registers'[r.meta.pdst] = r.value
      BY <2>1, <2>2, <3>4, OooWritten DEF Written
    <3> QED
      BY <3>3, <3>5
  <2> QED
    BY <2>3, <2>4, <2>5
<1>3. Renaming' => \A k \in 1 .. count' :
        Window'[k].done /\ Window'[k].meta.pdst # 0 => registers'[Window'[k].meta.pdst] = Window'[k].value
  BY <1>2
<1> QED
  BY <1>1, <1>3 DEF Written


-----------------------------------------------------------------------------
(* From the line of instructions before an edge to the window after it.    *)
LEMMA LineKept ==
  ASSUME Base, NEW w, NEW d, NEW chosen, EdgeHolds(w, d, chosen), ~w.backend_flush,
         NEW i \in 1 .. count + d.n, i > w.retiring, NEW h, h = i - w.retiring
  PROVE  /\ h \in 1 .. count' /\ Window'[h].meta = Line(d)[i].meta
         /\ \/ /\ Window'[h] = Line(d)[i]
               /\ \A r \in w.completions : r.meta.tag # Line(d)[i].meta.tag
            \/ /\ i \in 1 .. count /\ ~Line(d)[i].done /\ Window'[h].done
               /\ \E r \in w.completions : r.meta = Line(d)[i].meta /\ Window'[h].value = r.value
                                           /\ Window'[h].branch = r.branch
         /\ Line(d)[i].done => Window'[h] = Line(d)[i]
<1>1. /\ count \in Nat /\ d.n \in 0 .. 2 /\ w.retiring \in 0 .. 2 /\ w.retiring <= count
      /\ Line(d)[i] \in rob_entry_t
  BY LineIs
<1>2. /\ count' = (count + d.n) - w.retiring
      /\ \A k \in 1 .. count' :
           \/ /\ Window'[k] = Line(d)[k + w.retiring]
              /\ \A r \in w.completions : r.meta.tag # Line(d)[k + w.retiring].meta.tag
           \/ /\ k + w.retiring \in 1 .. count /\ ~Window[k + w.retiring].done
              /\ \E r \in w.completions :
                   r.meta = Window[k + w.retiring].meta
                   /\ Window'[k] = CompletedEntry(Window[k + w.retiring], r)
  BY LineAdvances
<1>3. h \in 1 .. count' /\ h + w.retiring = i
  BY <1>1, <1>2
<1>4. i \in 1 .. count => Line(d)[i] = Window[i]
  BY LineIs
<1>5. \/ Window'[h] = Line(d)[i] /\ \A r \in w.completions : r.meta.tag # Line(d)[i].meta.tag
      \/ /\ i \in 1 .. count /\ ~Line(d)[i].done
         /\ \E r \in w.completions :
              r.meta = Line(d)[i].meta /\ Window'[h] = CompletedEntry(Line(d)[i], r)
  BY <1>2, <1>3, <1>4
<1>6. \A r : /\ CompletedEntry(Line(d)[i], r).meta = Line(d)[i].meta
             /\ CompletedEntry(Line(d)[i], r).done = TRUE
             /\ CompletedEntry(Line(d)[i], r).value = r.value
             /\ CompletedEntry(Line(d)[i], r).branch = r.branch
  BY <1>1 DEF CompletedEntry, rob_entry_t
<1> QED
  BY <1>3, <1>5, <1>6

(* What an instruction finds in a register does not change while it waits. *)
LEMMA BeforeMoves ==
  ASSUME Base, Written, NEW w, NEW d, NEW chosen, EdgeHolds(w, d, chosen), ~w.backend_flush,
         NEW k \in 1 .. count + d.n, k > w.retiring, NEW r \in Arch, NEW v,
         Before(Line(d), Committed, k, r, v), NEW n, n = k - w.retiring
  PROVE  Before(Window', Committed', n, r, v)
<1> DEFINE m == w.retiring
           L == Line(d)
           V == Window'
<1>1. count \in Nat /\ d.n \in 0 .. 2 /\ m \in 0 .. 2 /\ m <= count
  BY LineIs
<1>2. \A i \in 1 .. m : L[i] = Window[i]
  BY <1>1, LineIs
<1>3. \A i \in 1 .. k - 1 : i > m => /\ V[i - m].meta = L[i].meta
                                     /\ L[i].done => V[i - m] = L[i]
  <2> SUFFICES ASSUME NEW i \in 1 .. k - 1, i > m
               PROVE  /\ V[i - m].meta = L[i].meta
                      /\ L[i].done => V[i - m] = L[i]
    OBVIOUS
  <2>1. i \in 1 .. count + d.n
    BY <1>1
  <2> QED
    BY <2>1, LineKept
<1>4. ~w.sys_retire
  <2>1. w.sys_retire => k > 1 /\ count + d.n = 1
    BY SerialRetires
  <2> QED
    BY <2>1
<1>5. \A u : Before(Window, Committed, m + 1, r, u) => Committed'[r] = u
  BY <1>4, RegistersAfter
<1> HIDE DEF L, V, m
<1>6. \/ v = Committed[r] /\ \A j \in 1 .. k - 1 : ~WritesReg(L[j], r)
      \/ \E j \in 1 .. k - 1 : /\ WritesReg(L[j], r) /\ L[j].done /\ v = L[j].value
                               /\ \A i \in j + 1 .. k - 1 : ~WritesReg(L[i], r)
  BY DEF Before, L
<1>7. k \in Nat /\ n = k - m /\ k > m /\ n - 1 = (k - 1) - m /\ (m + 1) - 1 = m
  BY <1>1 DEF m
<1>8. \A h \in 1 .. n - 1 : h + m \in 1 .. k - 1 /\ h + m > m /\ V[h].meta = L[h + m].meta
  <2> SUFFICES ASSUME NEW h \in 1 .. n - 1
               PROVE  h + m \in 1 .. k - 1 /\ h + m > m /\ V[h].meta = L[h + m].meta
    OBVIOUS
  <2>1. h + m \in 1 .. k - 1 /\ h + m > m /\ (h + m) - m = h
    BY <1>1, <1>7
  <2> QED
    BY <1>3, <2>1
<1>9. CASE v = Committed[r] /\ \A j \in 1 .. k - 1 : ~WritesReg(L[j], r)
  <2>1. \A j \in 1 .. m : ~WritesReg(Window[j], r)
    BY <1>1, <1>2, <1>7, <1>9
  <2>2. Committed'[r] = v
    BY <1>5, <1>7, <1>9, <2>1 DEF Before
  <2>3. \A h \in 1 .. n - 1 : ~WritesReg(V[h], r)
    BY <1>8, <1>9 DEF WritesReg
  <2> QED
    BY <2>2, <2>3 DEF Before, V
<1>10. ASSUME NEW j \in 1 .. k - 1, WritesReg(L[j], r), L[j].done, v = L[j].value,
              \A i \in j + 1 .. k - 1 : ~WritesReg(L[i], r)
       PROVE  Before(V, Committed', n, r, v)
  <2>1. CASE j <= m
    <3>1. j \in 1 .. m /\ \A i \in j + 1 .. m : i \in 1 .. m /\ i \in j + 1 .. k - 1
      BY <1>1, <1>7, <2>1
    <3>2. WritesReg(Window[j], r) /\ Window[j].done /\ v = Window[j].value
      BY <1>2, <1>10, <3>1
    <3>3. \A i \in j + 1 .. m : ~WritesReg(Window[i], r)
      BY <1>2, <1>10, <3>1
    <3>4. Committed'[r] = v
      BY <1>5, <1>7, <3>1, <3>2, <3>3 DEF Before
    <3>5. \A h \in 1 .. n - 1 : h + m \in j + 1 .. k - 1
      BY <1>1, <1>7, <1>8, <2>1
    <3>6. \A h \in 1 .. n - 1 : ~WritesReg(V[h], r)
      BY <1>8, <1>10, <3>5 DEF WritesReg
    <3> QED
      BY <3>4, <3>6 DEF Before
  <2>2. CASE j > m
    <3> DEFINE h == j - m
    <3>1. h \in 1 .. n - 1 /\ h + m = j
      BY <1>1, <1>7, <2>2
    <3>2. V[h] = L[j]
      BY <1>3, <1>10, <2>2
    <3>3. \A i \in h + 1 .. n - 1 : i \in 1 .. n - 1 /\ i + m \in j + 1 .. k - 1
      BY <1>1, <1>7, <3>1
    <3> HIDE DEF h
    <3>4. \A i \in h + 1 .. n - 1 : ~WritesReg(V[i], r)
      BY <1>8, <1>10, <3>3 DEF WritesReg
    <3> QED
      BY <1>10, <3>1, <3>2, <3>4 DEF Before
  <2> QED
    BY <1>1, <2>1, <2>2
<1> QED
  BY <1>6, <1>9, <1>10 DEF V

-----------------------------------------------------------------------------
(* Where instruction k of a line finds register r: an operand that is      *)
(* ready has its value, one that is not awaits the instruction that will   *)
(* write it.                                                               *)
Awaits(V, k, r, p) ==
  \E j \in 1 .. k - 1 : /\ WritesReg(V[j], r) /\ ~V[j].done /\ V[j].meta.pdst = p
                        /\ \A i \in j + 1 .. k - 1 : ~WritesReg(V[i], r)
Supplied(V, x, k, r, o) == IF o.ready THEN Before(V, x, k, r, o.value) ELSE Awaits(V, k, r, o.tag)

(* Nothing is dispatched behind a serial or a terminal instruction.        *)
LEMMA PlainBefore ==
  ASSUME Base, NEW w, NEW d, NEW chosen, EdgeHolds(w, d, chosen), NEW j \in 1 .. d.n
  PROVE  /\ Awake /\ ~w.backend_flush /\ \A i \in 1 .. count : ~Window[i].serial
         /\ j = 1 \/ (j = 2 /\ d.n = 2 /\ ~id_q[1].terminal /\ ~id_q[1].serial)
         /\ dispatch_data[1] = id_q[1]
<1>1. DispatchFacts(w, d) /\ SerialLast /\ WindowInv
  BY BaseIs DEF EdgeHolds
<1>2. d.n \in 0 .. 2 /\ d.n # 0 /\ 1 \in 1 .. d.n
  BY <1>1 DEF DispatchFacts
<1>3. ~sys_pending /\ Awake /\ ~w.backend_flush
  BY <1>1, <1>2 DEF DispatchFacts, Awake
<1>4. DOMAIN Window = 1 .. count
  BY <1>1, WindowIs DEF WindowInv
<1> QED
  BY <1>1, <1>2, <1>3, <1>4 DEF DispatchFacts, SerialLast

(* The one result that writes an instruction's register is its own.        *)
LEMMA WokenBy ==
  ASSUME Base, NEW w, NEW d, NEW chosen, EdgeHolds(w, d, chosen), ~w.backend_flush,
         NEW j \in 1 .. count + d.n, ~Line(d)[j].done, Line(d)[j].meta.rd # 0,
         NEW c \in w.completions, c.meta.rd # 0, c.meta.pdst = Line(d)[j].meta.pdst
  PROVE  c.meta = Line(d)[j].meta
<1>1. /\ WindowInv /\ PlaceInv /\ RenameInv /\ BusyInv /\ InorderNamed /\ TypesInv
      /\ DispatchFacts(w, d) /\ WiresHold(w) /\ WindowFull
  BY BaseIs DEF EdgeHolds
<1> DEFINE i == Distance(c.meta.tag) + 1
<1>2. i \in 1 .. count /\ Window[i].meta = c.meta /\ ~Window[i].done
  BY <1>1, ResultOf
<1> HIDE DEF i
<1>3. Awake
  BY <1>1 DEF WiresHold, Awake
<1>4. Window[i] \in rob_entry_t /\ ~Window[i].serial
  <2>1. Window[i] \in rob_entry_t
    BY <1>1, <1>2, WindowIs
  <2> QED
    BY <1>2, <2>1 DEF rob_entry_t
<1>5. CASE j \in 1 .. count
  <2>1. Line(d)[j] = Window[j]
    BY <1>5, LineIs
  <2>2. Window[j] \in rob_entry_t /\ ~Window[j].serial
    <3>1. Window[j] \in rob_entry_t
      BY <1>1, <1>5, WindowIs
    <3> QED
      BY <2>1, <3>1 DEF rob_entry_t
  <2>3. CASE OUT_OF_ORDER
    <3>1. c.meta.pdst # 0
      BY <1>1, <1>5, <2>1, <2>2, <2>3 DEF RenameInv, WritersGiven
    <3> QED
      BY <1>5, <2>1, <2>3, <3>1, OneWriter
  <2>4. CASE ~OUT_OF_ORDER
    <3> DEFINE r == c.meta.rd
    <3>1. r \in Arch /\ r # 0
      BY <1>2, <1>4 DEF rob_entry_t, meta_t
    <3>2. WriterAt(i, r) /\ WriterAt(j, r)
      BY <1>1, <1>2, <1>4, <1>5, <2>1, <2>2, <2>4 DEF InorderNamed, WriterAt
    <3>3. i = j
      <4>1. BusyOf(r)
        BY <1>1, <2>4, <3>1 DEF BusyInv
      <4> HIDE DEF r
      <4> QED
        BY <1>2, <1>5, <3>2, <4>1 DEF BusyOf
    <3> QED
      BY <1>2, <2>1, <3>3
  <2> QED
    BY <2>3, <2>4
<1>6. CASE j \notin 1 .. count
  <2> DEFINE h == j - count
  <2>1. h \in 1 .. d.n /\ Line(d)[j] = NewEntry(d, h)
    <3>1. h \in 1 .. d.n /\ count + h = j
      BY <1>6, LineIs
    <3> QED
      BY <3>1, LineIs
  <2> HIDE DEF h
  <2>2. /\ ~id_q[h].terminal /\ ~id_q[h].serial /\ id_q[h].rd # 0 /\ id_q[h].rd \in Arch
        /\ NewEntry(d, h).meta.rd = id_q[h].rd
    <3>1. /\ id_q[h] \in decode_t /\ NewEntry(d, h).meta.rd = id_q[h].rd
          /\ NewEntry(d, h).done = (id_q[h].terminal \/ id_q[h].serial)
      BY <1>1, <2>1, NewEntryIs
    <3> QED
      BY <2>1, <3>1 DEF decode_t
  <2>3. CASE OUT_OF_ORDER
    <3>1. Allocates(id_q[h])
      BY <2>2 DEF Allocates, EndsBundle
    <3>2. NewEntry(d, h).meta.pdst \in Offered
      BY <1>1, <2>1, <2>3, <3>1, NewGiven
    <3>3. PlacesApart(free_q, committed_map, Metas, 0, count)
      BY <1>1, <1>3, <2>3 DEF RenameInv, RegistersKept, WellKept, Renaming, Awake
    <3>4. Metas[i].pdst = c.meta.pdst /\ i \in 0 + 1 .. count
      BY <1>2 DEF Metas
    <3>5. c.meta.pdst = NewEntry(d, h).meta.pdst
      BY <2>1
    <3>6. c.meta.pdst \in free_q /\ c.meta.pdst # 0
      BY <3>2, <3>5 DEF Offered
    <3> QED
      BY <3>3, <3>4, <3>6 DEF PlacesApart
  <2>4. CASE ~OUT_OF_ORDER
    <3> DEFINE r == id_q[h].rd
    <3>1. Reserves(id_q[h])
      BY <2>2 DEF Reserves, Ends
    <3>2. r \notin busy
      BY <1>1, <2>1, <2>4, <3>1, InorderAllows
    <3>3. NewEntry(d, h).meta.pdst = r
      BY <1>1, <2>1, <2>4, NewEntryIs DEF Destination
    <3>4. WriterAt(i, r)
      BY <1>1, <1>2, <1>4, <2>1, <2>4, <3>3 DEF InorderNamed, WriterAt
    <3>5. BusyOf(r)
      BY <1>1, <2>2, <2>4 DEF BusyInv
    <3> HIDE DEF r
    <3> QED
      BY <1>2, <3>2, <3>4, <3>5 DEF BusyOf
  <2> QED
    BY <2>3, <2>4
<1> QED
  BY <1>5, <1>6

(* An operand stays supplied from one edge to the next: the result that    *)
(* wakes it is the one it awaits.                                          *)
LEMMA SuppliedMoves ==
  ASSUME Base, Written, NEW w, NEW d, NEW chosen, EdgeHolds(w, d, chosen), ~w.backend_flush,
         NEW k \in 1 .. count + d.n, k > w.retiring, NEW r \in Arch, NEW o \in operand_t,
         Supplied(Line(d), Committed, k, r, o), NEW n, n = k - w.retiring
  PROVE  Supplied(Window', Committed', n, r, WokenOperand(o, w.completions))
<1> DEFINE m == w.retiring
           L == Line(d)
           V == Window'
           C == w.completions
<1>1. count \in Nat /\ d.n \in 0 .. 2 /\ m \in 0 .. 2 /\ m <= count /\ WindowInv /\ WiresHold(w)
  BY LineIs, BaseIs DEF EdgeHolds
<1>2. CASE o.ready
  <2>1. WokenOperand(o, w.completions) = o
    BY <1>2 DEF WokenOperand
  <2> QED
    BY <1>2, <2>1, BeforeMoves DEF Supplied
<1>3. CASE ~o.ready
  <2>1. PICK j \in 1 .. k - 1 : /\ WritesReg(L[j], r) /\ ~L[j].done /\ L[j].meta.pdst = o.tag
                                /\ \A i \in j + 1 .. k - 1 : ~WritesReg(L[i], r)
    BY <1>3 DEF Supplied, Awaits
  <2> DEFINE h == j - m
  <2>2. j \in 1 .. count + d.n /\ j > m
    <3>1. j \in 1 .. count + d.n
      BY <1>1
    <3>2. ~(j <= m)
      <4> SUFFICES ASSUME j <= m
                   PROVE  FALSE
        OBVIOUS
      <4>1. j \in 1 .. w.retiring /\ j \in 1 .. count
        BY <1>1, <3>1
      <4>2. Window[j].done /\ L[j] = Window[j]
        BY <1>1, <4>1, Retires, LineIs
      <4> QED
        BY <2>1, <4>2
    <3> QED
      BY <1>1, <3>1, <3>2
  <2>3. /\ h \in 1 .. count' /\ V[h].meta = L[j].meta
        /\ \/ V[h] = L[j] /\ \A c \in C : c.meta.tag # L[j].meta.tag
           \/ /\ V[h].done /\ \E c \in C : c.meta = L[j].meta /\ V[h].value = c.value
    BY <2>2, LineKept
  <2>4. h \in 1 .. n - 1
    BY <1>1, <2>2
  <2>5. \A i \in h + 1 .. n - 1 : ~WritesReg(V[i], r)
    <3> SUFFICES ASSUME NEW i \in h + 1 .. n - 1
                 PROVE  ~WritesReg(V[i], r)
      OBVIOUS
    <3>1. i + m \in j + 1 .. k - 1 /\ i + m \in 1 .. count + d.n /\ i + m > m /\ (i + m) - m = i
      BY <1>1, <2>2
    <3>2. V[i].meta = L[i + m].meta
      BY <3>1, LineKept
    <3> QED
      BY <2>1, <3>1, <3>2 DEF WritesReg
  <2>6. WritesReg(V[h], r)
    BY <2>1, <2>3 DEF WritesReg
  <2>7. L[j].meta.rd # 0
    BY <2>1 DEF WritesReg
  <2> DEFINE P == {c \in C : c.meta.rd # 0 /\ c.meta.pdst = o.tag}
  <2>8. \A c \in P : c.meta = L[j].meta
    BY <2>1, <2>2, <2>7, WokenBy
  <2>9. WokenOperand(o, C) = IF P = {} THEN o
                             ELSE [o EXCEPT !.ready = TRUE, !.value = (CHOOSE c \in P : TRUE).value]
    BY <1>3 DEF WokenOperand
  <2>10. CASE V[h] = L[j] /\ \A c \in C : c.meta.tag # L[j].meta.tag
    <3>1. P = {}
      BY <2>8, <2>10
    <3>2. WokenOperand(o, C) = o
      BY <2>9, <3>1
    <3>3. Awaits(V, n, r, o.tag)
      <4> HIDE DEF h, V, L
      <4> QED
        BY <2>1, <2>4, <2>5, <2>6, <2>10 DEF Awaits
    <3> QED
      BY <1>3, <3>2, <3>3 DEF Supplied
  <2>11. CASE V[h].done /\ \E c \in C : c.meta = L[j].meta /\ V[h].value = c.value
    <3>1. PICK c \in C : c.meta = L[j].meta /\ V[h].value = c.value
      BY <2>11
    <3>2. c \in P
      BY <2>1, <2>7, <3>1
    <3>3. \A p \in P : p = c
      BY <2>8, <3>1, OneResult
    <3>4. (CHOOSE p \in P : TRUE) = c
      BY <3>2, <3>3
    <3>5. WokenOperand(o, C) = [o EXCEPT !.ready = TRUE, !.value = c.value]
      BY <2>9, <3>2, <3>4
    <3>6. WokenOperand(o, C).ready /\ WokenOperand(o, C).value = V[h].value
      BY <3>1, <3>5 DEF operand_t
    <3>7. Before(V, Committed', n, r, V[h].value)
      <4> HIDE DEF h, V
      <4> QED
        BY <2>4, <2>5, <2>6, <2>11 DEF Before
    <3> QED
      BY <3>6, <3>7 DEF Supplied
  <2> QED
    BY <2>3, <2>10, <2>11
<1> QED
  BY <1>2, <1>3

-----------------------------------------------------------------------------
(* An operand of a renamed instruction is supplied: the map names the last *)
(* writer of its register, the ready bit says whether that is done.        *)
LEMMA RenamedSupplied ==
  ASSUME Base, Written, OUT_OF_ORDER, NEW w, NEW d, NEW chosen, EdgeHolds(w, d, chosen),
         NEW j \in 1 .. d.n, NEW r \in Arch, NEW o,
         o = [ready |-> ReadyBefore(j)[MapBefore(j)[r]], tag |-> MapBefore(j)[r],
              value |-> registers[MapBefore(j)[r]]],
         NEW k, k = count + j
  PROVE  Supplied(Line(d), Committed, k, r, o)
<1>1. /\ TypesInv /\ RenameTypes /\ WritersGiven /\ RegistersKept /\ ReadyInv /\ RenameInv /\ WindowInv
      /\ Awake /\ Renaming /\ dispatch_data[1] = id_q[1] /\ 1 \in 1 .. d.n
      /\ \A i \in 1 .. count : ~Window[i].serial
      /\ j = 1 \/ (j = 2 /\ d.n = 2 /\ ~id_q[1].terminal /\ ~id_q[1].serial)
  <2>1. 1 \in 1 .. d.n
    <3>1. d.n \in 0 .. 2
      BY LineIs
    <3> QED
      BY <3>1
  <2>2. Awake => Renaming
    BY DEF Awake, Renaming
  <2> QED
    BY <2>1, <2>2, BaseIs, PlainBefore DEF RenameInv
<1>2. /\ speculative_map \in [Arch -> Phys] /\ ready_q \in [Phys -> BOOLEAN]
      /\ committed_map \in [Arch -> Phys] /\ count \in Nat
  BY <1>1, LineIs DEF RenameTypes
<1>3. \A i \in 1 .. count : /\ Line(d)[i] = Window[i] /\ Metas[i] = Window[i].meta
                            /\ WritesTo(Metas[i], r) <=> WritesReg(Window[i], r)
  <2> SUFFICES ASSUME NEW i \in 1 .. count
               PROVE  /\ Line(d)[i] = Window[i] /\ Metas[i] = Window[i].meta
                      /\ WritesTo(Metas[i], r) <=> WritesReg(Window[i], r)
    OBVIOUS
  <2>1. Line(d)[i] = Window[i] /\ Metas[i] = Window[i].meta
    BY LineIs DEF Metas
  <2>2. WritesTo(Metas[i], r) <=> WritesReg(Window[i], r)
    BY <1>1, <2>1 DEF WritersGiven, WritesTo, WritesReg
  <2> QED
    BY <2>1, <2>2
<1>4. Committed[r] = registers[committed_map[r]]
  BY DEF Committed
<1> DEFINE p == MapBefore(j)[r]
           L == Line(d)
<1>5. j = 2 => /\ L[count + 1] = NewEntry(d, 1) /\ NewEntry(d, 1).meta.rd = id_q[1].rd
               /\ NewEntry(d, 1).done = (id_q[1].terminal \/ id_q[1].serial)
  BY <1>1, LineIs, NewEntryIs
<1>6. o.ready = ReadyBefore(j)[p] /\ o.tag = p /\ o.value = registers[p]
  OBVIOUS
<1> HIDE DEF p, L
<1>7. CASE j = 2 /\ Allocates(id_q[1]) /\ id_q[1].rd = r
  <2>1. /\ NewEntry(d, 1).meta.pdst = GivenTo(1 - 1) /\ GivenTo(1 - 1) \in Offered
    BY <1>1, <1>7, NewGiven
  <2>2. GivenTo(0) \in Phys
    <3>1. free_q \subseteq Phys
      BY <1>1 DEF RenameTypes
    <3> QED
      BY <2>1, <3>1 DEF Offered
  <2>3. p = GivenTo(0) /\ ~o.ready
    <3>1. /\ MapBefore(j) = [speculative_map EXCEPT ![id_q[1].rd] = GivenTo(0)]
          /\ ReadyBefore(j) = [ready_q EXCEPT ![GivenTo(0)] = FALSE]
      BY <1>1, <1>7 DEF MapBefore, ReadyBefore
    <3>2. p = GivenTo(0)
      BY <1>2, <1>7, <3>1 DEF p
    <3> QED
      BY <1>2, <1>6, <2>2, <3>1, <3>2
  <2>4. /\ WritesReg(L[count + 1], r) /\ ~L[count + 1].done /\ L[count + 1].meta.pdst = o.tag
    <3>1. NewEntry(d, 1).meta.pdst = GivenTo(0) /\ ~id_q[1].terminal /\ ~id_q[1].serial
      BY <1>1, <1>7, <2>1
    <3> QED
      BY <1>5, <1>6, <1>7, <2>3, <3>1 DEF WritesReg, Allocates
  <2>5. count + 1 \in 1 .. k - 1 /\ \A i \in (count + 1) + 1 .. k - 1 : FALSE
    BY <1>2, <1>7
  <2> QED
    BY <2>3, <2>4, <2>5 DEF Supplied, Awaits, L
<1>8. CASE ~(j = 2 /\ Allocates(id_q[1]) /\ id_q[1].rd = r)
  <2>1. p = speculative_map[r]
    <3>1. CASE j = 2 /\ Allocates(id_q[1])
      <4>1. MapBefore(j) = [speculative_map EXCEPT ![id_q[1].rd] = GivenTo(0)]
        BY <1>1, <3>1 DEF MapBefore
      <4> QED
        BY <1>2, <1>8, <3>1, <4>1 DEF p
    <3>2. CASE ~(j = 2 /\ Allocates(id_q[1]))
      <4>1. MapBefore(j) = speculative_map
        BY <1>1, <3>2 DEF MapBefore
      <4> QED
        BY <4>1 DEF p
    <3> QED
      BY <3>1, <3>2
  <2>2. /\ PlacesApart(free_q, committed_map, Metas, 0, count)
        /\ Holds(committed_map, Metas, 0, count, r, p)
    BY <1>1, <2>1 DEF RegistersKept, WellKept, MapsFollow
  <2>3. p \in Phys /\ p \notin free_q
    <3>1. p \in Phys
      BY <1>2, <2>1
    <3> QED
      BY <2>2, <3>1 DEF Holds, PlacesApart, WritesTo
  <2>4. o.ready <=> ready_q[p]
    <3>1. CASE j = 2 /\ Allocates(id_q[1])
      <4>1. ReadyBefore(j) = [ready_q EXCEPT ![GivenTo(0)] = FALSE]
        BY <1>1, <3>1 DEF ReadyBefore
      <4>2. GivenTo(1 - 1) \in Offered
        BY <1>1, <3>1, NewGiven
      <4>3. GivenTo(0) # p
        BY <2>3, <4>2 DEF Offered
      <4> QED
        BY <1>2, <1>6, <2>3, <4>1, <4>3
    <3>2. CASE ~(j = 2 /\ Allocates(id_q[1]))
      BY <1>1, <1>6, <3>2 DEF ReadyBefore
    <3> QED
      BY <3>1, <3>2
  <2>5. ready_q[p] <=> ~Unwritten(p)
    BY <1>1, <1>2, <2>3 DEF ReadyInv
  <2>6. \A i \in 1 .. k - 1 : i \in 1 .. count \/ ~WritesReg(L[i], r)
    <3> SUFFICES ASSUME NEW i \in 1 .. k - 1, i \notin 1 .. count
                 PROVE  ~WritesReg(L[i], r)
      OBVIOUS
    <3>1. i = count + 1 /\ j = 2
      BY <1>1, <1>2
    <3> QED
      BY <1>1, <1>5, <1>8, <3>1 DEF WritesReg, Allocates, EndsBundle
  <2>7. 1 .. count \subseteq 1 .. k - 1
    BY <1>1, <1>2
  <2>8. CASE p = committed_map[r] /\ \A i \in 1 .. count : ~WritesReg(Window[i], r)
    <3>1. ~Unwritten(p)
      <4>1. \A i \in 1 .. count : Window[i].meta.pdst = p => p = 0
        <5>1. \A i \in 1 .. count : i \in 0 + 1 .. count
          BY <1>2
        <5> QED
          BY <1>3, <2>2, <2>8, <5>1 DEF PlacesApart
      <4> QED
        BY <4>1 DEF Unwritten
    <3>2. Before(L, Committed, k, r, registers[p])
      BY <1>3, <1>4, <2>6, <2>8 DEF Before, L
    <3> QED
      BY <1>6, <2>4, <2>5, <3>1, <3>2 DEF Supplied, L
  <2>9. ASSUME NEW i \in 1 .. count, WritesReg(Window[i], r), p = Window[i].meta.pdst, p # 0,
               \A h \in i + 1 .. count : ~WritesReg(Window[h], r)
        PROVE  Supplied(L, Committed, k, r, o)
    <3>1. i \in 1 .. k - 1 /\ L[i] = Window[i]
      BY <1>3, <2>7 DEF L
    <3>2. \A h \in i + 1 .. k - 1 : ~WritesReg(L[h], r)
      <4> SUFFICES ASSUME NEW h \in i + 1 .. k - 1
                   PROVE  ~WritesReg(L[h], r)
        OBVIOUS
      <4>1. h \in 1 .. k - 1 /\ (h \in 1 .. count => h \in i + 1 .. count)
        BY <1>2
      <4> QED
        BY <1>3, <2>6, <2>9, <4>1 DEF L
    <3>3. CASE Window[i].done
      <4>1. ~Unwritten(p)
        BY <1>1, <2>9, <3>3, OneOwner DEF Unwritten
      <4>2. registers[p] = Window[i].value
        BY <1>1, <2>9, <3>3 DEF Written
      <4>3. Before(L, Committed, k, r, registers[p])
        BY <2>9, <3>1, <3>2, <3>3, <4>2 DEF Before
      <4> QED
        BY <1>6, <2>4, <2>5, <4>1, <4>3 DEF Supplied
    <3>4. CASE ~Window[i].done
      <4>1. Unwritten(p)
        BY <2>9, <3>4 DEF Unwritten
      <4>2. Awaits(L, k, r, o.tag)
        BY <1>6, <2>9, <3>1, <3>2, <3>4 DEF Awaits
      <4> QED
        BY <2>4, <2>5, <4>1, <4>2 DEF Supplied
    <3> QED
      BY <3>3, <3>4
  <2>10. \/ p = committed_map[r] /\ \A i \in 1 .. count : ~WritesReg(Window[i], r)
         \/ \E i \in 1 .. count : /\ WritesReg(Window[i], r) /\ p = Window[i].meta.pdst /\ p # 0
                                  /\ \A h \in i + 1 .. count : ~WritesReg(Window[h], r)
    <3>1. 0 + 1 = 1
      OBVIOUS
    <3>2. CASE p = committed_map[r] /\ \A i \in 1 .. count : ~WritesTo(Metas[i], r)
      BY <1>3, <3>2
    <3>3. ASSUME NEW i \in 1 .. count, WritesTo(Metas[i], r), p = Metas[i].pdst,
                 \A h \in 1 .. count : WritesTo(Metas[h], r) => h <= i
          PROVE  /\ WritesReg(Window[i], r) /\ p = Window[i].meta.pdst /\ p # 0
                 /\ \A h \in i + 1 .. count : ~WritesReg(Window[h], r)
      <4>1. WritesReg(Window[i], r) /\ p = Window[i].meta.pdst /\ p # 0
        BY <1>3, <3>3 DEF WritesTo
      <4>2. \A h \in i + 1 .. count : h \in 1 .. count /\ ~(h <= i)
        BY <1>2
      <4> QED
        BY <1>3, <3>3, <4>1, <4>2
    <3> QED
      BY <2>2, <3>1, <3>2, <3>3 DEF Holds
  <2> QED
    BY <2>8, <2>9, <2>10 DEF L
<1> QED
  BY <1>7, <1>8

(* The same in order, from the busy bits and the completion queue.         *)
LEMMA SelectedSupplied ==
  ASSUME Base, Written, ~OUT_OF_ORDER, NEW w, NEW d, NEW chosen, EdgeHolds(w, d, chosen),
         NEW j \in 1 .. d.n, NEW r \in Arch, NEW o,
         o = SelectOperand(r, WrittenBefore(j), rob, registers),
         NEW k, k = count + j
  PROVE  Supplied(Line(d), Committed, k, r, o)
<1>1. /\ TypesInv /\ WindowInv /\ WindowFull /\ BusyInv /\ InorderNamed
      /\ dispatch_data[1] = id_q[1] /\ 1 \in 1 .. d.n /\ count \in Nat
      /\ \A i \in 1 .. count : ~Window[i].serial
      /\ j = 1 \/ (j = 2 /\ d.n = 2 /\ ~id_q[1].terminal /\ ~id_q[1].serial)
  <2>1. 1 \in 1 .. d.n
    <3>1. d.n \in 0 .. 2
      BY LineIs
    <3> QED
      BY <3>1
  <2> QED
    BY <2>1, BaseIs, PlainBefore, LineIs
<1> DEFINE L == Line(d)
           entry == rob[producer[r]]
           earlier == WrittenBefore(j)
<1>2. Committed[r] = registers[r] /\ \A i \in 1 .. count : L[i] = Window[i]
  BY LineIs DEF Committed
<1>3. j = 2 => /\ L[count + 1] = NewEntry(d, 1) /\ NewEntry(d, 1).meta.rd = id_q[1].rd
               /\ NewEntry(d, 1).done = (id_q[1].terminal \/ id_q[1].serial)
               /\ NewEntry(d, 1).meta.pdst = Destination(1)
  BY <1>1, LineIs, NewEntryIs
<1>4. r \in earlier <=> j = 2 /\ id_q[1].rd = r /\ r # 0
  BY <1>1 DEF WrittenBefore, WrittenBy
<1>5. IF r = 0 THEN o.ready /\ o.value = 0
      ELSE /\ o.ready <=> \/ ~(r \in busy \/ r \in earlier)
                          \/ entry # Empty /\ entry.done /\ ~(r \in earlier)
           /\ o.tag = r
           /\ o.value = IF ~(r \in busy \/ r \in earlier) THEN registers[r]
                        ELSE IF entry # Empty THEN entry.value ELSE 0
  <2> HIDE DEF entry, earlier
  <2> DEFINE f == \/ ~(r \in busy \/ r \in earlier)
                  \/ entry # Empty /\ entry.done /\ ~(r \in earlier)
             v == IF ~(r \in busy \/ r \in earlier) THEN registers[r]
                  ELSE IF entry # Empty THEN entry.value ELSE 0
  <2>1. o = IF r = 0 THEN [ready |-> TRUE, tag |-> 0, value |-> 0]
            ELSE [tag |-> r, ready |-> f, value |-> v]
    BY DEF SelectOperand, entry, earlier
  <2>2. f \in BOOLEAN
    OBVIOUS
  <2> HIDE DEF f, v
  <2>3. IF r = 0 THEN o.ready /\ o.value = 0 ELSE (o.ready <=> f) /\ o.tag = r /\ o.value = v
    BY <2>1, <2>2
  <2> QED
    BY <2>3 DEF f, v
<1> HIDE DEF L, entry, earlier
<1>6. CASE r = 0
  <2>1. o.ready /\ o.value = 0
    BY <1>5, <1>6
  <2>2. Before(L, Committed, k, r, 0)
    BY <1>2, <1>6 DEF Before, WritesReg, Written
  <2> QED
    BY <2>1, <2>2 DEF Supplied, L
<1>7. CASE r # 0 /\ r \in earlier
  <2>1. ~o.ready /\ o.tag = r
    BY <1>5, <1>7
  <2>2. WritesReg(L[count + 1], r) /\ ~L[count + 1].done /\ L[count + 1].meta.pdst = r
    <3>1. Destination(1) = id_q[1].rd /\ ~id_q[1].terminal /\ ~id_q[1].serial
      BY <1>1, <1>4, <1>7 DEF Destination
    <3> QED
      BY <1>3, <1>4, <1>7, <3>1 DEF WritesReg
  <2>3. count + 1 \in 1 .. k - 1 /\ \A i \in (count + 1) + 1 .. k - 1 : FALSE
    BY <1>1, <1>4, <1>7
  <2> QED
    BY <2>1, <2>2, <2>3 DEF Supplied, Awaits, L
<1>8. CASE r # 0 /\ r \notin earlier
  <2>1. \A i \in 1 .. k - 1 : i \in 1 .. count \/ ~WritesReg(L[i], r)
    <3> SUFFICES ASSUME NEW i \in 1 .. k - 1, i \notin 1 .. count
                 PROVE  ~WritesReg(L[i], r)
      OBVIOUS
    <3>1. i = count + 1 /\ j = 2
      BY <1>1
    <3> QED
      BY <1>3, <1>4, <1>8, <3>1 DEF WritesReg
  <2>2. \A i \in 1 .. count : i \in 1 .. k - 1 /\ (WriterAt(i, r) <=> WritesReg(L[i], r))
    BY <1>1, <1>2, <1>8 DEF WriterAt, WritesReg
  <2>3. BusyOf(r)
    BY <1>1, <1>8 DEF BusyInv
  <2>4. CASE r \notin busy
    <3>1. o.ready /\ o.value = registers[r]
      BY <1>5, <1>8, <2>4
    <3>2. \A i \in 1 .. k - 1 : ~WritesReg(L[i], r)
      BY <2>1, <2>2, <2>3, <2>4 DEF BusyOf
    <3>3. Before(L, Committed, k, r, registers[r])
      BY <1>2, <3>2 DEF Before
    <3> QED
      BY <3>1, <3>3 DEF Supplied, L
  <2>5. CASE r \in busy
    <3>1. PICK i \in 1 .. count : WriterAt(i, r) /\ producer[r] = Window[i].meta.tag
      BY <2>3, <2>5 DEF BusyOf
    <3>2. entry = Window[i] /\ Window[i] # Empty
      BY <1>1, <3>1, WindowIs DEF entry
    <3>3. o.ready = Window[i].done /\ o.tag = r /\ o.value = Window[i].value
      <4>1. Window[i].done \in BOOLEAN /\ o.ready \in BOOLEAN
        <5>1. Window[i] \in rob_entry_t
          BY <1>1, WindowIs
        <5>2. o \in operand_t
          BY <1>1, BaseIs, SelectOperandType
        <5> QED
          BY <5>1, <5>2 DEF rob_entry_t, operand_t
      <4> QED
        BY <1>5, <1>8, <2>5, <3>2, <4>1
    <3>4. WritesReg(L[i], r) /\ i \in 1 .. k - 1 /\ L[i] = Window[i] /\ Window[i].meta.pdst = r
      BY <1>1, <1>2, <2>2, <3>1 DEF InorderNamed, WriterAt
    <3>5. \A h \in i + 1 .. k - 1 : ~WritesReg(L[h], r)
      <4> SUFFICES ASSUME NEW h \in i + 1 .. k - 1, WritesReg(L[h], r)
                   PROVE  FALSE
        OBVIOUS
      <4>1. h \in 1 .. k - 1 /\ h # i
        BY <1>1
      <4>2. h \in 1 .. count /\ WriterAt(h, r)
        BY <2>1, <2>2, <4>1
      <4> QED
        BY <2>3, <3>1, <4>1, <4>2 DEF BusyOf
    <3> QED
      BY <3>3, <3>4, <3>5 DEF Supplied, Before, Awaits, L
  <2> QED
    BY <2>4, <2>5
<1> QED
  BY <1>6, <1>7, <1>8

-----------------------------------------------------------------------------
(* The multiply and divide unit in the pipeline, whose user is the issue   *)
(* registers.                                                              *)
MdOffers == {x \in execute_t : is_muldiv(x.op)}
MdUnit == INSTANCE MulDivUnitProofs WITH
  offered <- UnitInput(Started, MULDIV), Requests <- MdOffers, Following <- MdOffers

(* The types of the instance are the pipeline's.                           *)
LEMMA MdSame ==
  /\ MdUnit!execute_t = execute_t /\ MdUnit!result_t = result_t
  /\ MdUnit!WordModulus = WordModulus /\ MdUnit!Word = Word
  /\ \A op : MdUnit!is_muldiv(op) <=> is_muldiv(op)
<1>1. MdUnit!WordModulus = WordModulus /\ MdUnit!Word = Word
  BY DEF MdUnit!WordModulus, WordModulus, MdUnit!Word, Word
<1>2. MdUnit!RobTag = RobTag /\ MdUnit!Phys = Phys /\ MdUnit!Arch = Arch
  BY DEF MdUnit!RobTag, RobTag, MdUnit!Phys, Phys, MdUnit!Arch, Arch
<1>3. MdUnit!MulOps = MulOps /\ MdUnit!DivOps = DivOps /\ MdUnit!op_t = op_t
  BY DEF MdUnit!MulOps, MulOps, MdUnit!DivOps, DivOps, MdUnit!op_t, op_t, MdUnit!BranchOps,
         BranchOps, MdUnit!IntegerOps, IntegerOps
<1>4. MdUnit!meta_t = meta_t
  BY <1>1, <1>2 DEF MdUnit!meta_t, meta_t
<1>5. MdUnit!branch_result_t = branch_result_t
  BY <1>1 DEF MdUnit!branch_result_t, branch_result_t, MdUnit!FAULT_NONE, FAULT_NONE,
     MdUnit!FAULT_MISALIGNED, FAULT_MISALIGNED
<1>6. MdUnit!execute_t = execute_t
  BY <1>1, <1>3, <1>4 DEF MdUnit!execute_t, execute_t
<1>7. MdUnit!result_t = result_t
  BY <1>1, <1>4, <1>5 DEF MdUnit!result_t, result_t
<1> QED
  BY <1>1, <1>3, <1>6, <1>7 DEF MdUnit!is_muldiv, is_muldiv

(* The assumptions of the unit hold of its user.                           *)
LEMMA MdConstants == MdUnit!FollowingAssumption /\ MdUnit!RequestsAssumption
  BY MdSame DEF MdUnit!FollowingAssumption, MdUnit!RequestsAssumption, MdOffers

(* What it is offered.                                                     *)
OfferedFits ==
  LET x == UnitInput(Started, MULDIV)
  IN x \in MdOffers \cup {Empty} /\ (x # Empty => md_in_ready(result_ready(MULDIV)))

(* An operation of the unit's kind, when it is ready for one.              *)
LEMMA OfferedIs == ExecutionTypes => OfferedFits
  BY UnitInputIs DEF OfferedFits, MdOffers, Unit, MULDIV, unit_ready

(* The types of the unit in the core are those of the unit by itself.      *)
LEMMA SameUnit ==
  MdTypes <=> MdUnit!MdTypes
<1>1. MdRegisters = MdUnit!MdRegisters
  BY MdSame DEF MdRegisters, MdUnit!MdRegisters
<1> QED
  BY <1>1, MdSame DEF MdTypes, MdUnit!MdTypes

(* The unit by itself has the constants of the core, and so its            *)
(* assumptions.                                                            *)
LEMMA MdAssumptions ==
  /\ MdUnit!ConfigurationAssumption /\ MdUnit!Tiny5Assumption /\ MdUnit!PowerAssumption
  /\ MdUnit!EmptyAssumption /\ MdUnit!TrapsAssumption
<1>1. MdUnit!meta_t = meta_t /\ MdUnit!op_t = op_t /\ MdUnit!operand_t = operand_t
  BY MdSame DEF MdUnit!meta_t, meta_t, MdUnit!op_t, op_t, MdUnit!operand_t, operand_t,
     MdUnit!RobTag, RobTag, MdUnit!Phys, Phys, MdUnit!Arch, Arch, MdUnit!MulOps, MulOps,
     MdUnit!DivOps, DivOps, MdUnit!BranchOps, BranchOps, MdUnit!IntegerOps, IntegerOps
<1>2. MdUnit!issue_t = issue_t
  BY <1>1, MdSame DEF MdUnit!issue_t, issue_t
<1> QED
  BY <1>2, MdSame, ConfigurationAssumption, Tiny5Assumption, PowerAssumption, EmptyAssumption, TrapsAssumption
  DEF MdUnit!TrapsAssumption, MdUnit!ConfigurationAssumption, MdUnit!Tiny5Assumption, MdUnit!PowerAssumption, MdUnit!EmptyAssumption

(* Both describe one unit: the same edge and the same answer.              *)
LEMMA MdTickSame ==
  ASSUME NEW flush, NEW x, NEW r
  PROVE  /\ MdTick(flush, x, r) <=> MdUnit!MdTick(flush, x, r)
         /\ MdUnit!final_value = final_value
<1>1. \A v : MdUnit!Negate(v) = Negate(v) /\ (MdUnit!Negative(v) <=> Negative(v))
  BY MdSame DEF MdUnit!Negate, Negate, MdUnit!Negative, Negative, MdUnit!Bit, Bit
<1>2. \A v : (MdUnit!SignedA(v) <=> SignedA(v)) /\ (MdUnit!SignedB(v) <=> SignedB(v))
  BY <1>1 DEF MdUnit!SignedA, SignedA, MdUnit!SignedB, SignedB
<1>3. MdUnit!Accept(x) = Accept(x)
  BY <1>1, <1>2 DEF MdUnit!Accept, Accept, MdUnit!SignedA, SignedA, MdUnit!SignedB, SignedB
<1>4. MdUnit!MultiplyStep = MultiplyStep
  BY MdSame DEF MdUnit!MultiplyStep, MultiplyStep
<1>5. MdUnit!DivideStep = DivideStep
  BY MdSame DEF MdUnit!DivideStep, DivideStep, MdUnit!Fits, Fits, MdUnit!Bit, Bit
<1>6. MdUnit!MulOps = MulOps /\ MdUnit!DivOps = DivOps /\ MdUnit!NoBranch = NoBranch
  BY DEF MdUnit!MulOps, MulOps, MdUnit!DivOps, DivOps, MdUnit!NoBranch, NoBranch,
     MdUnit!FAULT_NONE, FAULT_NONE
<1>7. MdUnit!final_value = final_value
  BY <1>1, <1>6, MdSame DEF MdUnit!final_value, final_value
<1>8. MdUnit!Complete = Complete
  BY <1>6, <1>7 DEF MdUnit!Complete, Complete
<1>9. MdUnit!MdReset = MdReset /\ (MdUnit!md_in_ready(r) <=> md_in_ready(r))
  BY DEF MdUnit!MdReset, MdReset, MdUnit!md_in_ready, md_in_ready
<1> QED
  BY <1>3, <1>4, <1>5, <1>6, <1>7, <1>8, <1>9 DEF MdUnit!MdTick, MdTick, MdUnit!MdEdge, MdEdge

(* The invariant of the unit, in the pipeline.                             *)
UnitHolds == MdUnit!UnitInv

(* It holds of a cleared unit.                                             *)
LEMMA UnitHoldsIdle ==
  TypesInv /\ Cleared => UnitHolds
<1>1. TypesInv => ExecutionTypes
  BY DEF TypesInv, TypeOK
<1>2. ExecutionTypes => MdUnit!MdTypes
  BY SameUnit DEF ExecutionTypes
<1>3. ExecutionTypes => MdUnit!OfferedTypes
  BY OfferedIs, MdSame, EmptyAssumption DEF MdUnit!OfferedTypes, MdOffers, OfferedFits
<1>4. Cleared => ~md.busy
  BY DEF Cleared
<1> QED
  BY <1>1, <1>2, <1>3, <1>4 DEF UnitHolds, MdUnit!UnitInv, MdUnit!ResultTaken, MdUnit!SignsKept, MdUnit!IterationExact

(* And an edge keeps it.                                                   *)
LEMMA UnitHoldsEdge ==
  ASSUME UnitHolds, TypesInv, TypesInv', NEW flush \in BOOLEAN,
         MdTick(flush, UnitInput(Started, MULDIV), result_ready(MULDIV))
  PROVE  UnitHolds'
<1> DEFINE x == UnitInput(Started, MULDIV)
           r == result_ready(MULDIV)
<1>1. ExecutionTypes /\ ExecutionTypes'
  BY DEF TypesInv, TypeOK
<1>2. x \in MdOffers \cup {Empty} /\ (x # Empty => md_in_ready(r))
  BY <1>1, OfferedIs DEF OfferedFits
<1>a. OfferedFits'
  BY <1>1, OfferedIs, PTL
<1>3. x' \in MdOffers \cup {Empty}
  BY <1>a DEF OfferedFits
<1>4. r \in BOOLEAN
  BY DEF result_ready
<1>5. MdUnit!MdTick(flush, x, r)
  BY MdTickSame
<1>6. MdUnit!md_in_ready(r) <=> md_in_ready(r)
  BY DEF MdUnit!md_in_ready, md_in_ready
<1> HIDE DEF x, r
<1>7. MdUnit!Edge(flush, r)
  BY <1>2, <1>3, <1>5, <1>6 DEF MdUnit!Edge, x
<1>8. MdUnit!UnitNext
  BY <1>4, <1>7 DEF MdUnit!UnitNext
<1>9. MdUnit!UnitInv /\ [MdUnit!UnitNext]_MdUnit!unitVars => MdUnit!UnitInv'
  BY MdUnit!UnitInvStep, MdAssumptions, MdConstants
<1> QED
  BY <1>8, <1>9 DEF UnitHolds

-----------------------------------------------------------------------------
(* The code at every address is a decoded word.                            *)
LEMMA CodeType ==
  ASSUME MemoryTypes, NEW a \in Word
  PROVE  FetchedAt(a) \in fetch_t /\ CodeAt(a) \in decode_t
<1>1. program \in Seq(instruction_t)
  BY DEF MemoryTypes
<1>2. FetchedAt(a) \in fetch_t
  <2>1. a \in Nat
    BY WordSize DEF Word
  <2> DEFINE n == Len(program)
  <2>2. n \in Nat
    BY <1>1
  <2> HIDE DEF n
  <2> DEFINE q == a \div 4
             m == a % 4
  <2>3. q \in Nat /\ m \in 0 .. 3 /\ a = 4 * q + m
    BY <2>1
  <2> HIDE DEF q, m
  <2>4. m = 0 /\ ~(a > 4 * n) /\ a # 4 * n => q + 1 \in 1 .. n
    BY <2>2, <2>3
  <2>5. m = 0 /\ ~(a > 4 * n) /\ a # 4 * n => program[q + 1] \in instruction_t
    BY <1>1, <2>4 DEF n
  <2> QED
    BY <2>5 DEF FetchedAt, Memory!ReadWord, fetch_t, n, q, m
<1> QED
  BY <1>2, DecodeType DEF CodeAt

(* What an instruction D computes from a and b.                            *)
Computed(op, a, b) ==
  IF is_muldiv(op) THEN MdUnit!MulDivValue(op, a, b) ELSE IntegerValue(op, a, b)
Outcome(D, m, a, b) ==
  [meta |-> m, value |-> IF m.rd = 0 THEN 0 ELSE Computed(D.op, a, b),
   branch |-> AluResult([meta |-> m, op |-> D.op, a |-> a, b |-> b,
                         branch_offset |-> D.immediate]).branch]

(* The inputs of the instruction D at place k after the instructions V and *)
(* the registers x, as values, as operands that may still be awaited, and  *)
(* in the result it gives.                                                 *)
InputsAre(D, V, x, k, a, b) ==
  /\ Before(V, x, k, D.rs1, a)
  /\ IF D.immediate_b THEN b = D.immediate ELSE Before(V, x, k, D.rs2, b)
OperandsAre(D, V, x, k, q) ==
  /\ Supplied(V, x, k, D.rs1, q.a)
  /\ IF D.immediate_b THEN q.b.ready /\ q.b.value = D.immediate ELSE Supplied(V, x, k, D.rs2, q.b)
ExactAs(D, V, x, k, r) ==
  \E a, b \in Word : InputsAre(D, V, x, k, a, b) /\ r = Outcome(D, r.meta, a, b)

(* All of them depend on the instructions before place k only.             *)
LEMMA BeforePrefix ==
  ASSUME NEW V, NEW W, NEW x, NEW k \in Nat, \A j \in 1 .. k - 1 : V[j] = W[j], NEW r
  PROVE  /\ \A v : Before(V, x, k, r, v) => Before(W, x, k, r, v)
         /\ \A p : Awaits(V, k, r, p) => Awaits(W, k, r, p)
         /\ \A o : Supplied(V, x, k, r, o) => Supplied(W, x, k, r, o)
<1>1. \A j \in 1 .. k - 1 : \A i \in j + 1 .. k - 1 : i \in 1 .. k - 1
  OBVIOUS
<1>2. \A v : Before(V, x, k, r, v) => Before(W, x, k, r, v)
  BY <1>1 DEF Before, WritesReg
<1>3. \A p : Awaits(V, k, r, p) => Awaits(W, k, r, p)
  BY <1>1 DEF Awaits, WritesReg
<1> QED
  BY <1>2, <1>3 DEF Supplied

(* And the same of an instruction's inputs.                                *)
LEMMA InputsPrefix ==
  ASSUME NEW V, NEW W, NEW x, NEW k \in Nat, \A j \in 1 .. k - 1 : V[j] = W[j], NEW D
  PROVE  /\ \A a, b : InputsAre(D, V, x, k, a, b) => InputsAre(D, W, x, k, a, b)
         /\ \A q : OperandsAre(D, V, x, k, q) => OperandsAre(D, W, x, k, q)
         /\ \A r : ExactAs(D, V, x, k, r) => ExactAs(D, W, x, k, r)
<1>1. \A r, v : Before(V, x, k, r, v) => Before(W, x, k, r, v)
  BY BeforePrefix
<1>2. \A r, o : Supplied(V, x, k, r, o) => Supplied(W, x, k, r, o)
  BY BeforePrefix
<1>3. \A a, b : InputsAre(D, V, x, k, a, b) => InputsAre(D, W, x, k, a, b)
  BY <1>1 DEF InputsAre
<1> QED
  BY <1>2, <1>3 DEF OperandsAre, ExactAs

(* Operands that are ready are the inputs.                                 *)
LEMMA ReadyInputs ==
  ASSUME NEW D, NEW V, NEW x, NEW k, NEW q, OperandsAre(D, V, x, k, q), q.a.ready, q.b.ready
  PROVE  InputsAre(D, V, x, k, q.a.value, q.b.value)
BY DEF OperandsAre, InputsAre, Supplied

(* An edge that does not flush keeps the inputs of every instruction it    *)
(* does not retire, and wakes its operands.                                *)
LEMMA InputsMove ==
  ASSUME Base, Written, NEW w, NEW d, NEW chosen, EdgeHolds(w, d, chosen), ~w.backend_flush,
         NEW k \in 1 .. count + d.n, k > w.retiring, NEW n, n = k - w.retiring,
         NEW D \in decode_t
  PROVE  /\ \A a, b : InputsAre(D, Line(d), Committed, k, a, b)
                        => InputsAre(D, Window', Committed', n, a, b)
         /\ \A r : ExactAs(D, Line(d), Committed, k, r) => ExactAs(D, Window', Committed', n, r)
         /\ \A q \in issue_t : OperandsAre(D, Line(d), Committed, k, q)
                        => OperandsAre(D, Window', Committed', n, Woke(q, w.completions))
<1>1. D.rs1 \in Arch /\ D.rs2 \in Arch
  BY DEF decode_t
<1>2. \A r \in Arch : \A v : Before(Line(d), Committed, k, r, v) => Before(Window', Committed', n, r, v)
  BY BeforeMoves
<1>3. \A a, b : InputsAre(D, Line(d), Committed, k, a, b) => InputsAre(D, Window', Committed', n, a, b)
  BY <1>1, <1>2 DEF InputsAre
<1>4. \A r \in Arch : \A o \in operand_t :
        Supplied(Line(d), Committed, k, r, o) => Supplied(Window', Committed', n, r, WokenOperand(o, w.completions))
  BY SuppliedMoves
<1>5. ASSUME NEW q \in issue_t, OperandsAre(D, Line(d), Committed, k, q)
      PROVE  OperandsAre(D, Window', Committed', n, Woke(q, w.completions))
  <2> DEFINE u == Woke(q, w.completions)
  <2>1. u.a = WokenOperand(q.a, w.completions) /\ u.b = WokenOperand(q.b, w.completions)
    BY WokeOp
  <2>2. q.a \in operand_t /\ q.b \in operand_t
    BY DEF issue_t
  <2>3. Supplied(Window', Committed', n, D.rs1, u.a)
    BY <1>1, <1>4, <1>5, <2>1, <2>2 DEF OperandsAre
  <2>4. q.b.ready => u.b = q.b
    BY <2>1 DEF WokenOperand
  <2>5. IF D.immediate_b THEN u.b.ready /\ u.b.value = D.immediate
        ELSE Supplied(Window', Committed', n, D.rs2, u.b)
    BY <1>1, <1>4, <1>5, <2>1, <2>2, <2>4 DEF OperandsAre
  <2> HIDE DEF u
  <2> QED
    BY <2>3, <2>5 DEF OperandsAre, u
<1> QED
  BY <1>3, <1>5 DEF ExactAs

-----------------------------------------------------------------------------
(* The integer unit gives the outcome of the instruction on its inputs.    *)
LEMMA AluOutcome ==
  ASSUME NEW x \in execute_t, ~is_muldiv(x.op), OpTrue(x)
  PROVE  AluResult(x) = Outcome(CodeAt(x.meta.pc), x.meta, x.a, x.b)
<1> DEFINE D == CodeAt(x.meta.pc)
           y == [meta |-> x.meta, op |-> D.op, a |-> x.a, b |-> x.b, branch_offset |-> D.immediate]
<1>1. D.op = x.op /\ D.immediate = x.branch_offset
  BY DEF OpTrue
<1> HIDE DEF D
<1>2. x = y
  BY <1>1 DEF execute_t
<1>3. Computed(D.op, x.a, x.b) = IntegerValue(x.op, x.a, x.b)
  BY <1>1 DEF Computed
<1> HIDE DEF y
<1>4. AluResult(x) = [meta |-> x.meta, value |-> IF x.meta.rd = 0 THEN 0 ELSE IntegerValue(x.op, x.a, x.b),
                      branch |-> AluResult(x).branch]
  BY DEF AluResult
<1>5. AluResult(x) = [meta |-> x.meta, value |-> IF x.meta.rd = 0 THEN 0 ELSE Computed(D.op, x.a, x.b),
                      branch |-> AluResult(y).branch]
  BY <1>2, <1>3, <1>4
<1> QED
  BY <1>5 DEF Outcome, y, D

(* So does the multiply and divide unit, when its iterations are done.     *)
LEMMA MulDivOutcome ==
  ASSUME TypesInv, UnitHolds, md.busy, md.step = XLEN, OpTrue(md.request)
  PROVE  Complete.out = Outcome(CodeAt(md.request.meta.pc), md.request.meta, md.request.a, md.request.b)
<1> DEFINE x == md.request
           D == CodeAt(x.meta.pc)
           y == [meta |-> x.meta, op |-> D.op, a |-> x.a, b |-> x.b, branch_offset |-> D.immediate]
<1>1. md \in MdRegisters /\ x \in execute_t /\ is_muldiv(x.op) /\ D.op = x.op
  BY DEF TypesInv, TypeOK, ExecutionTypes, MdTypes, OpTrue
<1>2. MdUnit!final_value = IF x.meta.rd = 0 THEN 0 ELSE MdUnit!MulDivValue(x.op, x.a, x.b)
  <2>1. MdUnit!UnitInv
    BY DEF UnitHolds
  <2> QED
    BY <2>1, MdUnit!FinalValueExact, MdAssumptions, MdConstants
<1>3. MdUnit!final_value = final_value
  BY MdTickSame
<1>4. Complete.out = [meta |-> x.meta, value |-> final_value, branch |-> NoBranch]
  BY <1>1 DEF Complete, MdRegisters
<1>5. ~is_branch(x.op)
  BY <1>1 DEF is_muldiv, is_branch, MulOps, DivOps, BranchOps
<1>6. AluResult(y).branch = NoBranch
  BY <1>1, <1>5 DEF AluResult
<1>7. Computed(D.op, x.a, x.b) = MdUnit!MulDivValue(x.op, x.a, x.b)
  BY <1>1 DEF Computed
<1> HIDE DEF x, D, y
<1>8. Complete.out = [meta |-> x.meta, value |-> IF x.meta.rd = 0 THEN 0 ELSE Computed(D.op, x.a, x.b),
                      branch |-> AluResult(y).branch]
  BY <1>2, <1>3, <1>4, <1>6, <1>7
<1> QED
  BY <1>8 DEF Outcome, x, D, y

-----------------------------------------------------------------------------
(* The place of an instruction in the window.                              *)
Place(m) == Distance(m.tag) + 1

(* An instruction in flight is an entry that is not done, and moves with   *)
(* the window.                                                             *)
LEMMA FlightPlace ==
  ASSUME Base, NEW w, NEW d, NEW chosen, EdgeHolds(w, d, chosen), ~w.backend_flush,
         NEW b \in InFlight, NEW k, k = Place(b[3])
  PROVE  /\ k \in 1 .. count /\ Window[k].meta = b[3] /\ ~Window[k].done
         /\ k > w.retiring /\ Place(b[3])' = k - w.retiring
<1> DEFINE t == b[3].tag
<1>1. t \in RobTag /\ rob[t] # Empty /\ ~rob[t].done /\ rob[t].meta = b[3]
  BY PlaceKept, BaseIs
<1>2. Distance(t) + 1 \in 1 .. count /\ Window[Distance(t) + 1] = rob[t]
  BY <1>1, BaseIs, WindowIs
<1>3. /\ w.retiring \in 0 .. 2 /\ w.retiring <= count /\ count \in 0 .. RobDepth
      /\ w.retiring <= Distance(t) => Distance(t)' = Distance(t) - w.retiring
  BY <1>1, Moved, BaseIs
<1>4. WiresHold(w)
  BY DEF EdgeHolds
<1>5. \A i \in 1 .. w.retiring : Window[i].done
  BY <1>4, Retires, BaseIs
<1> HIDE DEF t
<1>6. k = Distance(t) + 1 /\ Place(b[3])' = Distance(t)' + 1
  BY DEF Place, t
<1>7. k \in 1 .. count /\ Window[k] = rob[t] /\ ~Window[k].done
  BY <1>1, <1>2, <1>6
<1>8. RobDepth \in Nat
  BY Tiny5Assumption
<1>9. k \in Int /\ k >= 1 /\ k > w.retiring
  BY <1>3, <1>5, <1>7, <1>8
<1>10. Distance(t)' = Distance(t) - w.retiring /\ Distance(t) = k - 1
  <2>1. Distance(t) \in Int
    BY <1>1, Moved, BaseIs, Tiny5Assumption DEF Distance, RobTag
  <2> QED
    BY <1>3, <1>6, <1>9, <2>1
<1> QED
  BY <1>1, <1>3, <1>6, <1>7, <1>9, <1>10

(* A dispatched instruction takes the next place.                          *)
LEMMA DispatchPlace ==
  ASSUME Base, NEW w, NEW d, NEW chosen, EdgeHolds(w, d, chosen), ~w.backend_flush,
         NEW j \in 1 .. d.n, NEW m, m = d.prepared[j].meta
  PROVE  /\ Place(m) = count + j /\ Place(m)' = count + j - w.retiring
         /\ m.pc = id_q[j].pc
<1> DEFINE t == m.tag
<1>1. t \in RobTag /\ Distance(t) = count + j - 1
  BY PlaceNew, BaseIs
<1>2. /\ w.retiring \in 0 .. 2 /\ w.retiring <= count /\ count \in 0 .. RobDepth
      /\ w.retiring <= Distance(t) => Distance(t)' = Distance(t) - w.retiring /\ d.n \in 0 .. 2
  BY <1>1, Moved, BaseIs
<1>3. RobDepth \in Nat /\ d.n \in 0 .. 2
  BY Tiny5Assumption, Moved, BaseIs
<1>4. Place(m) = Distance(t) + 1 /\ Place(m)' = Distance(t)' + 1
  BY DEF Place
<1> HIDE DEF t
<1>5. m.pc = id_q[j].pc
  <2>1. DispatchFacts(w, d)
    BY DEF EdgeHolds
  <2>2. d.prepared[j] = PreparedAs(j)
    BY <2>1, PreparedIs
  <2>3. \A e, a, f, r, p, g : Renamed(e, a, f, r, p, g).meta.pc = e.pc
    BY DEF Renamed
  <2>4. \A e, a, f, r, g : InorderPrepared(e, a, f, r, g).meta.pc = e.pc
    BY DEF InorderPrepared
  <2> QED
    BY <2>2, <2>3, <2>4 DEF PreparedAs
<1> QED
  BY <1>1, <1>2, <1>3, <1>4, <1>5
(* A dispatched instruction has operands that supply its inputs.           *)
LEMMA DispatchOperands ==
  ASSUME Base, FrontTrue, Written, NEW w, NEW d, NEW chosen, EdgeHolds(w, d, chosen),
         NEW j \in 1 .. d.n, NEW k, k = count + j
  PROVE  OperandsAre(CodeAt(id_q[j].pc), Line(d), Committed, k, d.prepared[j])
<1> DEFINE c == id_q[j]
           q == d.prepared[j]
<1>1. c = CodeAt(c.pc) /\ c \in decode_t
  BY NewTrue
<1>2. q = PreparedAs(j)
  BY PreparedIs DEF EdgeHolds
<1>3. c.rs1 \in Arch /\ c.rs2 \in Arch
  BY <1>1 DEF decode_t
<1>4. ASSUME NEW r \in Arch, NEW o,
             \/ /\ OUT_OF_ORDER
                /\ o = [ready |-> ReadyBefore(j)[MapBefore(j)[r]], tag |-> MapBefore(j)[r],
                        value |-> registers[MapBefore(j)[r]]]
             \/ ~OUT_OF_ORDER /\ o = SelectOperand(r, WrittenBefore(j), rob, registers)
      PROVE  Supplied(Line(d), Committed, k, r, o)
  BY <1>4, RenamedSupplied, SelectedSupplied
<1>5. CASE OUT_OF_ORDER
  <2> DEFINE Map == MapBefore(j)
             Ready == ReadyBefore(j)
             Operand(r) == [ready |-> Ready[Map[r]], tag |-> Map[r], value |-> registers[Map[r]]]
  <2>2. q = Renamed(c, allocate_tag(j - 1), Map, Ready, GivenTo(j - 1), registers)
    BY <1>2, <1>5 DEF PreparedAs
  <2>3. /\ q.a = Operand(c.rs1)
        /\ q.b = IF c.immediate_b THEN [ready |-> TRUE, tag |-> 0, value |-> c.immediate]
                 ELSE Operand(c.rs2)
    <3> HIDE DEF Map, Ready, q, c
    <3> QED
      BY <2>2 DEF Renamed
  <2>4. \A r \in Arch : Supplied(Line(d), Committed, k, r, Operand(r))
    BY <1>4, <1>5
  <2> HIDE DEF Map, Ready, Operand, q, c
  <2>5. Supplied(Line(d), Committed, k, c.rs1, q.a)
    BY <1>3, <2>3, <2>4
  <2>6. IF c.immediate_b THEN q.b.ready /\ q.b.value = c.immediate
        ELSE Supplied(Line(d), Committed, k, c.rs2, q.b)
    BY <1>3, <2>3, <2>4
  <2> QED
    BY <1>1, <2>5, <2>6 DEF OperandsAre, q, c
<1>6. CASE ~OUT_OF_ORDER
  <2> DEFINE earlier == WrittenBefore(j)
             Operand(r) == SelectOperand(r, earlier, rob, registers)
  <2>2. q = InorderPrepared(c, allocate_tag(j - 1), earlier, rob, registers)
    BY <1>2, <1>6 DEF PreparedAs
  <2>3. /\ q.a = Operand(c.rs1)
        /\ q.b = IF c.immediate_b THEN [ready |-> TRUE, tag |-> 0, value |-> c.immediate]
                 ELSE Operand(c.rs2)
    <3> HIDE DEF earlier, q, c
    <3> QED
      BY <2>2 DEF InorderPrepared
  <2>4. \A r \in Arch : Supplied(Line(d), Committed, k, r, Operand(r))
    BY <1>4, <1>6
  <2> HIDE DEF earlier, Operand, q, c
  <2>5. Supplied(Line(d), Committed, k, c.rs1, q.a)
    BY <1>3, <2>3, <2>4
  <2>6. IF c.immediate_b THEN q.b.ready /\ q.b.value = c.immediate
        ELSE Supplied(Line(d), Committed, k, c.rs2, q.b)
    BY <1>3, <2>3, <2>4
  <2> QED
    BY <1>1, <2>5, <2>6 DEF OperandsAre, q, c
<1> QED
  BY <1>5, <1>6

-----------------------------------------------------------------------------
(* The packets between dispatch and writeback carry true operands, true    *)
(* inputs and exact results.                                               *)
Waiting == {iq[s] : s \in Slot} \ {Empty}
Executing == ({ex[p] : p \in Lane} \cup {x \in {md.request} : md.busy}) \ {Empty}
Computing == ({alu[p] : p \in Lane} \cup {md.out}) \ {Empty}
Results == {wb[p] : p \in Lane} \ {Empty}

OperandsTrue(q) == OperandsAre(CodeAt(q.meta.pc), Window, Committed, Place(q.meta), q)
InputsTrue(x) == InputsAre(CodeAt(x.meta.pc), Window, Committed, Place(x.meta), x.a, x.b)
Exact(r) == ExactAs(CodeAt(r.meta.pc), Window, Committed, Place(r.meta), r)

PacketsTrue ==
  /\ \A q \in Waiting : OperandsTrue(q)
  /\ \A x \in Executing : InputsTrue(x)
  /\ \A r \in Computing \cup Results : Exact(r)

(* All of them are instructions in flight.                                 *)
LEMMA PacketFlight ==
  ASSUME Base
  PROVE  /\ \A q \in Waiting : q \in issue_t /\ \E b \in InFlight : b[1] # "wb" /\ b[3] = q.meta
         /\ \A x \in Executing : x \in execute_t /\ \E b \in InFlight : b[1] # "wb" /\ b[3] = x.meta
         /\ \A r \in Computing : r \in result_t /\ \E b \in InFlight : b[1] # "wb" /\ b[3] = r.meta
         /\ \A r \in Results : r \in result_t /\ \E b \in InFlight : b[1] = "wb" /\ b[3] = r.meta
<1>1. /\ iq \in [Slot -> issue_t \cup {Empty}]
      /\ ExecutionTypes
  BY BaseIs DEF ExecutionTypes
<1>2. ASSUME NEW q \in Waiting
      PROVE  q \in issue_t /\ \E b \in InFlight : b[1] # "wb" /\ b[3] = q.meta
  <2>1. PICK s \in Slot : q = iq[s] /\ iq[s] # Empty
    BY <1>2 DEF Waiting
  <2>2. <<"iq", s, iq[s].meta>> \in InFlight
    BY <2>1 DEF InFlight, Occupied
  <2> QED
    BY <1>1, <2>1, <2>2
<1>3. ASSUME NEW x \in Executing
      PROVE  x \in execute_t /\ \E b \in InFlight : b[1] # "wb" /\ b[3] = x.meta
  <2>1. CASE \E p \in Lane : x = ex[p]
    <3>1. PICK p \in Lane : x = ex[p] /\ ex[p] # Empty
      BY <1>3, <2>1 DEF Executing
    <3>2. <<"ex", p, ex[p].meta>> \in InFlight
      BY <3>1 DEF InFlight
    <3> QED
      BY <1>1, <3>1, <3>2 DEF ExecutionTypes
  <2>2. CASE md.busy /\ x = md.request
    <3>1. <<"md", 0, md.request.meta>> \in InFlight
      BY <2>2 DEF InFlight
    <3> QED
      BY <1>1, <2>2, <3>1 DEF ExecutionTypes, MdTypes
  <2> QED
    BY <1>3, <2>1, <2>2 DEF Executing
<1>4. ASSUME NEW r \in Computing
      PROVE  r \in result_t /\ \E b \in InFlight : b[1] # "wb" /\ b[3] = r.meta
  <2>1. CASE \E p \in Lane : r = alu[p]
    <3>1. PICK p \in Lane : r = alu[p] /\ alu[p] # Empty
      BY <1>4, <2>1 DEF Computing
    <3>2. <<"alu", p, alu[p].meta>> \in InFlight
      BY <3>1 DEF InFlight
    <3> QED
      BY <1>1, <3>1, <3>2 DEF ExecutionTypes
  <2>2. CASE r = md.out /\ md.out # Empty
    <3>1. <<"md", 1, md.out.meta>> \in InFlight
      BY <2>2 DEF InFlight
    <3> QED
      BY <1>1, <2>2, <3>1 DEF ExecutionTypes, MdTypes, MdRegisters
  <2> QED
    BY <1>4, <2>1, <2>2 DEF Computing
<1>5. ASSUME NEW r \in Results
      PROVE  r \in result_t /\ \E b \in InFlight : b[1] = "wb" /\ b[3] = r.meta
  <2>1. PICK p \in Lane : r = wb[p] /\ wb[p] # Empty
    BY <1>5 DEF Results
  <2>2. <<"wb", p, wb[p].meta>> \in InFlight
    BY <2>1 DEF InFlight
  <2> QED
    BY <1>1, <2>1, <2>2 DEF ExecutionTypes
<1> QED
  BY <1>2, <1>3, <1>4, <1>5

-----------------------------------------------------------------------------
(* An edge that does not flush keeps what is true of an instruction in     *)
(* flight.                                                                 *)
LEMMA FlightInputs ==
  ASSUME Base, Written, NEW w, NEW d, NEW chosen, EdgeHolds(w, d, chosen), ~w.backend_flush,
         NEW b \in InFlight, NEW m, m = b[3], m.pc \in Word, NEW D, D = CodeAt(m.pc),
         NEW k, k = Place(m), NEW n, n = Place(m)'
  PROVE  /\ n = k - w.retiring /\ n \in Int /\ k \in Int
         /\ \A x, y : InputsAre(D, Window, Committed, k, x, y)
                        => InputsAre(D, Window', Committed', n, x, y)
         /\ \A r : ExactAs(D, Window, Committed, k, r) => ExactAs(D, Window', Committed', n, r)
         /\ \A q \in issue_t : OperandsAre(D, Window, Committed, k, q)
                        => OperandsAre(D, Window', Committed', n, Woke(q, w.completions))
<1>1. k \in 1 .. count /\ k > w.retiring /\ n = k - w.retiring
  <2>1. Place(b[3])' = Place(b[3]) - w.retiring
    BY FlightPlace
  <2>2. Place(b[3]) \in 1 .. count /\ Place(b[3]) > w.retiring
    BY FlightPlace
  <2> QED
    BY <2>1, <2>2
<1>2. D \in decode_t
  BY CodeType, BaseIs
<1>3. /\ count \in Nat /\ w.retiring \in 0 .. 2
      /\ \A i \in 1 .. count : i \in 1 .. count + d.n /\ Line(d)[i] = Window[i]
  BY LineIs
<1>4. k \in 1 .. count + d.n /\ k \in Nat /\ n \in Int /\ \A j \in 1 .. k - 1 : Window[j] = Line(d)[j]
  BY <1>1, <1>3
<1>5. /\ \A x, y : InputsAre(D, Window, Committed, k, x, y) => InputsAre(D, Line(d), Committed, k, x, y)
      /\ \A q : OperandsAre(D, Window, Committed, k, q) => OperandsAre(D, Line(d), Committed, k, q)
      /\ \A r : ExactAs(D, Window, Committed, k, r) => ExactAs(D, Line(d), Committed, k, r)
  BY <1>4, InputsPrefix
<1>6. /\ \A x, y : InputsAre(D, Line(d), Committed, k, x, y)
                        => InputsAre(D, Window', Committed', n, x, y)
      /\ \A r : ExactAs(D, Line(d), Committed, k, r) => ExactAs(D, Window', Committed', n, r)
      /\ \A q \in issue_t : OperandsAre(D, Line(d), Committed, k, q)
                        => OperandsAre(D, Window', Committed', n, Woke(q, w.completions))
  BY <1>1, <1>2, <1>4, InputsMove
<1> QED
  BY <1>1, <1>4, <1>5, <1>6

(* What is dispatched has its operands after the edge.                     *)
LEMMA DispatchedTrue ==
  ASSUME Base, FrontTrue, Written, NEW w, NEW d, NEW chosen, EdgeHolds(w, d, chosen), ~w.backend_flush,
         NEW j \in 1 .. d.n, d.prepared[j] \in issue_t, NEW q, q = Woke(d.prepared[j], w.completions),
         program' = program
  PROVE  OperandsTrue(q)'
<1>a. PICK m : m = d.prepared[j].meta
  OBVIOUS
<1>b. Place(m)' = count + j - w.retiring /\ m.pc = id_q[j].pc
  BY <1>a, DispatchPlace
<1> DEFINE k == count + j
           n == k - w.retiring
           D == CodeAt(id_q[j].pc)
<1>1. OperandsAre(D, Line(d), Committed, k, d.prepared[j])
  BY DispatchOperands
<1>2. D \in decode_t
  BY NewTrue
<1>3. count \in Nat /\ d.n \in 0 .. 2 /\ w.retiring \in 0 .. 2 /\ w.retiring <= count
  BY LineIs
<1>4. k \in 1 .. count + d.n /\ k > w.retiring
  BY <1>3
<1>5. OperandsAre(D, Window', Committed', n, Woke(d.prepared[j], w.completions))
  BY <1>1, <1>2, <1>4, InputsMove
<1>6. q.meta = d.prepared[j].meta
  BY WokeOp
<1>7. d.prepared[j].meta.pc = id_q[j].pc
  BY <1>a, <1>b
<1>8. CodeAt(q.meta.pc)' = CodeAt(q.meta.pc)
  BY CodeStays
<1>9. Place(q.meta)' = n
  <2>1. q.meta = m
    BY <1>a, <1>6
  <2>2. Place(q.meta)' = Place(m)'
    BY <2>1
  <2>3. Place(q.meta)' = count + j - w.retiring
    BY <1>b, <2>2
  <2> QED
    BY <1>3, <2>3
<1>10. CodeAt(q.meta.pc)' = D
  BY <1>6, <1>7, <1>8
<1> HIDE DEF D, n, k
<1> QED
  BY <1>5, <1>9, <1>10 DEF OperandsTrue

(* An edge that does not flush keeps the packets true.                     *)
LEMMA PacketsTrueEdge ==
  ASSUME Base, FrontTrue, Written, OpsTrue, UnitHolds, PacketsTrue, NEW w, NEW d, NEW chosen,
         EdgeHolds(w, d, chosen), ~w.backend_flush, program' = program
  PROVE  PacketsTrue'
<1>1. PacketsMove(w, d)
  BY PacketsMoveIs
<1>2. \A a : CodeAt(a)' = CodeAt(a)
  BY CodeStays
<1>3. ASSUME NEW b \in InFlight, NEW q, q.meta = b[3], q.meta.pc \in Word, InputsTrue(q)
      PROVE  InputsTrue(q)'
  <2> DEFINE D == CodeAt(q.meta.pc)
             k == Place(q.meta)
             n == Place(q.meta)'
  <2>1. \A x, y : InputsAre(D, Window, Committed, k, x, y) => InputsAre(D, Window', Committed', n, x, y)
    BY <1>3, FlightInputs
  <2>2. CodeAt(q.meta.pc)' = D
    BY <1>2
  <2> HIDE DEF D
  <2> QED
    BY <1>3, <2>1, <2>2 DEF InputsTrue, D
<1>4. ASSUME NEW b \in InFlight, NEW r, r.meta = b[3], r.meta.pc \in Word, Exact(r)
      PROVE  Exact(r)'
  <2> DEFINE D == CodeAt(r.meta.pc)
             k == Place(r.meta)
             n == Place(r.meta)'
  <2>1. \A s : ExactAs(D, Window, Committed, k, s) => ExactAs(D, Window', Committed', n, s)
    BY <1>4, FlightInputs
  <2>2. CodeAt(r.meta.pc)' = D
    BY <1>2
  <2> HIDE DEF D
  <2> QED
    BY <1>4, <2>1, <2>2 DEF Exact, D
<1>5. ASSUME NEW b \in InFlight, NEW q \in issue_t, q.meta = b[3], OperandsTrue(q),
             NEW u, u = Woke(q, w.completions)
      PROVE  OperandsTrue(u)'
  <2> DEFINE D == CodeAt(q.meta.pc)
             k == Place(q.meta)
             n == Place(q.meta)'
  <2>1. q.meta.pc \in Word
    BY DEF issue_t, meta_t
  <2>2. OperandsAre(D, Window, Committed, k, q) => OperandsAre(D, Window', Committed', n, u)
    BY <1>5, <2>1, FlightInputs
  <2>3. u.meta = q.meta
    BY <1>5, WokeOp
  <2>4. CodeAt(u.meta.pc)' = D
    BY <1>2, <2>3
  <2>5. Place(u.meta)' = n
    BY <2>3
  <2> HIDE DEF D, n
  <2> QED
    BY <1>5, <2>2, <2>4, <2>5 DEF OperandsTrue, D
<1>6. ASSUME NEW q \in Waiting' PROVE OperandsTrue(q)'
  <2>1. PICK s \in Slot : q = iq'[s] /\ iq'[s] # Empty
    BY <1>6 DEF Waiting
  <2>2. \/ \E j \in 1 .. d.enqueued : /\ j \in 1 .. d.n /\ d.prepared[j] \in issue_t
                                      /\ q = Woke(d.prepared[j], w.completions)
        \/ iq[s] # Empty /\ iq[s] \in issue_t /\ q = Woke(iq[s], w.completions)
    BY <1>1, <2>1 DEF PacketsMove
  <2>3. CASE \E j \in 1 .. d.n : /\ d.prepared[j] \in issue_t
                                 /\ q = Woke(d.prepared[j], w.completions)
    BY <2>3, DispatchedTrue
  <2>4. CASE iq[s] # Empty /\ iq[s] \in issue_t /\ q = Woke(iq[s], w.completions)
    <3>1. iq[s] \in Waiting
      BY <2>4 DEF Waiting
    <3>2. PICK b \in InFlight : b[3] = iq[s].meta
      BY <3>1, PacketFlight
    <3> QED
      BY <1>5, <2>4, <3>1, <3>2 DEF PacketsTrue
  <2> QED
    BY <2>2, <2>3, <2>4
<1>7. \A x \in Executing : InputsTrue(x)'
  <2> TAKE x \in Executing
  <2>1. PICK b \in InFlight : b[3] = x.meta
    BY PacketFlight
  <2>2. x.meta.pc \in Word
    BY PacketFlight DEF execute_t, meta_t
  <2> QED
    BY <1>3, <2>1, <2>2 DEF PacketsTrue
<1>8. \A r \in Computing : Exact(r)'
  <2> TAKE r \in Computing
  <2>1. PICK b \in InFlight : b[3] = r.meta
    BY PacketFlight
  <2>2. r.meta.pc \in Word
    BY PacketFlight DEF result_t, meta_t
  <2> QED
    BY <1>4, <2>1, <2>2 DEF PacketsTrue
<1>9. ASSUME NEW x \in Executing' PROVE InputsTrue(x)'
  <2>1. CASE x \in Executing
    BY <1>7, <2>1
  <2>2. ASSUME NEW s \in Slot, iq[s] # Empty, iq[s] \in issue_t, iq[s].a.ready, iq[s].b.ready, x = Issued(s)
        PROVE  InputsTrue(x)'
    <3>1. iq[s] \in Waiting
      BY <2>2 DEF Waiting
    <3>2. PICK b \in InFlight : b[3] = iq[s].meta
      BY <3>1, PacketFlight
    <3>3. s # Empty
      BY NotEmpty, EmptyAssumption DEF Slot
    <3>4. x.meta = iq[s].meta /\ x.a = iq[s].a.value /\ x.b = iq[s].b.value
      BY <2>2, <3>3 DEF Issued
    <3>5. OperandsTrue(iq[s])
      BY <3>1 DEF PacketsTrue
    <3>6. InputsTrue(x)
      BY <2>2, <3>4, <3>5, ReadyInputs DEF OperandsTrue, InputsTrue
    <3>7. x.meta.pc \in Word
      BY <2>2, <3>4 DEF issue_t, meta_t
    <3> QED
      BY <1>3, <3>2, <3>4, <3>6, <3>7
  <2>3. CASE \E p \in Lane : x = ex'[p]
    <3>1. PICK p \in Lane : x = ex'[p] /\ ex'[p] # Empty
      BY <1>9, <2>3 DEF Executing
    <3>2. CASE ex[p] # Empty /\ ex'[p] = ex[p]
      BY <2>1, <3>1, <3>2 DEF Executing
    <3> QED
      BY <1>1, <2>2, <3>1, <3>2 DEF PacketsMove
  <2>4. CASE md'.busy /\ x = md'.request
    <3>1. x # Empty
      BY <1>9 DEF Executing
    <3>2. x \in Executing
      BY <1>1, <2>4, <3>1 DEF PacketsMove, Executing
    <3> QED
      BY <2>1, <3>2
  <2> QED
    BY <1>9, <2>3, <2>4 DEF Executing
<1>10. ASSUME NEW r \in Computing' PROVE Exact(r)'
  <2>1. CASE r \in Computing
    BY <1>8, <2>1
  <2>2. ASSUME NEW x \in Executing, r = Outcome(CodeAt(x.meta.pc), x.meta, x.a, x.b)
        PROVE  Exact(r)'
    <3>1. InputsTrue(x)'
      BY <1>7
    <3>2. r.meta = x.meta
      BY <2>2 DEF Outcome
    <3>3. x.a \in Word /\ x.b \in Word
      BY PacketFlight DEF execute_t
    <3>4. CodeAt(x.meta.pc)' = CodeAt(x.meta.pc) /\ CodeAt(r.meta.pc)' = CodeAt(x.meta.pc)
      BY <1>2, <3>2
    <3>5. Place(r.meta)' = Place(x.meta)'
      BY <3>2
    <3> DEFINE D == CodeAt(x.meta.pc)
               n == Place(x.meta)'
    <3>6. InputsAre(D, Window', Committed', n, x.a, x.b)
      BY <3>1, <3>4 DEF InputsTrue
    <3>7. ExactAs(D, Window', Committed', n, r)
      BY <2>2, <3>2, <3>3, <3>6 DEF ExactAs
    <3> HIDE DEF D, n
    <3> QED
      BY <3>4, <3>5, <3>7 DEF Exact, D, n
  <2>3. CASE \E u \in Lane : r = alu'[u]
    <3>1. PICK u \in Lane : r = alu'[u] /\ alu'[u] # Empty
      BY <1>10, <2>3 DEF Computing
    <3>2. CASE alu[u] # Empty /\ alu'[u] = alu[u]
      BY <2>1, <3>1, <3>2 DEF Computing
    <3>3. ASSUME NEW p \in Lane, ex[p] # Empty, ~is_muldiv(ex[p].op), r = AluResult(ex[p])
          PROVE  Exact(r)'
      <4>1. ex[p] \in Executing /\ OpTrue(ex[p])
        BY <3>3 DEF Executing, OpsTrue
      <4>2. ex[p] \in execute_t
        BY <4>1, PacketFlight
      <4> QED
        BY <2>2, <3>3, <4>1, <4>2, AluOutcome
    <3> QED
      BY <1>1, <3>1, <3>2, <3>3 DEF PacketsMove
  <2>4. CASE r = md'.out /\ md'.out # Empty
    <3>1. CASE md.out # Empty /\ md'.out = md.out
      BY <2>1, <2>4, <3>1 DEF Computing
    <3>2. CASE md.busy /\ md.step = XLEN /\ md'.out = Complete.out
      <4>1. TypesInv /\ md.request \in execute_t
        BY <3>2, BaseIs DEF ExecutionTypes, MdTypes
      <4>2. md.request \in Executing /\ OpTrue(md.request)
        BY <3>2, <4>1, EmptyAssumption DEF Executing, OpsTrue
      <4> QED
        BY <2>2, <2>4, <3>2, <4>1, <4>2, MulDivOutcome
    <3> QED
      BY <1>1, <2>4, <3>1, <3>2 DEF PacketsMove
  <2> QED
    BY <1>10, <2>3, <2>4 DEF Computing
<1>11. ASSUME NEW r \in Results' PROVE Exact(r)'
  <2>1. PICK p \in Lane : r = wb'[p] /\ wb'[p] # Empty
    BY <1>11 DEF Results
  <2>2. r \in Computing
    BY <1>1, <2>1 DEF PacketsMove, Computing
  <2> QED
    BY <1>8, <2>2
<1> QED
  BY <1>6, <1>9, <1>10, <1>11 DEF PacketsTrue

-----------------------------------------------------------------------------
(* A finished instruction that neither ends the program nor works on the   *)
(* CSRs has in its entry exactly what it computes from its inputs.         *)
Plain(e) == e.done /\ ~e.serial /\ ~CodeAt(e.meta.pc).terminal
Recorded(e) == [meta |-> e.meta, value |-> e.value, branch |-> e.branch]
EntryExact(i) ==
  Plain(Window[i])
    => ExactAs(CodeAt(Window[i].meta.pc), Window, Committed, i, Recorded(Window[i]))
EntriesExact == \A i \in 1 .. count : EntryExact(i)

(* The same of an entry after an edge.                                     *)
LEMMA EntryExactNext ==
  ASSUME program' = program, NEW i, NEW e, e = Window'[i],
         Plain(e) => ExactAs(CodeAt(e.meta.pc), Window', Committed', i, Recorded(e))
  PROVE  EntryExact(i)'
<1>1. FetchedAt(Window[i].meta.pc)' = FetchedAt(e.meta.pc)
  BY DEF FetchedAt, Memory!ReadWord
<1>2. CodeAt(Window[i].meta.pc)' = CodeAt(e.meta.pc)
  BY <1>1 DEF CodeAt
<1>3. Plain(Window[i])' <=> Plain(e)
  BY <1>2 DEF Plain
<1>4. Recorded(Window[i])' = Recorded(e)
  BY DEF Recorded
<1> QED
  BY <1>2, <1>3, <1>4 DEF EntryExact

(* A result on a writeback port is exact, and is its instruction's.        *)
LEMMA CompletionExact ==
  ASSUME Base, PacketsTrue, NEW w, WiresHold(w), NEW r \in w.completions
  PROVE  r \in result_t /\ Exact(r) /\ \E b \in InFlight : b[3] = r.meta
<1>1. PICK p \in Lane : wb[p] # Empty /\ r = wb[p]
  BY CompletionAt
<1>2. r \in Results
  BY <1>1 DEF Results
<1> QED
  BY <1>2, PacketFlight DEF PacketsTrue

(* An edge that does not flush keeps the entries exact: those that were,   *)
(* and those whose result arrives.                                         *)
LEMMA EntriesExactEdge ==
  ASSUME Base, FrontTrue, Written, WindowTrue, PacketsTrue, EntriesExact,
         NEW w, NEW d, NEW chosen, EdgeHolds(w, d, chosen), ~w.backend_flush, program' = program
  PROVE  EntriesExact'
<1>1. WiresHold(w)
  BY DEF EdgeHolds
<1>2. ASSUME NEW k \in 1 .. count', NEW e, e = Window'[k], Plain(e)
      PROVE  ExactAs(CodeAt(e.meta.pc), Window', Committed', k, Recorded(e))
  <2> DEFINE i == k + w.retiring
  <2>1. /\ i \in 1 .. count + d.n
        /\ \/ Window'[k] = Line(d)[i]
           \/ /\ i \in 1 .. count /\ ~Window[i].done
              /\ \E r \in w.completions :
                   r.meta = Window[i].meta /\ Window'[k] = CompletedEntry(Window[i], r)
    BY LineAdvances
  <2>2. /\ count \in Nat /\ d.n \in 0 .. 2 /\ w.retiring \in 0 .. 2 /\ w.retiring <= count
        /\ k \in Int /\ k >= 1
    BY LineIs
  <2>3. i > w.retiring /\ k = i - w.retiring
    BY <2>2
  <2> HIDE DEF i
  <2>4. \A j \in 1 .. count : j \in 1 .. count + d.n /\ Line(d)[j] = Window[j]
    BY LineIs
  <2>5. CASE i \in 1 .. count /\ e = Window[i]
    <3> DEFINE D == CodeAt(e.meta.pc)
               r == Recorded(e)
    <3>1. ExactAs(D, Window, Committed, i, r)
      BY <1>2, <2>5 DEF EntriesExact, EntryExact
    <3>2. e.meta.pc \in Word
      BY <2>4, <2>5, LineIs DEF rob_entry_t, meta_t
    <3>3. D \in decode_t
      BY <3>2, CodeType, BaseIs
    <3> HIDE DEF D, r
    <3>4. i \in Nat /\ \A j \in 1 .. i - 1 : Window[j] = Line(d)[j]
      BY <2>2, <2>4, <2>5
    <3>5. ExactAs(D, Line(d), Committed, i, r)
      BY <3>1, <3>4, InputsPrefix
    <3>6. ExactAs(D, Window', Committed', k, r)
      BY <2>1, <2>3, <3>3, <3>5, InputsMove
    <3> QED
      BY <3>6 DEF D, r
  <2>6. CASE i > count /\ e = Line(d)[i]
    <3> DEFINE j == i - count
    <3>1. j \in 1 .. d.n /\ i = count + j
      BY <2>1, <2>2, <2>6
    <3> HIDE DEF j
    <3>2. e = NewEntry(d, j)
      BY <2>6, <3>1, LineIs
    <3>3. /\ e.done = (id_q[j].terminal \/ id_q[j].serial) /\ e.serial = id_q[j].serial
      BY <3>1, <3>2, NewEntryIs, BaseIs
    <3>4. id_q[j] = CodeAt(id_q[j].pc) /\ e.meta.pc = id_q[j].pc
      BY <3>1, <3>2, NewTrue
    <3> QED
      BY <1>2, <3>3, <3>4 DEF Plain
  <2>7. ASSUME i \in 1 .. count, ~Window[i].done, NEW r \in w.completions,
               r.meta = Window[i].meta, e = CompletedEntry(Window[i], r)
        PROVE  ExactAs(CodeAt(e.meta.pc), Window', Committed', k, Recorded(e))
    <3>1. PICK b \in InFlight : b[3] = r.meta
      BY <1>1, CompletionExact
    <3>2. r \in result_t /\ Exact(r)
      BY <1>1, CompletionExact
    <3>3. r.meta.pc \in Word
      BY <3>2 DEF result_t, meta_t
    <3>4. e.meta = r.meta /\ e.value = r.value /\ e.branch = r.branch
      BY <2>4, <2>7, LineIs DEF CompletedEntry, rob_entry_t
    <3>5. Recorded(e) = r
      BY <3>2, <3>4 DEF Recorded, result_t
    <3>6. Place(r.meta) = i
      <4>1. Window[i].meta = r.meta /\ Place(r.meta) \in 1 .. count /\ Window[Place(r.meta)].meta = r.meta
        BY <2>7, <3>1, FlightPlace
      <4>2. WindowFull
        BY BaseIs
      <4> QED
        BY <2>7, <4>1, WindowIs, BaseIs DEF Place
    <3>7. Place(r.meta)' = k
      <4>1. Place(b[3])' = Place(b[3]) - w.retiring
        BY <3>1, FlightPlace
      <4> QED
        BY <2>3, <3>1, <3>6, <4>1
    <3> DEFINE D == CodeAt(r.meta.pc)
               n == Place(r.meta)
               n2 == Place(r.meta)'
    <3>8. \A s : ExactAs(D, Window, Committed, n, s) => ExactAs(D, Window', Committed', n2, s)
      BY <3>1, <3>3, FlightInputs
    <3>9. ExactAs(D, Window, Committed, n, r)
      BY <3>2 DEF Exact
    <3> HIDE DEF D, n, n2
    <3>10. ExactAs(D, Window', Committed', k, r)
      BY <3>7, <3>8, <3>9 DEF n2
    <3> QED
      BY <3>4, <3>5, <3>10 DEF D
  <2> QED
    BY <1>2, <2>1, <2>2, <2>4, <2>5, <2>6, <2>7
<1>3. \A k \in 1 .. count' : EntryExact(k)'
  BY <1>2, EntryExactNext
<1> QED
  BY <1>3 DEF EntriesExact

-----------------------------------------------------------------------------
(* The values in the pipeline are the program's.                           *)
ValueInv == FrontTrue /\ PathInv /\ OpsTrue /\ Written /\ UnitHolds /\ PacketsTrue /\ EntriesExact

(* A cleared back end holds no value but the registers.                    *)
LEMMA ClearedValues == Cleared => PacketsTrue /\ EntriesExact /\ OpsTrue
<1> SUFFICES ASSUME Cleared PROVE PacketsTrue /\ EntriesExact /\ OpsTrue
  OBVIOUS
<1>1. OpsTrue
  BY DEF OpsTrue, Cleared
<1>2. Waiting = {} /\ Executing = {} /\ Computing = {} /\ Results = {}
  BY DEF Cleared, Waiting, Executing, Computing, Results
<1>3. PacketsTrue
  BY <1>2 DEF PacketsTrue
<1>4. 1 .. count = {}
  BY DEF Cleared
<1> QED
  BY <1>1, <1>3, <1>4 DEF EntriesExact

(* Register 0 is zero, and without entries nothing else is written.        *)
ZeroHolds == registers[0] = 0
(* With nothing in flight and register 0 at 0, every value an instruction  *)
(* would read is in the register bank.                                     *)
LEMMA ClearedWritten == Cleared /\ ZeroHolds => Written
<1> SUFFICES ASSUME Cleared, registers[0] = 0 PROVE Written
  BY DEF ZeroHolds
<1>1. 1 .. count = {}
  BY DEF Cleared
<1> QED
  BY <1>1 DEF Written

(* A reset leaves the registers zero.                                      *)
LEMMA ResetRegisters == ResetEdge => ZeroHolds'
  BY Tiny5Assumption DEF ZeroHolds, ResetEdge, RegisterWords, Phys, Arch

(* A flush leaves register 0 zero.                                         *)
LEMMA FlushRegisters ==
  ASSUME Base, Written, NEW w, NEW d, NEW chosen, EdgeHolds(w, d, chosen)
  PROVE  ZeroHolds'
<1>1. 0 \in RegisterWords
  BY Tiny5Assumption DEF RegisterWords, Phys, Arch
<1> QED
  BY <1>1, RegisterWritten DEF Written, ZeroHolds

(* Every step keeps the unit's invariant.                                  *)
LEMMA UnitHoldsStep == Base /\ Base' /\ UnitHolds /\ [Next]_vars => UnitHolds'
<1> SUFFICES ASSUME Base, Base', UnitHolds, [Next]_vars PROVE UnitHolds'
  OBVIOUS
<1>1. TypesInv /\ TypesInv'
  BY BaseIs, BaseNext
<1>2. CASE ResetEdge
  <2>1. Cleared'
    BY <1>2, ClearedReset
  <2> QED
    BY <1>1, <2>1, UnitHoldsIdle, PTL
<1>3. ASSUME NEW w, NEW d, NEW chosen, EdgeHolds(w, d, chosen)
      PROVE  UnitHolds'
  <2>1. ExecutionTick(w.backend_flush, Sent(chosen)) /\ WiresHold(w)
    BY <1>3 DEF EdgeHolds, BackSteps
  <2>2. w.backend_flush \in BOOLEAN
    BY <2>1 DEF WiresHold
  <2>3. MdTick(w.backend_flush, UnitInput(Started, MULDIV), result_ready(MULDIV))
    BY <2>1 DEF ExecutionTick, result_ready
  <2> QED
    BY <1>1, <2>2, <2>3, UnitHoldsEdge
<1>4. CASE UNCHANGED vars
  <2>1. UNCHANGED <<ex, alu, md, next_q>>
    BY <1>4 DEF vars, executionVars
  <2>2. UNCHANGED UnitInput(Started, MULDIV)
    <3>1. UNCHANGED WaitingUnits /\ \A u : Rotation(u)' = Rotation(u)
      BY <2>1 DEF WaitingUnits, UnitResult, Rotation
    <3>2. \A S : FirstOf(S)' = FirstOf(S)
      BY <2>1 DEF FirstOf, Rotation
    <3>3. UNCHANGED Granted
      BY <3>1, <3>2 DEF Granted
    <3>4. \A u : unit_ready(u)' = unit_ready(u)
      BY <2>1, <3>3 DEF unit_ready, md_in_ready, ElasticReady, result_ready
    <3>5. \A p : UnitsFor(p)' = UnitsFor(p)
      BY <2>1, <3>4 DEF UnitsFor
    <3>6. UNCHANGED Started
      BY <3>5 DEF Started
    <3> QED
      BY <2>1, <3>6 DEF UnitInput
  <2>3. UNCHANGED MdUnit!unitVars
    BY <2>1, <2>2 DEF MdUnit!unitVars
  <2>4. MdUnit!UnitInv /\ [MdUnit!UnitNext]_MdUnit!unitVars => MdUnit!UnitInv'
    BY MdUnit!UnitInvStep, MdAssumptions, MdConstants
  <2> QED
    BY <2>3, <2>4 DEF UnitHolds
<1> QED
  BY <1>2, <1>3, <1>4, CoreSteps

(* A step that changes nothing.                                            *)
LEMMA ValueStutter ==
  Written /\ PacketsTrue /\ EntriesExact /\ UNCHANGED vars => (Written /\ PacketsTrue /\ EntriesExact)'
<1> SUFFICES ASSUME Written, PacketsTrue, EntriesExact, UNCHANGED vars
             PROVE  (Written /\ PacketsTrue /\ EntriesExact)'
  OBVIOUS
<1>1. /\ UNCHANGED <<iq, ex, alu, md, wb, rob, head, count, registers, program, halted, fault, committed_map>>
  BY DEF vars, executionVars, robVars, backVars, memoryVars, renameVars, retireVars
<1>2. Window' = Window /\ Committed' = Committed
  BY <1>1 DEF Window, Committed
<1>3. \A a : CodeAt(a)' = CodeAt(a)
  BY <1>1, CodeStays
<1>4. \A m : Place(m)' = Place(m)
  BY <1>1 DEF Place, Distance
<1>5. Waiting' = Waiting /\ Executing' = Executing /\ Computing' = Computing /\ Results' = Results
  BY <1>1 DEF Waiting, Executing, Computing, Results
<1>6. \A q : OperandsTrue(q)' <=> OperandsTrue(q)
  BY <1>2, <1>3, <1>4 DEF OperandsTrue
<1>7. \A q : InputsTrue(q)' <=> InputsTrue(q)
  BY <1>2, <1>3, <1>4 DEF InputsTrue
<1>8. \A q : Exact(q)' <=> Exact(q)
  BY <1>2, <1>3, <1>4 DEF Exact
<1>9. PacketsTrue'
  BY <1>5, <1>6, <1>7, <1>8 DEF PacketsTrue
<1>10. ASSUME NEW i \in 1 .. count PROVE EntryExact(i)'
  <2> DEFINE e == Window[i]
  <2>1. e = Window'[i]
    BY <1>2
  <2>2. Plain(e) => ExactAs(CodeAt(e.meta.pc), Window, Committed, i, Recorded(e))
    BY DEF EntriesExact, EntryExact
  <2> HIDE DEF e
  <2> QED
    BY <1>1, <1>2, <2>1, <2>2, EntryExactNext
<1>11. EntriesExact'
  BY <1>1, <1>10 DEF EntriesExact
<1>12. Written'
  BY <1>1, <1>2 DEF Written, Renaming
<1> QED
  BY <1>9, <1>11, <1>12

(* Every step keeps the values the program's.                              *)
LEMMA ValueStep == Base /\ Base' /\ ValueInv /\ [Next]_vars => ValueInv'
<1> SUFFICES ASSUME Base, Base', ValueInv, [Next]_vars PROVE ValueInv'
  OBVIOUS
<1>1. FrontTrue' /\ PathInv' /\ OpsTrue' /\ UnitHolds'
  BY FrontTrueStep, FollowStep, OpsTrueStep, UnitHoldsStep DEF ValueInv
<1>2. program' = program
  BY ProgramStays
<1>3. CASE Cleared' /\ ZeroHolds'
  <2>1. (PacketsTrue /\ EntriesExact)'
    BY <1>3, ClearedValues, PTL
  <2>2. Written'
    BY <1>3, ClearedWritten, PTL
  <2> QED
    BY <1>1, <2>1, <2>2 DEF ValueInv
<1>4. CASE ResetEdge
  BY <1>3, <1>4, ClearedReset, ResetRegisters
<1>5. ASSUME NEW w, NEW d, NEW chosen, EdgeHolds(w, d, chosen)
      PROVE  ValueInv'
  <2>1. CASE w.backend_flush
    BY <1>3, <1>5, <2>1, ClearedFlush, FlushRegisters DEF ValueInv
  <2>2. CASE ~w.backend_flush
    <3>1. Written'
      BY <1>5, <2>2, WrittenEdge DEF ValueInv
    <3>2. PacketsTrue'
      BY <1>2, <1>5, <2>2, PacketsTrueEdge DEF ValueInv
    <3>3. EntriesExact'
      BY <1>2, <1>5, <2>2, EntriesExactEdge DEF ValueInv, PathInv
    <3> QED
      BY <1>1, <3>1, <3>2, <3>3 DEF ValueInv
  <2> QED
    BY <2>1, <2>2
<1>6. CASE UNCHANGED vars
  BY <1>1, <1>6, ValueStutter DEF ValueInv
<1> QED
  BY <1>4, <1>5, <1>6, CoreSteps

(* The pipeline starts with true values.                                   *)
LEMMA ValueInit == Base /\ Init => ValueInv
<1> SUFFICES ASSUME Base, Init PROVE ValueInv
  OBVIOUS
<1>1. Cleared
  BY ClearedInit
<1>2. FrontTrue /\ PathInv
  BY FrontTrueInit, FollowInit
<1>3. ZeroHolds
  BY Tiny5Assumption DEF ZeroHolds, Init, RegisterWords, Phys, Arch
<1>4. UnitHolds
  BY <1>1, BaseIs, UnitHoldsIdle DEF Cleared
<1> QED
  BY <1>1, <1>2, <1>3, <1>4, ClearedValues, ClearedWritten DEF ValueInv

(* Whatever the configuration, the program and the timing: every operand,  *)
(* result and finished entry of the pipeline is what the instructions      *)
(* before it in program order and the committed registers make it          *)
(* (lib/rename_unit.sv, lib/inorder_operands.sv, lib/execution_cluster.sv, *)
(* lib/completion_queue.sv).                                               *)
THEOREM ValuesTrue == Spec => []ValueInv
  BY BaseHolds, ValueInit, ValueStep, PTL DEF Spec
=============================================================================
