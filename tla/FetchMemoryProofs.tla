------------------------- MODULE FetchMemoryProofs -------------------------
(***************************************************************************)
(* Proofs about the fetch unit and the instruction memory, for every       *)
(* address space, every set of programs and every memory timing.           *)
(***************************************************************************)
EXTENDS FetchMemory, TLAPS

(* What a step of the system is: a clock edge with some inputs, or reset.  *)
InputsOK(stop, redirect, out_ready) ==
  stop \in BOOLEAN /\ redirect \in RedirectWire /\ out_ready \in BOOLEAN

(* The inductive invariant of fetch and memory.                            *)
IInv == TypeOK /\ SingleRequest /\ AddressesAgree

-----------------------------------------------------------------------------
(* Reading a word of a loaded program yields one of its words, or none.    *)
LEMMA ReadWordType ==
  ASSUME program \in Programs, NEW a \in Address
  PROVE  ReadWord(a).data \in Words /\ ReadWord(a).status \in ImemStatus
<1>1. a \in Nat /\ Len(program) \in Nat
  BY ProgramsAssumption, PcModulusAssumption DEF Address
<1>2. CASE a % 4 # 0 \/ a >= 4 * Len(program)
  BY <1>2, <1>1 DEF ReadWord, Words, ImemStatus, IMEM_OK, IMEM_END, IMEM_FAULT
<1>3. CASE a % 4 = 0 /\ a < 4 * Len(program)
  <2>1. program \in Seq({program[i] : i \in DOMAIN program})
    BY ProgramsAssumption
  <2>2. a \in Nat /\ Len(program) \in Nat
    BY <2>1, PcModulusAssumption DEF Address
  <2>3. a \div 4 + 1 \in 1 .. Len(program)
    BY <1>3, <2>2
  <2>4. a \div 4 + 1 \in DOMAIN program
    BY <2>1, <2>3
  <2>5. program[a \div 4 + 1] \in Words
    BY <2>4 DEF Words
  <2>6. ReadWord(a) = [data |-> program[a \div 4 + 1], status |-> "ok"]
    BY <1>3, <2>2 DEF ReadWord
  <2> QED
    BY <2>5, <2>6 DEF ImemStatus, IMEM_OK
<1> QED
  BY <1>2, <1>3, <1>1

(* Address arithmetic: reset addresses are addresses, redirects are        *)
(* aligned ones, and the next address is one.                              *)
LEMMA AddressFacts ==
  /\ 0 \in Address
  /\ AlignedAddress \subseteq Address
  /\ \A a \in Address : NextPc(a) \in Address
BY PcModulusAssumption DEF Address, AlignedAddress, NextPc

(* A redirect wire has a Boolean valid bit and, when it is valid, an       *)
(* aligned address.                                                        *)
LEMMA RedirectFacts ==
  ASSUME NEW redirect \in RedirectWire
  PROVE  redirect.valid \in BOOLEAN /\ redirect.pc \in Address
<1>1. CASE redirect \in [valid : {FALSE}, pc : {0}]
  BY <1>1, AddressFacts
<1>2. CASE redirect \in [valid : {TRUE}, pc : AlignedAddress]
  BY <1>2, AddressFacts
<1> QED
  BY <1>1, <1>2 DEF RedirectWire

(* The initial states satisfy the invariant.                               *)
LEMMA InitIInv == System_Init => IInv
<1> SUFFICES ASSUME System_Init PROVE IInv
  OBVIOUS
<1>1. timing.request_wait_cycles \in Nat /\ timing.response_latency_cycles \in Nat
  BY TimingsAssumption DEF System_Init
<1>2. NoWord \in Words
  BY DEF Words
<1>3. TypeOK
  <2>1. mem_req_ready \in BOOLEAN
    BY Zenon DEF System_Init, MemInit
  <2>2. mem_rsp \in [valid : BOOLEAN, data : Words, status : ImemStatus \cup {"reserved"}]
    BY <1>2 DEF System_Init, MemInit, NoResponse
  <2>3. /\ program \in Programs /\ timing \in Timings
        /\ mem_state \in MemState /\ pending_address \in Address
        /\ request_wait_count \in 0 .. timing.request_wait_cycles
        /\ response_cycles_remaining \in 0 .. timing.response_latency_cycles
    BY <1>1, AddressFacts DEF System_Init, MemInit, MemState
  <2> QED
    BY <2>1, <2>2, <2>3, AddressFacts DEF System_Init, Init, TypeOK
<1>4. SingleRequest /\ AddressesAgree
  BY DEF System_Init, Init, MemInit, SingleRequest, AddressesAgree, NoResponse
<1> QED
  BY <1>3, <1>4 DEF IInv

(* Every step of the fetch unit with the memory preserves it.  The types   *)
(* and the single-request discipline of one edge are proved together: the  *)
(* types of the memory's counters need the discipline and conversely.      *)
LEMMA TickTypes ==
  ASSUME IInv, NEW stop \in BOOLEAN, NEW redirect \in RedirectWire,
         NEW out_ready \in BOOLEAN,
         Tick(stop, redirect, mem_req_ready, mem_rsp, out_ready)
  PROVE  /\ req_valid' \in BOOLEAN /\ req_addr' \in Address
         /\ pc' \in Address /\ pending_pc' \in Address
         /\ outstanding' \in BOOLEAN /\ stopped' \in BOOLEAN
         /\ redirect_pending' \in BOOLEAN /\ restart_pc' \in Address
         /\ out_valid' \in BOOLEAN /\ out_data' \in FetchRecord \cup {NoFetch}
<1>1. redirect.valid \in BOOLEAN /\ redirect.pc \in Address
  BY RedirectFacts
<1>2. /\ req_addr' \in Address /\ pc' \in Address
      /\ pending_pc' \in Address /\ restart_pc' \in Address
  BY <1>1, AddressFacts DEF IInv, TypeOK, Tick, RequestEdge, draining, issue, restart
<1>3. mem_rsp.valid => mem_rsp.data \in Words /\ mem_rsp.status \in ImemStatus
  BY ReadWordType DEF IInv, TypeOK, AddressesAgree, SingleRequest
<1>4. out_data' \in FetchRecord \cup {NoFetch}
  BY <1>3 DEF IInv, TypeOK, Tick, RequestEdge, draining, issue, restart, FetchRecord
<1>5. /\ req_valid' \in BOOLEAN /\ outstanding' \in BOOLEAN /\ stopped' \in BOOLEAN
      /\ redirect_pending' \in BOOLEAN /\ out_valid' \in BOOLEAN
  BY <1>1 DEF Tick, RequestEdge, draining, issue, restart
<1> QED
  BY <1>2, <1>4, <1>5

(* One edge of the memory keeps its registers in their types, the two      *)
(* counters below their timings.                                           *)
LEMMA MemTickTypes ==
  ASSUME IInv, NEW ready \in BOOLEAN, MemTick(req_valid, req_addr, ready)
  PROVE  /\ program' \in Programs /\ timing' \in Timings
         /\ mem_state' \in MemState
         /\ request_wait_count' \in 0 .. timing'.request_wait_cycles
         /\ response_cycles_remaining' \in 0 .. timing'.response_latency_cycles
         /\ pending_address' \in Address
         /\ mem_req_ready' \in BOOLEAN
         /\ mem_rsp' \in [valid : BOOLEAN, data : Words, status : ImemStatus \cup {"reserved"}]
<1>1. timing.request_wait_cycles \in Nat /\ timing.response_latency_cycles \in Nat \ {0}
  BY TimingsAssumption DEF IInv, TypeOK
<1>2. program' = program /\ timing' = timing
  BY DEF MemTick
<1>3. CASE AcceptRequest(req_valid, req_addr)
  <2>1. mem_req_ready' \in BOOLEAN
    BY <1>3, Zenon DEF AcceptRequest, Waited
  <2>2. mem_rsp' \in [valid : BOOLEAN, data : Words, status : ImemStatus \cup {"reserved"}]
    BY <1>3 DEF AcceptRequest, Waited, IInv, TypeOK
  <2>3. request_wait_count' \in 0 .. timing.request_wait_cycles
    BY <1>1, <1>3 DEF AcceptRequest, Waited, IInv, TypeOK
  <2> QED
    BY <1>1, <1>2, <1>3, <2>1, <2>2, <2>3 DEF AcceptRequest, Waited, IInv, TypeOK, MemState
<1>4. CASE WaitForResponse
  <2>1. ReadWord(pending_address).data \in Words /\ ReadWord(pending_address).status \in ImemStatus
    BY ReadWordType DEF IInv, TypeOK
  <2>2. mem_rsp' \in [valid : BOOLEAN, data : Words, status : ImemStatus \cup {"reserved"}]
    BY <1>4, <2>1 DEF WaitForResponse, latency_left, IInv, TypeOK
  <2>3. /\ mem_req_ready' \in BOOLEAN /\ mem_state' \in MemState
        /\ request_wait_count' \in 0 .. timing.request_wait_cycles
    BY <1>4 DEF WaitForResponse, latency_left, IInv, TypeOK, MemState
  <2>4. /\ pending_address' \in Address
        /\ response_cycles_remaining' \in 0 .. timing.response_latency_cycles
    BY <1>1, <1>4 DEF WaitForResponse, latency_left, IInv, TypeOK
  <2> QED
    BY <1>2, <2>2, <2>3, <2>4 DEF IInv, TypeOK
<1>5. CASE HoldResponse(ready)
  <2>1. mem_req_ready' \in BOOLEAN
    BY <1>5, Zenon DEF HoldResponse
  <2>2. mem_rsp' \in [valid : BOOLEAN, data : Words, status : ImemStatus \cup {"reserved"}]
    BY <1>5 DEF HoldResponse, IInv, TypeOK
  <2>3. /\ program' \in Programs /\ timing' \in Timings
        /\ mem_state' \in MemState /\ pending_address' \in Address
        /\ request_wait_count' \in 0 .. timing'.request_wait_cycles
        /\ response_cycles_remaining' \in 0 .. timing'.response_latency_cycles
    BY <1>1, <1>2, <1>5 DEF HoldResponse, IInv, TypeOK, MemState
  <2> QED
    BY <2>1, <2>2, <2>3
<1> QED
  BY <1>3, <1>4, <1>5 DEF MemTick

(* The answer of the memory is accepted whenever there is one.             *)
LEMMA ReadyIsBoolean ==
  ASSUME IInv, NEW stop \in BOOLEAN, NEW redirect \in RedirectWire, NEW out_ready \in BOOLEAN
  PROVE  /\ rsp_ready(stop, redirect, out_ready) \in BOOLEAN
         /\ rsp_ready(stop, redirect, out_ready) <=> outstanding
BY RedirectFacts DEF rsp_ready, draining, IInv, TypeOK, SingleRequest

(* One edge of both keeps at most one request: the fetch unit and the      *)
(* memory change sides on the same edge.                                   *)
LEMMA EdgePreservesSingleRequest ==
  ASSUME IInv, NEW stop \in BOOLEAN, NEW redirect \in RedirectWire, NEW out_ready \in BOOLEAN,
         ClockEdge(stop, redirect, out_ready)
  PROVE  SingleRequest'
<1> DEFINE ready == rsp_ready(stop, redirect, out_ready)
<1>1. ready <=> outstanding
  BY ReadyIsBoolean
<1>2. redirect.valid \in BOOLEAN
  BY RedirectFacts
<1> HIDE DEF ready
<1>3. MemTick(req_valid, req_addr, ready) /\ Tick(stop, redirect, mem_req_ready, mem_rsp, out_ready)
  BY DEF ClockEdge, ready
<1>4. mem_rsp.valid => outstanding
  BY DEF IInv, SingleRequest
<1>5. CASE AcceptRequest(req_valid, req_addr)
  BY <1>1, <1>2, <1>3, <1>5
  DEF AcceptRequest, Waited, Tick, RequestEdge, draining, issue, restart, ready,
      SingleRequest, IInv, TypeOK
<1>6. CASE WaitForResponse
  BY <1>1, <1>2, <1>3, <1>6
  DEF WaitForResponse, latency_left, Tick, RequestEdge, draining, issue, restart, ready,
      SingleRequest, IInv, TypeOK
<1>7. CASE HoldResponse(ready)
  BY <1>1, <1>2, <1>3, <1>7
  DEF HoldResponse, Tick, RequestEdge, draining, issue, restart, ready, SingleRequest,
      IInv, TypeOK
<1> QED
  BY <1>3, <1>5, <1>6, <1>7 DEF MemTick

(* One edge of both keeps the addresses in agreement: a request is         *)
(* accepted by both with the same address, and pc moves on only then.      *)
LEMMA EdgePreservesAddresses ==
  ASSUME IInv, NEW stop \in BOOLEAN, NEW redirect \in RedirectWire, NEW out_ready \in BOOLEAN,
         ClockEdge(stop, redirect, out_ready)
  PROVE  AddressesAgree'
<1> DEFINE ready == rsp_ready(stop, redirect, out_ready)
<1>1. ready <=> outstanding
  BY ReadyIsBoolean
<1>2. redirect.valid \in BOOLEAN
  BY RedirectFacts
<1> HIDE DEF ready
<1>3. MemTick(req_valid, req_addr, ready) /\ Tick(stop, redirect, mem_req_ready, mem_rsp, out_ready)
  BY DEF ClockEdge, ready
<1>4. program' = program
  BY <1>3 DEF MemTick
<1>5. \A a : ReadWord(a)' = ReadWord(a)
  BY <1>4 DEF ReadWord
<1>6. CASE AcceptRequest(req_valid, req_addr)
  BY <1>1, <1>2, <1>3, <1>6
  DEF AcceptRequest, Waited, Tick, RequestEdge, draining, issue, restart, ready,
      SingleRequest, AddressesAgree, IInv, TypeOK
<1>7. CASE WaitForResponse
  BY <1>1, <1>2, <1>3, <1>5, <1>7
  DEF WaitForResponse, latency_left, Tick, RequestEdge, draining, issue, restart, ready,
      SingleRequest, AddressesAgree, IInv, TypeOK
<1>8. CASE HoldResponse(ready)
  BY <1>1, <1>2, <1>3, <1>5, <1>8
  DEF HoldResponse, Tick, RequestEdge, draining, issue, restart, ready, SingleRequest,
      AddressesAgree, IInv, TypeOK
<1> QED
  BY <1>3, <1>6, <1>7, <1>8 DEF MemTick

(* The reset edge establishes the invariant again.                         *)
LEMMA ResetPreserves == IInv /\ ResetEdge => IInv'
<1> SUFFICES ASSUME IInv, ResetEdge PROVE IInv'
  OBVIOUS
<1>1. timing.request_wait_cycles \in Nat /\ timing.response_latency_cycles \in Nat
  BY TimingsAssumption DEF IInv, TypeOK
<1>2. program' = program /\ timing' = timing
  BY DEF ResetEdge, reset_protocol
<1>3. mem_req_ready' \in BOOLEAN
  BY Zenon DEF ResetEdge, reset_protocol
<1>4. mem_rsp' \in [valid : BOOLEAN, data : Words, status : ImemStatus \cup {"reserved"}]
  BY DEF ResetEdge, reset_protocol, NoResponse, Words
<1>5. /\ mem_state' \in MemState /\ pending_address' \in Address
      /\ request_wait_count' \in 0 .. timing.request_wait_cycles
      /\ response_cycles_remaining' \in 0 .. timing.response_latency_cycles
  BY <1>1, AddressFacts DEF ResetEdge, reset_protocol, MemState
<1>6. TypeOK'
  BY <1>2, <1>3, <1>4, <1>5, AddressFacts DEF ResetEdge, Reset, IInv, TypeOK
<1>7. SingleRequest' /\ AddressesAgree'
  BY DEF ResetEdge, Reset, reset_protocol, NoResponse, SingleRequest, AddressesAgree
<1> QED
  BY <1>6, <1>7 DEF IInv

(* Every step, the reset and the stutter included, preserves the           *)
(* invariant.                                                              *)
LEMMA StepPreserves == IInv /\ [System_Next]_vars => IInv'
<1> SUFFICES ASSUME IInv, [System_Next]_vars PROVE IInv'
  OBVIOUS
<1>1. ASSUME NEW stop \in BOOLEAN, NEW redirect \in RedirectWire, NEW out_ready \in BOOLEAN,
             ClockEdge(stop, redirect, out_ready)
      PROVE  IInv'
  <2>1. TypeOK'
    BY <1>1, TickTypes, MemTickTypes, ReadyIsBoolean DEF ClockEdge, TypeOK, Address
  <2> QED
    BY <1>1, <2>1, EdgePreservesSingleRequest, EdgePreservesAddresses DEF IInv
<1>2. CASE ResetEdge
  BY <1>2, ResetPreserves
<1>3. CASE UNCHANGED vars
  BY <1>3 DEF vars, fetchVars, memVars, IInv, TypeOK, SingleRequest, AddressesAgree, ReadWord,
     Words, FetchRecord, Address
<1> QED
  BY <1>1, <1>2, <1>3 DEF System_Next, RunningEdge

(* Every reachable state of fetch unit and memory is well typed.           *)
THEOREM FetchTypes == Spec => []TypeOK
<1>1. System_Init => IInv
  BY InitIInv
<1>2. IInv /\ [System_Next]_vars => IInv'
  BY StepPreserves
<1>3. IInv => TypeOK
  BY DEF IInv
<1> QED
  BY <1>1, <1>2, <1>3, PTL DEF Spec

(* At most one request exists, in exactly one place, and never while a     *)
(* fetched word waits (lib/fetch_unit.sv:22-23, 41-52).                    *)
THEOREM FetchSingleRequest == Spec => []SingleRequest
<1>1. System_Init => IInv
  BY InitIInv
<1>2. IInv /\ [System_Next]_vars => IInv'
  BY StepPreserves
<1>3. IInv => SingleRequest
  BY DEF IInv
<1> QED
  BY <1>1, <1>2, <1>3, PTL DEF Spec

(* The request's addresses agree and an answer holds the contents of its   *)
(* address.                                                                *)
THEOREM FetchAddressesAgree == Spec => []AddressesAgree
<1>1. System_Init => IInv
  BY InitIInv
<1>2. IInv /\ [System_Next]_vars => IInv'
  BY StepPreserves
<1>3. IInv => AddressesAgree
  BY DEF IInv
<1> QED
  BY <1>1, <1>2, <1>3, PTL DEF Spec

(* A held answer is taken on the next edge, whatever the pipeline does     *)
(* (lib/fetch_unit.sv:22-23, 55-56).                                       *)
THEOREM FetchAnswerTaken == Spec => AnswerTaken
<1>1. System_Init => IInv
  BY InitIInv
<1>2. IInv /\ [System_Next]_vars => IInv'
  BY StepPreserves
<1>3. IInv /\ [System_Next]_vars => [mem_rsp.valid => ~mem_rsp'.valid]_vars
  <2> SUFFICES ASSUME IInv, System_Next, mem_rsp.valid
               PROVE  ~mem_rsp'.valid
    OBVIOUS
  <2>1. mem_state = "HoldingResponse" /\ outstanding
    BY DEF IInv, SingleRequest
  <2>2. ASSUME NEW stop \in BOOLEAN, NEW redirect \in RedirectWire, NEW out_ready \in BOOLEAN,
               ClockEdge(stop, redirect, out_ready)
        PROVE  ~mem_rsp'.valid
    <3>1. HoldResponse(rsp_ready(stop, redirect, out_ready))
      BY <2>1, <2>2 DEF ClockEdge, MemTick, AcceptRequest, WaitForResponse
    <3>2. rsp_ready(stop, redirect, out_ready)
      BY <2>1, ReadyIsBoolean
    <3> QED
      BY <3>1, <3>2 DEF HoldResponse, IInv, TypeOK
  <2>3. CASE ResetEdge
    BY <2>3 DEF ResetEdge, reset_protocol, NoResponse
  <2> QED
    BY <2>2, <2>3 DEF System_Next, RunningEdge
<1> QED
  BY <1>1, <1>2, <1>3, PTL DEF Spec, AnswerTaken

(* A presented request is never withdrawn or changed before it is accepted *)
(* (the assertion of lib/fetch_unit.sv:72-73).                             *)
THEOREM FetchRequestStable == Spec => RequestStable
<1>1. System_Init => IInv
  BY InitIInv
<1>2. IInv /\ [System_Next]_vars => IInv'
  BY StepPreserves
<1>3. IInv /\ [System_Next]_vars =>
        [(req_valid /\ ~mem_req_ready /\ ~ResetEdge) => (req_valid' /\ req_addr' = req_addr)]_vars
  <2> SUFFICES ASSUME IInv, RunningEdge, req_valid, ~mem_req_ready
               PROVE  req_valid' /\ req_addr' = req_addr
    BY DEF System_Next
  <2> QED
    BY DEF RunningEdge, ClockEdge, Tick, RequestEdge, issue
<1> QED
  BY <1>1, <1>2, <1>3, PTL DEF Spec, RequestStable

-----------------------------------------------------------------------------
(* The refinement.  NextWord and Word are the images of the abstract       *)
(* variables under the mapping of FetchMemory.                             *)
NextWord == IF stopped THEN Nowhere
            ELSE IF redirect_pending THEN restart_pc
            ELSE IF outstanding THEN pending_pc ELSE pc
Word == IF out_valid THEN out_data ELSE NoFetch
Contents == [a \in Address |-> ReadWord(a)]

(* No step changes what the memory holds.                                  *)
LEMMA ContentsConstant == [System_Next]_vars => Contents' = Contents
<1>1. [System_Next]_vars => program' = program
  BY DEF System_Next, RunningEdge, ClockEdge, MemTick, ResetEdge, reset_protocol, vars, memVars
<1> QED
  BY <1>1 DEF Contents, ReadWord, Address

(* An edge that neither redirects nor stops nor delivers: the word is held *)
(* or taken, and the path is where it was.                                 *)
LEMMA HeldOrAwaited ==
  ASSUME IInv, NEW stop, NEW redirect, NEW out_ready, ~redirect.valid, ~stop,
         Contents' = Contents, NextWord' = NextWord,
         Word' = IF out_valid /\ ~out_ready THEN out_data ELSE NoFetch
  PROVE  Stream!Step(stop, redirect, out_ready)
<1>1. CASE Word = NoFetch
  <2>1. Word' = NoFetch
    BY <1>1 DEF Word
  <2> QED
    BY <1>1, <2>1 DEF Stream!Step, Stream!Await, Contents, NextWord, Word
<1>2. CASE Word # NoFetch
  <2>1. out_valid /\ Word = out_data
    BY <1>2 DEF Word
  <2>2. Word' = IF out_ready THEN NoFetch ELSE Word
    BY <2>1
  <2> QED
    BY <1>2, <2>2 DEF Stream!Step, Stream!Hold, Contents, NextWord, Word
<1> QED
  BY <1>1, <1>2

(* One edge of both is the step of the stream with the same inputs: a      *)
(* redirect, a stop, a word delivered, or a word held or taken, whatever   *)
(* drains underneath (lib/fetch_unit.sv:40-68).                            *)
THEOREM FetchEdgeIsStreamStep ==
  ASSUME IInv, NEW stop \in BOOLEAN, NEW redirect \in RedirectWire, NEW out_ready \in BOOLEAN,
         ClockEdge(stop, redirect, out_ready)
  PROVE  Stream!Step(stop, redirect, out_ready)
<1> DEFINE ready == rsp_ready(stop, redirect, out_ready)
<1>1. ready <=> outstanding
  BY ReadyIsBoolean
<1>2. redirect.valid \in BOOLEAN
  BY RedirectFacts
<1>3. Tick(stop, redirect, mem_req_ready, mem_rsp, out_ready)
  BY DEF ClockEdge
<1>9. Contents' = Contents
  <2>1. [System_Next]_vars
    BY DEF System_Next, RunningEdge
  <2> QED
    BY <2>1, ContentsConstant
<1> HIDE DEF ready
<1>4. CASE redirect.valid
  <2>1. Word' = NoFetch /\ NextWord' = redirect.pc
    BY <1>3, <1>4 DEF Tick, RequestEdge, draining, issue, restart, Word, NextWord
  <2> QED
    BY <1>4, <1>9, <2>1 DEF Stream!Step, Stream!Restart, Contents, NextWord, Word
<1>5. CASE ~redirect.valid /\ stop
  <2>1. Word' = NoFetch /\ NextWord' = Nowhere
    BY <1>3, <1>5 DEF Tick, RequestEdge, draining, issue, restart, Word, NextWord
  <2> QED
    BY <1>5, <1>9, <2>1 DEF Stream!Step, Stream!StopPath, Contents, NextWord, Word
<1>6. CASE ~redirect.valid /\ ~stop /\ (stopped \/ redirect_pending)
  <2>1. NextWord' = NextWord
    BY <1>1, <1>3, <1>6 DEF Tick, RequestEdge, draining, issue, restart, ready, NextWord
  <2>2. Word' = IF out_valid /\ ~out_ready THEN out_data ELSE NoFetch
    BY <1>3, <1>6 DEF Tick, RequestEdge, draining, issue, restart, Word
  <2> QED
    BY <1>6, <1>9, <2>1, <2>2, HeldOrAwaited
<1>7. CASE ~redirect.valid /\ ~stop /\ ~stopped /\ ~redirect_pending /\ mem_rsp.valid /\ outstanding
  <2>1. /\ pending_pc \in Address /\ ~out_valid /\ ~req_valid
        /\ pc = NextPc(pending_pc)
        /\ mem_rsp.data = ReadWord(pending_pc).data
        /\ mem_rsp.status = ReadWord(pending_pc).status
    BY <1>7 DEF IInv, TypeOK, SingleRequest, AddressesAgree
  <2>2. Word = NoFetch /\ NextWord = pending_pc /\ NextWord # Nowhere
    BY <1>7, <2>1, NowhereAssumption DEF Word, NextWord
  <2>3. Contents[pending_pc] = ReadWord(pending_pc)
    BY <2>1 DEF Contents
  <2>4. Word' = [pc |-> pending_pc, instruction |-> mem_rsp.data, status |-> mem_rsp.status]
    BY <1>1, <1>3, <1>7 DEF Tick, RequestEdge, draining, issue, restart, ready, Word
  <2>5. NextWord' = IF mem_rsp.status = "ok" THEN NextPc(pending_pc) ELSE Nowhere
    BY <1>1, <1>3, <1>7, <2>1
    DEF Tick, RequestEdge, draining, issue, restart, ready, NextWord, IMEM_OK
  <2>6. Word' = [pc |-> NextWord, instruction |-> Contents[NextWord].data,
                 status |-> Contents[NextWord].status]
    BY <2>1, <2>2, <2>3, <2>4
  <2>7. NextWord' = IF Contents[NextWord].status = "ok" THEN NextPc(NextWord) ELSE Nowhere
    BY <2>1, <2>2, <2>3, <2>5
  <2> QED
    BY <1>7, <1>9, <2>2, <2>6, <2>7
    DEF Stream!Step, Stream!Deliver, Stream!Fetched, Contents, NextWord, Word
<1>8. CASE ~redirect.valid /\ ~stop /\ ~stopped /\ ~redirect_pending /\ ~(mem_rsp.valid /\ outstanding)
  <2>1. NextWord' = NextWord
    BY <1>1, <1>3, <1>8
    DEF Tick, RequestEdge, draining, issue, restart, ready, NextWord, IInv,
        SingleRequest, AddressesAgree
  <2>2. Word' = IF out_valid /\ ~out_ready THEN out_data ELSE NoFetch
    BY <1>1, <1>3, <1>8 DEF Tick, RequestEdge, draining, issue, restart, ready, Word
  <2> QED
    BY <1>8, <1>9, <2>1, <2>2, HeldOrAwaited
<1> QED
  BY <1>2, <1>4, <1>5, <1>6, <1>7, <1>8 DEF IInv, TypeOK

(* A reset begins the path at address 0.                                   *)
LEMMA ResetIsStreamReset == ResetEdge => Stream!Reset
<1> SUFFICES ASSUME ResetEdge PROVE Stream!Reset
  OBVIOUS
<1>1. Contents' = Contents
  BY ContentsConstant DEF System_Next
<1>2. NextWord' = 0 /\ Word' = NoFetch
  BY DEF ResetEdge, Reset, NextWord, Word
<1> QED
  BY <1>1, <1>2 DEF Stream!Reset, Stream!Restart, Contents, NextWord, Word

(* The fetch unit and the memory implement the stream of one path, edge by *)
(* edge with the same redirect, stop and out_ready.                        *)
THEOREM FetchImplementsStream == Spec => StreamImplemented
<1>1. System_Init => IInv
  BY InitIInv
<1>2. IInv /\ [System_Next]_vars => IInv'
  BY StepPreserves
<1>3. System_Init => Stream!StreamInit
  BY DEF System_Init, Init, Stream!StreamInit
<1>4. IInv => EdgeImplemented
  BY FetchEdgeIsStreamStep, ResetIsStreamReset DEF EdgeImplemented
<1>5. IInv /\ [System_Next]_vars => [EdgeImplemented]_vars
  BY <1>4
<1>6. IInv /\ [System_Next]_vars => [Stream!StreamNext]_<<Contents, NextWord, Word>>
  <2> SUFFICES ASSUME IInv, [System_Next]_vars
               PROVE  [Stream!StreamNext]_<<Contents, NextWord, Word>>
    OBVIOUS
  <2>1. CASE RunningEdge
    BY <2>1, FetchEdgeIsStreamStep DEF RunningEdge, Stream!StreamNext
  <2>2. CASE ResetEdge
    BY <2>2, ResetIsStreamReset DEF Stream!StreamNext
  <2>3. CASE UNCHANGED vars
    <3>1. Contents' = Contents
      BY ContentsConstant
    <3>2. NextWord' = NextWord /\ Word' = Word
      BY <2>3 DEF vars, fetchVars, NextWord, Word
    <3> QED
      BY <3>1, <3>2
  <2> QED
    BY <2>1, <2>2, <2>3 DEF System_Next
<1> QED
  BY <1>1, <1>2, <1>3, <1>5, <1>6, PTL
  DEF Spec, StreamImplemented, Stream!StreamSpec, Contents, NextWord, Word
=============================================================================
