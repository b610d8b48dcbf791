------------------------- MODULE InstructionMemory -------------------------
(***************************************************************************)
(* The instruction memory that both the SystemC models and the RTL tests   *)
(* are attached to (riscv_emulator/src/instruction_memory.cpp).  It takes  *)
(* one request at a time, after a configurable number of wait cycles, and  *)
(* answers it after a configurable latency, holding the answer until it is *)
(* taken.  sc_out writes become visible after the edge, so every .read()   *)
(* is of the unprimed value.                                               *)
(***************************************************************************)
EXTENDS Integers, Sequences

CONSTANT NoWord           \* rsp_data when no instruction is carried (0 in the code)

VARIABLES
  program, timing,                        \* load_program, set_timing
  mem_state, request_wait_count, response_cycles_remaining, pending_address,
  mem_req_ready, mem_rsp                  \* driven wires: req_ready; rsp [valid, data, status]

memVars == <<program, timing, mem_state, request_wait_count,
             response_cycles_remaining, pending_address, mem_req_ready, mem_rsp>>

MemState == {"AcceptingRequest", "WaitingForResponse", "HoldingResponse"}

(* program_size_ is Len(program) words of four bytes. *)
ReadWord(address) ==
  IF address % 4 # 0 \/ address > 4 * Len(program)
  THEN [data |-> NoWord, status |-> "access_fault"]
  ELSE IF address = 4 * Len(program)
       THEN [data |-> NoWord, status |-> "end"]
       ELSE [data |-> program[address \div 4 + 1], status |-> "ok"]

NoResponse == [valid |-> FALSE, data |-> NoWord, status |-> "reserved"]

MemInit ==
  /\ mem_state = "AcceptingRequest"
  /\ request_wait_count = 0 /\ response_cycles_remaining = 0 /\ pending_address = 0
  /\ mem_req_ready = (timing.request_wait_cycles = 0)
  /\ mem_rsp = NoResponse

reset_protocol ==
  /\ mem_state' = "AcceptingRequest"
  /\ request_wait_count' = 0 /\ response_cycles_remaining' = 0 /\ pending_address' = 0
  /\ mem_req_ready' = (timing.request_wait_cycles = 0)
  /\ mem_rsp' = NoResponse
  /\ UNCHANGED <<program, timing>>

(* The cycles a presented request has waited, up to those it must wait.    *)
Waited_uncapped(req_valid) == IF ~req_valid THEN 0 ELSE request_wait_count + 1
Waited(req_valid) ==
  IF ~req_valid THEN 0
  ELSE IF request_wait_count < timing.request_wait_cycles THEN request_wait_count + 1
  ELSE request_wait_count

AcceptRequest(req_valid, req_addr) ==
  LET wait  == timing.request_wait_cycles
      taken == req_valid /\ mem_req_ready
      ready == IF request_wait_count < wait THEN Waited(req_valid) = wait ELSE mem_req_ready
  IN /\ mem_state = "AcceptingRequest"
     /\ mem_rsp' = [mem_rsp EXCEPT !.valid = FALSE]
     /\ request_wait_count' = IF wait = 0 THEN request_wait_count ELSE Waited(req_valid)
     /\ mem_req_ready' = (~taken /\ (wait = 0 \/ (req_valid /\ ready)))
     /\ mem_state' = IF taken THEN "WaitingForResponse" ELSE mem_state
     /\ pending_address' = IF taken THEN req_addr ELSE pending_address
     /\ response_cycles_remaining' =
          IF taken THEN timing.response_latency_cycles ELSE response_cycles_remaining

latency_left_reloaded ==
  IF response_cycles_remaining > 1 THEN response_cycles_remaining - 1
  ELSE timing.response_latency_cycles
latency_left == IF response_cycles_remaining > 1 THEN response_cycles_remaining - 1 ELSE 0

WaitForResponse ==
  LET word == ReadWord(pending_address)
      answer == latency_left = 0
  IN /\ mem_state = "WaitingForResponse"
     /\ mem_req_ready' = FALSE
     /\ response_cycles_remaining' = latency_left
     /\ mem_state' = IF answer THEN "HoldingResponse" ELSE mem_state
     /\ mem_rsp' = IF answer
                   THEN [valid |-> TRUE, data |-> word.data, status |-> word.status]
                   ELSE mem_rsp
     /\ UNCHANGED <<request_wait_count, pending_address>>

HoldResponse(rsp_ready) ==
  LET taken == mem_rsp.valid /\ rsp_ready
  IN /\ mem_state = "HoldingResponse"
     /\ mem_rsp' = [mem_rsp EXCEPT !.valid = ~taken /\ @]
     /\ mem_state' = IF taken THEN "AcceptingRequest" ELSE mem_state
     /\ request_wait_count' = IF taken THEN 0 ELSE request_wait_count
     /\ mem_req_ready' = (taken /\ timing.request_wait_cycles = 0)
     /\ UNCHANGED <<response_cycles_remaining, pending_address>>

MemTick(req_valid, req_addr, rsp_ready) ==
  /\ \/ AcceptRequest(req_valid, req_addr)
     \/ WaitForResponse
     \/ HoldResponse(rsp_ready)
  /\ UNCHANGED <<program, timing>>
=============================================================================
