---------------------------- MODULE PacketQueue ----------------------------
(***************************************************************************)
(* The ordered two-port queue of the frontend (lib/packet_queue.sv), which *)
(* is the instruction fifo and both frontend pipeline registers.  q holds  *)
(* data_q[0 .. count_q-1].  Space released on an edge becomes available on *)
(* the following cycle.                                                    *)
(***************************************************************************)
EXTENDS Integers, Sequences

CONSTANT Depth
VARIABLE q

push_capacity == IF Depth - Len(q) >= 2 THEN 2 ELSE Depth - Len(q)
pop_available == IF Len(q) >= 2 THEN 2 ELSE Len(q)
pop_data == SubSeq(q, 1, pop_available)

QueueInit == q = <<>>

(* push is the sequence of the words pushed, pop_count a prefix length.    *)
QueueTick(flush, push, pop_count) ==
  q' = IF flush THEN <<>> ELSE SubSeq(q, pop_count + 1, Len(q)) \o push
=============================================================================
