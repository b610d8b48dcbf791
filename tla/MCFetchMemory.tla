--------------------------- MODULE MCFetchMemory ---------------------------
(* Two programs, of one and of two words, in an address space of four,     *)
(* so that redirects reach words, the end of the program and addresses     *)
(* past it, and pc wraps.                                                  *)
EXTENDS FetchMemory

MCPrograms == {<<1>>, <<1, 2>>}
MCTimings ==
  { [request_wait_cycles |-> 0, response_latency_cycles |-> 1],
    [request_wait_cycles |-> 2, response_latency_cycles |-> 3] }
=============================================================================
