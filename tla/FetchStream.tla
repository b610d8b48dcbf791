---------------------------- MODULE FetchStream ----------------------------
(***************************************************************************)
(* What the fetch unit and the memory promise the pipeline: the words of   *)
(* one path of the program, in address order from the last redirect, each  *)
(* with the contents the memory has at its address.  The first word that   *)
(* is not an instruction (end of program, access fault) ends the path, as  *)
(* a stop does; only a redirect or a reset begins another.  A step takes   *)
(* the inputs of a clock edge, and they determine it but for one thing:    *)
(* when the next word arrives.                                             *)
(***************************************************************************)
EXTENDS Integers

CONSTANTS Redirects,      \* the redirect wire: records [valid, pc]
          NextAddress(_), \* the address after one
          Nowhere,        \* the path has ended
          NoFetch         \* no word is waiting

VARIABLES memory,         \* [data, status] at each address; loaded once
          next,           \* address of the next word of the path, or Nowhere
          word            \* the fetched word waiting for the frontend, or NoFetch

StreamInit == next = 0 /\ word = NoFetch

Fetched(a) == [pc |-> a, instruction |-> memory[a].data, status |-> memory[a].status]

(* A new path begins; a word of the old path is dropped.                   *)
Restart(pc) == word' = NoFetch /\ next' = pc

(* The path ends; a word not yet taken is dropped.                         *)
StopPath == word' = NoFetch /\ next' = Nowhere

(* A word waits until the frontend has room for it, and none passes it.    *)
Hold(out_ready) ==
  /\ word # NoFetch
  /\ word' = IF out_ready THEN NoFetch ELSE word
  /\ next' = next

(* The next word of the path arrives, into an empty register.              *)
Deliver ==
  /\ word = NoFetch /\ next # Nowhere
  /\ word' = Fetched(next)
  /\ next' = IF memory[next].status = "ok" THEN NextAddress(next) ELSE Nowhere

(* It has not arrived, or there is none.                                   *)
Await == word = NoFetch /\ word' = NoFetch /\ next' = next

(* A clock edge: a redirect wins over a stop, and both over the words.     *)
Step(stop, redirect, out_ready) ==
  /\ \/ redirect.valid /\ Restart(redirect.pc)
     \/ ~redirect.valid /\ stop /\ StopPath
     \/ ~redirect.valid /\ ~stop /\ (Hold(out_ready) \/ Deliver \/ Await)
  /\ memory' = memory

Reset == Restart(0) /\ memory' = memory

StreamNext ==
  \/ Reset
  \/ \E stop, out_ready \in BOOLEAN, redirect \in Redirects : Step(stop, redirect, out_ready)

StreamSpec == StreamInit /\ [][StreamNext]_<<memory, next, word>>
=============================================================================
