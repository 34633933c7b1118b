----------------------------- MODULE IrqQueues -----------------------------
(***************************************************************************)
(* What GSP promises to the threads that registered for its interrupts     *)
(* (src/services/gsp_gpu.c): each has a queue, first in, first out.  Every *)
(* interrupt goes to all queues; only the two of the display, which come   *)
(* all the time, are left out of a queue that already has many.  A queue   *)
(* that was not emptied in time promises nothing any more.                 *)
(***************************************************************************)
EXTENDS Naturals, Sequences

CONSTANTS Queue,              \* one for each thread that can register
          Interrupt,          \* what is put into them
          Display,            \* the interrupts that may be left out
          Enough,             \* from this many on
          Capacity            \* how many a queue can hold

VARIABLES pending,            \* the interrupts in each queue, the oldest first
          overrun             \* the queues that promise nothing

vars == <<pending, overrun>>

Init == /\ pending = [q \in Queue |-> <<>>]
        /\ overrun = {}

LeftOut(q, id) == id \in Display /\ Len(pending[q]) >= Enough

(* An interrupt happens.  A queue only overruns when it was full.          *)
Deliver(id) ==
  /\ overrun \subseteq overrun'
  /\ \A q \in overrun' \ overrun : Len(pending[q]) = Capacity
  /\ \A q \in Queue \ overrun' :
       pending'[q] = IF LeftOut(q, id) THEN pending[q] ELSE Append(pending[q], id)

(* A thread takes the oldest interrupt of its queue. *)
Take(q) == /\ q \notin overrun => /\ pending[q] # <<>>
                                  /\ pending'[q] = Tail(pending[q])
           /\ \A r \in Queue \ {q} : pending'[r] = pending[r]
           /\ UNCHANGED overrun

(* A thread registers and starts with an empty queue. *)
Register(q) == /\ pending' = [pending EXCEPT ![q] = <<>>]
               /\ overrun' = overrun \ {q}

Next == \/ \E id \in Interrupt : Deliver(id)
        \/ \E q \in Queue : Take(q) \/ Register(q)

Spec == Init /\ [][Next]_vars
=============================================================================
