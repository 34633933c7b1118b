-------------------------- MODULE GspQueue_proofs --------------------------
(***************************************************************************)
(* Theorems about the interrupt relay queues of GSP, for any number of     *)
(* queues, any size of a queue and any bytes it fits in: no wake-up is     *)
(* lost, the display leaves room for completions, and the rings in the     *)
(* shared memory are the queues of IrqQueues.                              *)
(***************************************************************************)
EXTENDS GspQueue, FiniteSetTheorems, SequenceTheorems, TLAPS

(* The inductive invariant.  A queue that has not overrun has no more      *)
(* entries in use than there are, and after the first Enough of them none  *)
(* of the display.                                                         *)
RingInv ==
  \A q \in Queue \ overrun :
    /\ queue[q].inuse <= Slots
    /\ \A n \in 1 .. queue[q].inuse : n > Enough => Contents(queue[q])[n] \notin Display

GspInv == GspTypeOK /\ RingInv

-----------------------------------------------------------------------------
(* Arithmetic of the ring.                                                 *)

(* The constants are numbers, and a queue's entries fit in a byte twice.   *)
LEMMA Sizes ==
  /\ Queues \in Nat \ {0} /\ MaxRegistrations \in Nat \ {0} /\ Slots \in Nat /\ Enough \in Nat
  /\ Byte \in Nat /\ 0 < Enough /\ Enough < Slots /\ 2 * Slots <= Byte
BY QueuesAssumption, SlotsAssumption

(* One turn around the ring at most.                                       *)
LEMMA OneTurn ==
  ASSUME NEW x \in Nat, x < 2 * Slots
  PROVE  x % Slots = IF x < Slots THEN x ELSE x - Slots
<1>1. Slots \in Nat /\ Slots > 0
  BY Sizes
<1>2. CASE x < Slots
  BY <1>1, <1>2
<1>3. CASE ~ (x < Slots)
  BY <1>1, <1>3
<1>4. QED
  BY <1>2, <1>3

(* The entries of a ring are a sequence of interrupts, as long as the      *)
(* count says.                                                             *)
LEMMA ContentsSeq ==
  ASSUME NEW q \in Ring
  PROVE  /\ Contents(q) \in Seq(Interrupt)
         /\ Len(Contents(q)) = q.inuse /\ q.inuse \in Nat
         /\ DOMAIN Contents(q) = 1 .. q.inuse
         /\ \A n \in 1 .. q.inuse : Contents(q)[n] = q.ids[(q.head + n - 1) % Slots]
<1> DEFINE e(n) == q.ids[(q.head + n - 1) % Slots]
<1>1. /\ q.head \in Nat /\ q.inuse \in Nat /\ Slots \in Nat /\ Slots > 0
      /\ q.ids \in [Entry -> Interrupt]
  BY Sizes DEF Ring, Entry
<1>2. ASSUME NEW n \in 1 .. q.inuse PROVE e(n) \in Interrupt
  <2>1. q.head + n - 1 \in Nat
    BY <1>1
  <2>2. (q.head + n - 1) % Slots \in Entry
    BY <1>1, <2>1 DEF Entry
  <2>3. QED
    BY <1>1, <2>2
<1>3. Contents(q) = [n \in 1 .. q.inuse |-> e(n)]
  BY DEF Contents
<1> HIDE DEF e
<1>4. Contents(q) \in Seq(Interrupt) /\ Len(Contents(q)) = q.inuse
  BY <1>1, <1>2, <1>3, IsASeq
<1>5. QED
  BY <1>1, <1>3, <1>4 DEF e

(* Two of the next Slots places are different entries.                     *)
LEMMA PlacesDiffer ==
  ASSUME NEW h \in Entry, NEW n \in 1 .. Slots, NEW m \in 1 .. Slots, n < m
  PROVE  /\ (h + n - 1) % Slots \in Entry /\ (h + m - 1) % Slots \in Entry
         /\ (h + n - 1) % Slots # (h + m - 1) % Slots
<1> DEFINE x == h + n - 1
           y == h + m - 1
<1>1. /\ x \in Nat /\ y \in Nat /\ x < 2 * Slots /\ y < 2 * Slots
      /\ x < y /\ y < x + Slots /\ Slots \in Nat
  BY Sizes DEF Entry
<1> HIDE DEF x, y
<1>2. /\ x % Slots = IF x < Slots THEN x ELSE x - Slots
      /\ y % Slots = IF y < Slots THEN y ELSE y - Slots
  BY <1>1, OneTurn
<1>3. x % Slots \in Entry /\ y % Slots \in Entry /\ x % Slots # y % Slots
  BY <1>1, <1>2 DEF Entry
<1>4. QED
  BY <1>3 DEF x, y

(* Sums below Byte do not wrap around.                                     *)
LEMMA InByte == ASSUME NEW x \in Nat, x < Byte PROVE x % Byte = x
BY Sizes

(* What Put writes, and where.                                             *)
LEMMA PutFields ==
  ASSUME NEW q \in Ring, NEW id \in Interrupt, ~ LeavesOut(q, id)
  PROVE  /\ Put(q, id) \in Ring
         /\ Put(q, id).head = q.head
         /\ Put(q, id).inuse = (q.inuse + 1) % Byte
         /\ Put(q, id).ids = [q.ids EXCEPT ![NextEntry(q)] = id]
<1>1. Put(q, id) = [q EXCEPT !.inuse = (@ + 1) % Byte, !.ids[NextEntry(q)] = id]
  BY DEF Put
<1>2. /\ q.head \in Entry /\ q.inuse \in 0 .. Byte - 1 /\ q.ids \in [Entry -> Interrupt]
  BY DEF Ring
<1>3. (q.inuse + 1) % Byte \in 0 .. Byte - 1
  BY <1>2, Sizes
<1>4. [q.ids EXCEPT ![NextEntry(q)] = id] \in [Entry -> Interrupt]
  BY <1>2
<1>5. QED
  BY <1>1, <1>3, <1>4 DEF Ring

(* In a queue that is not full, the new interrupt comes after all of those *)
(* that are there, and nothing else changes.                               *)
LEMMA PutAppends ==
  ASSUME NEW q \in Ring, NEW id \in Interrupt, ~ LeavesOut(q, id), q.inuse < Slots
  PROVE  /\ Put(q, id).inuse = q.inuse + 1
         /\ Contents(Put(q, id)) = Append(Contents(q), id)
<1>1. /\ q.head \in Nat /\ q.inuse \in Nat /\ q.head < Slots /\ Slots \in Nat
      /\ q.ids \in [Entry -> Interrupt]
  BY Sizes DEF Ring, Entry
<1>2. Put(q, id).inuse = q.inuse + 1
  <2>1. (q.inuse + 1) % Byte = q.inuse + 1
    BY <1>1, Sizes
  <2>2. QED
    BY <2>1, PutFields
<1> DEFINE place(n) == (q.head + n - 1) % Slots
<1>3. NextEntry(q) = place(q.inuse + 1)
  <2>1. (q.head + q.inuse) % Byte = q.head + q.inuse
    BY <1>1, Sizes
  <2>2. q.head + (q.inuse + 1) - 1 = q.head + q.inuse
    BY <1>1
  <2>3. QED
    BY <2>1, <2>2 DEF NextEntry
<1>4. \A n \in 1 .. q.inuse + 1 :
        /\ place(n) \in Entry
        /\ n # q.inuse + 1 => place(n) # place(q.inuse + 1)
  <2>1. q.head \in Entry /\ q.inuse + 1 \in 1 .. Slots
    BY <1>1 DEF Entry
  <2>2. ASSUME NEW n \in 1 .. q.inuse
        PROVE  /\ place(n) \in Entry /\ place(q.inuse + 1) \in Entry
               /\ place(n) # place(q.inuse + 1)
    BY <1>1, <2>1, PlacesDiffer
  <2>3. place(q.inuse + 1) \in Entry
    <3>1. q.head + (q.inuse + 1) - 1 \in Nat
      BY <1>1
    <3>2. QED
      BY <1>1, <3>1 DEF Entry
  <2> HIDE DEF place
  <2>4. QED
    BY <1>1, <2>2, <2>3
<1>5. Contents(Put(q, id)) = [n \in 1 .. q.inuse + 1 |->
                                [q.ids EXCEPT ![place(q.inuse + 1)] = id][place(n)]]
  BY <1>2, <1>3, PutFields DEF Contents
<1>6. Contents(q) = [n \in 1 .. q.inuse |-> q.ids[place(n)]]
  BY DEF Contents
<1> HIDE DEF place
<1>7. \A n \in 1 .. q.inuse + 1 :
        [q.ids EXCEPT ![place(q.inuse + 1)] = id][place(n)]
          = IF n = q.inuse + 1 THEN id ELSE q.ids[place(n)]
  BY <1>1, <1>4
<1>8. Contents(Put(q, id)) = [n \in 1 .. q.inuse + 1 |->
                                IF n = q.inuse + 1 THEN id ELSE q.ids[place(n)]]
  BY <1>5, <1>7
<1>9. /\ Contents(q) \in Seq(Interrupt) /\ Len(Contents(q)) = q.inuse
      /\ Contents(Put(q, id)) \in Seq(Interrupt)
  BY ContentsSeq, PutFields
<1>10. \A n \in 1 .. q.inuse + 1 : Contents(Put(q, id))[n] = Append(Contents(q), id)[n]
  BY <1>1, <1>6, <1>8, <1>9, AppendProperties
<1>11. /\ Append(Contents(q), id) \in Seq(Interrupt)
       /\ Len(Append(Contents(q), id)) = q.inuse + 1
       /\ Len(Contents(Put(q, id))) = q.inuse + 1
  <2>1. Append(Contents(q), id) \in Seq(Interrupt) /\ Len(Append(Contents(q), id)) = q.inuse + 1
    BY <1>9, AppendProperties
  <2>2. Len(Contents(Put(q, id))) = Put(q, id).inuse
    BY PutFields, ContentsSeq
  <2>3. QED
    BY <1>2, <2>1, <2>2
<1>12. QED
  BY <1>2, <1>9, <1>10, <1>11, SeqEqual

(* A client takes the oldest interrupt and leaves the others in order.     *)
LEMMA TakenIsTail ==
  ASSUME NEW q \in Ring, q.inuse > 0
  PROVE  /\ Taken(q) \in Ring
         /\ Taken(q).inuse = q.inuse - 1
         /\ q.inuse <= Slots => /\ Contents(q) # <<>>
                               /\ Contents(Taken(q)) = Tail(Contents(q))
<1>1. /\ q.head \in Nat /\ q.inuse \in Nat /\ q.head < Slots /\ Slots \in Nat
      /\ q.inuse \in 0 .. Byte - 1 /\ Byte \in Nat /\ q.ids \in [Entry -> Interrupt]
  BY Sizes DEF Ring, Entry
<1> DEFINE head == (q.head + 1) % Slots
<1>2. head = IF q.head + 1 < Slots THEN q.head + 1 ELSE 0
  <2> DEFINE x == q.head + 1
  <2>1. x \in Nat /\ x < 2 * Slots
    BY <1>1
  <2> HIDE DEF x
  <2>2. x % Slots = IF x < Slots THEN x ELSE x - Slots
    BY <2>1, OneTurn
  <2>a. head = IF q.head + 1 < Slots THEN q.head + 1 ELSE q.head + 1 - Slots
    BY <1>1, <2>2 DEF x
  <2> HIDE DEF head
  <2>3. QED
    BY <1>1, <2>a
<1>3. /\ Taken(q).head = head /\ Taken(q).inuse = q.inuse - 1 /\ Taken(q).ids = q.ids
      /\ Taken(q) = [head |-> head, inuse |-> q.inuse - 1, ids |-> q.ids]
  <2>1. Taken(q) = [q EXCEPT !.head = (q.head + 1) % Slots, !.inuse = q.inuse - 1]
    BY DEF Taken
  <2>2. q = [head |-> q.head, inuse |-> q.inuse, ids |-> q.ids]
    BY DEF Ring
  <2>3. QED
    BY <2>1, <2>2
<1> HIDE DEF head
<1>4. Taken(q) \in Ring
  BY <1>1, <1>2, <1>3 DEF Ring, Entry
<1>5. ASSUME q.inuse <= Slots
      PROVE  /\ Contents(q) # <<>>
             /\ Contents(Taken(q)) = Tail(Contents(q))
  <2>1. /\ Contents(q) \in Seq(Interrupt) /\ Len(Contents(q)) = q.inuse
        /\ Contents(Taken(q)) \in Seq(Interrupt) /\ Len(Contents(Taken(q))) = q.inuse - 1
        /\ Contents(q) # <<>>
    BY <1>1, <1>3, <1>4, ContentsSeq
  <2>2. ASSUME NEW n \in 1 .. q.inuse - 1
        PROVE  (head + n - 1) % Slots = (q.head + n) % Slots
    <3>1. /\ q.head + n \in Nat /\ q.head + n < 2 * Slots
          /\ head + n - 1 \in Nat /\ head + n - 1 < 2 * Slots
      BY <1>1, <1>2, <1>5
    <3>2. CASE q.head + 1 < Slots
      BY <1>1, <1>2, <3>2
    <3>3. CASE ~ (q.head + 1 < Slots)
      <4>1. head + n - 1 = n - 1 /\ q.head + n = Slots + (n - 1) /\ n - 1 \in Nat /\ n - 1 < Slots
        BY <1>1, <1>2, <1>5, <3>3
      <4>2. (q.head + n) % Slots = q.head + n - Slots
        BY <1>1, <3>1, <4>1, OneTurn
      <4>3. (head + n - 1) % Slots = head + n - 1
        BY <1>1, <3>1, <4>1, OneTurn
      <4>4. QED
        BY <1>1, <4>1, <4>2, <4>3
    <3>4. QED
      BY <3>2, <3>3
  <2>3. ASSUME NEW n \in 1 .. q.inuse - 1
        PROVE  Contents(Taken(q))[n] = Contents(q)[n + 1]
    <3>1. n + 1 \in 1 .. q.inuse /\ q.head + (n + 1) - 1 = q.head + n
      BY <1>1
    <3>2. Contents(q)[n + 1] = q.ids[(q.head + n) % Slots]
      BY <3>1, ContentsSeq
    <3>3. Contents(Taken(q))[n] = q.ids[(head + n - 1) % Slots]
      BY <1>3, <1>4, ContentsSeq
    <3>4. QED
      BY <2>2, <3>2, <3>3
  <2>4. /\ Tail(Contents(q)) \in Seq(Interrupt) /\ Len(Tail(Contents(q))) = q.inuse - 1
        /\ \A n \in 1 .. q.inuse - 1 : Tail(Contents(q))[n] = Contents(q)[n + 1]
    BY <2>1, HeadTailProperties
  <2>5. QED
    BY <2>1, <2>3, <2>4, SeqEqual
<1>6. QED
  BY <1>3, <1>4, <1>5

-----------------------------------------------------------------------------
(* The steps of the emulator and of the clients.                           *)

(* Putting an interrupt in keeps the types, also of a queue that overruns. *)
LEMMA PutKeepsRing ==
  ASSUME NEW q \in Ring, NEW id \in Interrupt
  PROVE  Put(q, id) \in Ring
<1>1. CASE LeavesOut(q, id)
  BY <1>1 DEF Put
<1>2. QED
  BY <1>1, PutFields

(* An interrupt keeps the types and the invariant of the rings.            *)
LEMMA SendKeepsInv ==
  ASSUME GspInv, NEW id \in Interrupt, gpu_SendInterruptToAll(id)
  PROVE  /\ queue' \in [Queue -> Ring]
         /\ unlocked' \subseteq ThreadID
         /\ overrun' \subseteq Queue
         /\ RingInv'
<1> USE DEF GspInv, GspTypeOK
<1>1. CASE trigevent = NoThread
  BY <1>1 DEF gpu_SendInterruptToAll, RingInv
<1>2. CASE trigevent # NoThread
  <2>1. /\ queue' = [q \in Queue |-> Put(queue[q], id)]
        /\ unlocked' = unlocked \cup {trigevent}
        /\ overrun' = overrun \cup {q \in Queue : Put(queue[q], id).inuse > Slots}
    BY <1>2 DEF gpu_SendInterruptToAll, Signalled
  <2>2. queue' \in [Queue -> Ring] /\ unlocked' \subseteq ThreadID /\ overrun' \subseteq Queue
    BY <1>2, <2>1, PutKeepsRing
  <2>3. ASSUME NEW q \in Queue \ overrun'
        PROVE  /\ queue'[q].inuse <= Slots
               /\ \A n \in 1 .. queue'[q].inuse :
                    n > Enough => Contents(queue'[q])[n] \notin Display
    <3>1. /\ q \in Queue \ overrun /\ queue[q] \in Ring /\ queue'[q] = Put(queue[q], id)
          /\ Put(queue[q], id) \in Ring /\ ~ (Put(queue[q], id).inuse > Slots)
      BY <2>1, PutKeepsRing
    <3>2. CASE LeavesOut(queue[q], id)
      BY <3>1, <3>2 DEF Put, RingInv
    <3>3. CASE ~ LeavesOut(queue[q], id)
      <4>1. queue[q].inuse \in Nat /\ queue[q].inuse <= Slots
        BY <3>1, ContentsSeq DEF RingInv
      <4>2. queue[q].inuse # Slots
        <5>1. ASSUME queue[q].inuse = Slots PROVE FALSE
          <6>1. Put(queue[q], id).inuse = (Slots + 1) % Byte
            BY <3>1, <3>3, <5>1, PutFields
          <6>2. (Slots + 1) % Byte = Slots + 1
            <7>1. Slots + 1 < Byte /\ Slots + 1 \in Nat /\ Byte \in Nat
              BY Sizes
            <7>2. QED
              BY <7>1, InByte
          <6>3. QED
            BY <3>1, <6>1, <6>2, Sizes
        <5>2. QED
          BY <5>1
      <4>3. /\ queue[q].inuse < Slots
            /\ queue'[q].inuse = queue[q].inuse + 1
            /\ Contents(queue'[q]) = Append(Contents(queue[q]), id)
        BY <3>1, <3>3, <4>1, <4>2, Sizes, PutAppends
      <4>4. ASSUME NEW n \in 1 .. queue'[q].inuse, n > Enough
            PROVE  Contents(queue'[q])[n] \notin Display
        <5>1. CASE n = queue[q].inuse + 1
          <6>1. id \notin Display
            BY <3>3, <4>1, <4>4, <5>1, Sizes DEF LeavesOut
          <6>2. QED
            BY <3>1, <4>3, <5>1, <6>1, ContentsSeq, AppendProperties
        <5>2. CASE n # queue[q].inuse + 1
          <6>1. n \in 1 .. queue[q].inuse
            BY <4>1, <4>3, <5>2
          <6>2. Contents(queue'[q])[n] = Contents(queue[q])[n]
            BY <3>1, <4>3, <6>1, ContentsSeq, AppendProperties
          <6>3. QED
            BY <3>1, <4>4, <6>1, <6>2 DEF RingInv
        <5>3. QED
          BY <5>1, <5>2
      <4>5. queue'[q].inuse <= Slots
        BY <4>1, <4>3, Sizes
      <4>6. QED
        BY <4>4, <4>5
    <3>4. QED
      BY <3>2, <3>3
  <2>4. QED
    BY <2>2, <2>3 DEF RingInv
<1>3. QED
  BY <1>1, <1>2

(* What a command raises is an interrupt.                                  *)
LEMMA RaisesInterrupts == \A c \in DOMAIN Raises : Raises[c] \in Interrupt
BY DEF Raises, Interrupt, DMA, P3D, PSC0, PPF, PSC1

(* The invariant, action by action.                                        *)
LEMMA GspInvStep ==
  ASSUME GspInv, [Next]_vars
  PROVE  GspInv'
<1> USE DEF GspInv, GspTypeOK
<1>a. /\ MaxRegistrations \in Nat /\ Queues \in Nat /\ NoThread \notin ThreadID
      /\ Display \subseteq Interrupt
  BY Sizes DEF NoThread, ThreadID, Display, Interrupt, PDC0, PDC1
<1>1. CASE DisplayInterrupt
  <2>1. PICK id \in Interrupt : gpu_SendInterruptToAll(id)
    BY <1>a, <1>1 DEF DisplayInterrupt
  <2>2. QED
    BY <1>1, <2>1, SendKeepsInv DEF DisplayInterrupt
<1>2. CASE ExecuteCommand
  <2>1. /\ commands' \in [Queue -> Seq(ClientCommands)]
        /\ UNCHANGED <<numReqQueue, trigevent, awake, looked, i>>
    <3>1. i \in Queue /\ commands[i] \in Seq(ClientCommands) /\ commands[i] # <<>>
      BY <1>2, <1>a DEF ExecuteCommand, Executing, Queue
    <3>2. Tail(commands[i]) \in Seq(ClientCommands)
      BY <3>1, HeadTailProperties
    <3>3. QED
      BY <1>2, <3>2 DEF ExecuteCommand
  <2>2. CASE UNCHANGED <<queue, unlocked, overrun>>
    BY <2>1, <2>2 DEF RingInv
  <2>3. CASE \E id \in Interrupt : gpu_SendInterruptToAll(id)
    BY <2>1, <2>3, SendKeepsInv
  <2>4. QED
    BY <1>2, <2>2, <2>3, RaisesInterrupts DEF ExecuteCommand
<1>3. CASE NextClient
  <2>1. i' \in 0 .. Queues
    BY <1>3, <1>a DEF NextClient, Executing
  <2>2. QED
    BY <1>3, <2>1 DEF NextClient, RingInv
<1>4. CASE RegisterBadEvent
  <2>1. numReqQueue' \in 1 .. MaxRegistrations + 1
    BY <1>4, <1>a DEF RegisterBadEvent
  <2>2. QED
    BY <1>4, <2>1 DEF RegisterBadEvent, RingInv
<1>5. CASE RegisterInterruptRelayQueue
  <2> DEFINE u == numReqQueue
  <2>1. /\ numReqQueue' \in 1 .. MaxRegistrations + 1 /\ u \in ThreadID
        /\ trigevent' = u /\ unlocked' = unlocked \cup {u} /\ awake' = awake \cup {u}
        /\ queue' = Emptied(u) /\ overrun' = overrun \ {u}
        /\ UNCHANGED <<looked, commands, i>>
    BY <1>5, <1>a DEF RegisterInterruptRelayQueue, ThreadID
  <2> HIDE DEF u
  <2>2. u \in Queue => [head |-> 0, inuse |-> 0,
                       ids |-> [e \in Entry |-> IF e \in Stray(u) THEN 0 ELSE queue[u].ids[e]]]
                      \in Ring
    BY Sizes DEF Ring, Entry, Interrupt
  <2>3. queue' \in [Queue -> Ring]
    BY <2>1, <2>2 DEF Emptied
  <2>4. ASSUME NEW q \in Queue \ overrun'
        PROVE  /\ queue'[q].inuse <= Slots
               /\ \A n \in 1 .. queue'[q].inuse :
                    n > Enough => Contents(queue'[q])[n] \notin Display
    <3>1. CASE q = u
      BY <2>1, <3>1, Sizes DEF Emptied
    <3>2. CASE q # u
      BY <2>1, <3>2 DEF Emptied, RingInv
    <3>3. QED
      BY <3>1, <3>2
  <2>5. QED
    BY <2>1, <2>3, <2>4 DEF RingInv
<1>6. ASSUME NEW c \in Registered, TakeInterrupt(c)
      PROVE  GspInv'
  <2>1. /\ c \in Queue /\ queue[c] \in Ring /\ queue[c].inuse > 0
        /\ queue' = [queue EXCEPT ![c] = Taken(queue[c])]
        /\ UNCHANGED <<numReqQueue, trigevent, unlocked, awake, looked, commands, i, overrun>>
    BY <1>6 DEF TakeInterrupt
  <2>2. Taken(queue[c]) \in Ring
    BY <2>1, TakenIsTail
  <2>3. ASSUME NEW q \in Queue \ overrun'
        PROVE  /\ queue'[q].inuse <= Slots
               /\ \A n \in 1 .. queue'[q].inuse :
                    n > Enough => Contents(queue'[q])[n] \notin Display
    <3>1. CASE q # c
      BY <2>1, <3>1 DEF RingInv
    <3>2. CASE q = c
      <4>1. /\ queue[c].inuse <= Slots /\ queue[c].inuse \in Nat
            /\ queue'[c] = Taken(queue[c]) /\ queue'[c].inuse = queue[c].inuse - 1
            /\ Contents(queue'[c]) = Tail(Contents(queue[c]))
        BY <2>1, <3>2, TakenIsTail, ContentsSeq DEF RingInv
      <4>2. ASSUME NEW n \in 1 .. queue[c].inuse - 1, n > Enough
            PROVE  Contents(queue'[c])[n] \notin Display
        <5>1. Contents(queue[c]) # <<>> /\ Len(Contents(queue[c])) = queue[c].inuse
          BY <2>1, <4>1, TakenIsTail, ContentsSeq
        <5>2. Contents(queue'[c])[n] = Contents(queue[c])[n + 1]
          <6>1. Contents(queue[c]) \in Seq(Interrupt)
            BY <2>1, ContentsSeq
          <6>2. \A m \in 1 .. Len(Tail(Contents(queue[c]))) :
                  Tail(Contents(queue[c]))[m] = Contents(queue[c])[m + 1]
            BY <5>1, <6>1, HeadTailProperties
          <6>3. Len(Tail(Contents(queue[c]))) = queue[c].inuse - 1
            BY <5>1, <6>1, HeadTailProperties
          <6>4. QED
            BY <4>1, <6>2, <6>3
        <5>3. n + 1 \in 1 .. queue[c].inuse /\ n + 1 > Enough
          BY <4>1, <4>2, Sizes
        <5>4. QED
          BY <2>1, <3>2, <5>2, <5>3 DEF RingInv
      <4>3. queue'[c].inuse <= Slots
        BY <4>1, Sizes
      <4>4. QED
        BY <3>2, <4>1, <4>2, <4>3
    <3>3. QED
      BY <3>1, <3>2
  <2>4. QED
    BY <2>1, <2>2, <2>3 DEF RingInv
<1>7. ASSUME NEW c \in Registered, FindEmpty(c) \/ WaitForEvent(c) \/ WakeUp(c)
      PROVE  GspInv'
  <2>1. c \in ThreadID
    BY <1>a DEF Registered, ThreadID
  <2>2. QED
    BY <1>7, <2>1 DEF FindEmpty, WaitForEvent, WakeUp, RingInv
<1>8. ASSUME NEW c \in Registered, NEW x \in ClientCommands, WriteCommand(c, x)
      PROVE  GspInv'
  <2>1. c \in Queue /\ Append(commands[c], x) \in Seq(ClientCommands)
    BY <1>8, AppendProperties DEF WriteCommand
  <2>2. QED
    BY <1>8, <2>1 DEF WriteCommand, RingInv
<1>9. CASE TriggerCmdReqQueue
  BY <1>9, <1>a DEF TriggerCmdReqQueue, RingInv
<1>10. CASE UNCHANGED vars
  BY <1>10 DEF vars, RingInv
<1>11. QED
  BY <1>1, <1>2, <1>3, <1>4, <1>5, <1>6, <1>7, <1>8, <1>9, <1>10 DEF Next, Client

(* Initially all queues are empty, and nobody has registered.              *)
LEMMA GspInvInit == Init => GspInv
<1> SUFFICES ASSUME Init PROVE GspInv
  OBVIOUS
<1>1. [head |-> 0, inuse |-> 0, ids |-> [e \in Entry |-> 0]] \in Ring
  BY Sizes DEF Ring, Entry, Interrupt
<1>2. queue \in [Queue -> Ring] /\ commands \in [Queue -> Seq(ClientCommands)]
  BY <1>1 DEF Init
<1>3. GspTypeOK
  BY <1>2, Sizes DEF Init, GspTypeOK
<1>4. RingInv
  BY Sizes DEF Init, RingInv
<1>5. QED
  BY <1>3, <1>4 DEF GspInv

(* The inductive invariant of the relay queues.                            *)
THEOREM GspInvariance == Spec => []GspInv
<1>1. Init => GspInv
  BY GspInvInit
<1>2. GspInv /\ [Next]_vars => GspInv'
  BY GspInvStep
<1>3. QED
  BY <1>1, <1>2, PTL DEF Spec

(* The heads and counts stay within the ring and the byte, and IDs within  *)
(* what has been given out.                                                *)
THEOREM GspTypeCorrect == Spec => []GspTypeOK
<1>1. GspInv => GspTypeOK
  BY DEF GspInv
<1>2. QED
  BY <1>1, GspInvariance, PTL

(* gpu_SendInterruptToAll leaves an interrupt of the display out of a      *)
(* queue that has more than 0x20: the display alone never fills it.        *)
THEOREM DisplayLeavesRoom == Spec => []RoomForCompletions
<1>1. GspInv => RoomForCompletions
  <2> SUFFICES ASSUME GspInv, NEW q \in Queue
               PROVE  Cardinality({n \in DOMAIN Pending(q) : Pending(q)[n] \in Display}) <= Enough
    BY DEF RoomForCompletions
  <2> DEFINE S == {n \in DOMAIN Pending(q) : Pending(q)[n] \in Display}
  <2>1. S \subseteq 1 .. Enough
    <3>1. CASE q \in overrun
      BY <3>1 DEF Pending
    <3>2. CASE q \notin overrun
      <4>1. Pending(q) = Contents(queue[q]) /\ DOMAIN Pending(q) = 1 .. queue[q].inuse
        BY <3>2, ContentsSeq DEF Pending, GspInv, GspTypeOK
      <4>2. \A n \in 1 .. queue[q].inuse : n > Enough => Contents(queue[q])[n] \notin Display
        BY <3>2 DEF GspInv, RingInv
      <4>3. QED
        BY <4>1, <4>2, Sizes
    <3>3. QED
      BY <3>1, <3>2
  <2> HIDE DEF S
  <2>2. IsFiniteSet(1 .. Enough) /\ Cardinality(1 .. Enough) = Enough
    BY Sizes, FS_Interval
  <2>3. Cardinality(S) <= Enough
    BY <2>1, <2>2, FS_Subset
  <2>4. QED
    BY <2>3 DEF S
<1>2. QED
  BY <1>1, GspInvariance, PTL

-----------------------------------------------------------------------------
(* No wake-up is lost: whoever puts an interrupt in unlocks the event of   *)
(* the last client, awake or not, and that client only waits once it has   *)
(* found its queue empty.                                                  *)
LEMMA WakeUpStep ==
  ASSUME GspInv, NoLostWakeUp, [Next]_vars
  PROVE  NoLostWakeUp'
<1> SUFFICES ASSUME NEW c \in Registered' \cap Queue, trigevent' = c,
                    c \notin awake' \/ c \in looked', Contents(queue'[c]) # <<>>
             PROVE  c \in unlocked'
  BY DEF NoLostWakeUp
<1> USE DEF GspInv, GspTypeOK
<1>a. /\ c # NoThread /\ c \in Nat /\ numReqQueue \in Nat /\ MaxRegistrations \in Nat
      /\ queue[c] \in Ring /\ queue'[c] \in Ring
  BY Sizes, GspInvStep DEF Registered, NoThread
<1>1. ASSUME NEW id, gpu_SendInterruptToAll(id), UNCHANGED trigevent
      PROVE  c \in unlocked'
  BY <1>a, <1>1 DEF gpu_SendInterruptToAll, Signalled
<1>2. ASSUME UNCHANGED <<trigevent, unlocked, awake, looked, numReqQueue>>,
             Contents(queue[c]) # <<>>
      PROVE  c \in unlocked'
  BY <1>2 DEF NoLostWakeUp, Registered
<1>3. CASE DisplayInterrupt
  BY <1>1, <1>3 DEF DisplayInterrupt
<1>4. CASE ExecuteCommand
  BY <1>1, <1>2, <1>4 DEF ExecuteCommand
<1>5. CASE NextClient \/ TriggerCmdReqQueue \/ UNCHANGED vars
  BY <1>2, <1>5 DEF NextClient, TriggerCmdReqQueue, vars
<1>6. CASE RegisterBadEvent
  BY <1>a, <1>6 DEF RegisterBadEvent
<1>7. CASE RegisterInterruptRelayQueue
  BY <1>a, <1>7 DEF RegisterInterruptRelayQueue
<1>8. ASSUME NEW u \in Registered, TakeInterrupt(u)
      PROVE  c \in unlocked'
  <2>1. CASE u = c
    BY <1>8, <2>1 DEF TakeInterrupt
  <2>2. CASE u # c
    BY <1>2, <1>8, <2>2 DEF TakeInterrupt
  <2>3. QED
    BY <2>1, <2>2
<1>9. ASSUME NEW u \in Registered, FindEmpty(u)
      PROVE  c \in unlocked'
  <2>1. CASE u = c
    <3>1. queue[c].inuse = 0 /\ queue' = queue
      BY <1>9, <2>1 DEF FindEmpty
    <3>2. Contents(queue[c]) = <<>>
      <4>1. Len(Contents(queue[c])) = 0 /\ Contents(queue[c]) \in Seq(Interrupt)
        BY <1>a, <3>1, ContentsSeq
      <4>2. QED
        BY <4>1, EmptySeq
    <3>3. QED
      BY <3>1, <3>2
  <2>2. CASE u # c
    BY <1>9, <2>2 DEF FindEmpty, NoLostWakeUp, Registered
  <2>3. QED
    BY <2>1, <2>2
<1>10. ASSUME NEW u \in Registered, WaitForEvent(u) \/ WakeUp(u)
       PROVE  c \in unlocked'
  BY <1>10 DEF WaitForEvent, WakeUp, NoLostWakeUp, Registered
<1>11. ASSUME NEW u, NEW x, WriteCommand(u, x)
       PROVE  c \in unlocked'
  BY <1>2, <1>11 DEF WriteCommand
<1>12. QED
  BY <1>3, <1>4, <1>5, <1>6, <1>7, <1>8, <1>9, <1>10, <1>11 DEF Next, Client

(* The client that registered last never waits for a locked event while    *)
(* there is an interrupt in its queue (gpu_SendInterruptToAll, trigevent). *)
THEOREM WakeUpsArrive == Spec => []NoLostWakeUp
<1>1. Init => NoLostWakeUp
  BY DEF Init, NoLostWakeUp, Registered
<1>2. GspInv /\ NoLostWakeUp /\ [Next]_vars => NoLostWakeUp'
  BY WakeUpStep
<1>3. QED
  BY <1>1, <1>2, GspInvariance, PTL DEF Spec

-----------------------------------------------------------------------------
(* The rings are the queues of IrqQueues, step by step.                    *)

(* An interrupt is put into every queue, but for what is left out; and a   *)
(* queue only overruns when it was full.                                   *)
LEMMA SendDelivers ==
  ASSUME GspInv, NEW id \in Interrupt, gpu_SendInterruptToAll(id)
  PROVE  QueuesOf!Deliver(id) \/ UNCHANGED <<queue, overrun>>
<1> USE DEF GspInv, GspTypeOK
<1>1. CASE trigevent = NoThread
  BY <1>1 DEF gpu_SendInterruptToAll
<1>2. CASE trigevent # NoThread
  <2>1. /\ queue' = [q \in Queue |-> Put(queue[q], id)]
        /\ overrun' = overrun \cup {q \in Queue : Put(queue[q], id).inuse > Slots}
    BY <1>2 DEF gpu_SendInterruptToAll
  <2>2. ASSUME NEW q \in Queue, q \notin overrun
        PROVE  /\ queue[q] \in Ring /\ queue[q].inuse \in Nat /\ queue[q].inuse <= Slots
               /\ Pending(q) = Contents(queue[q]) /\ Len(Pending(q)) = queue[q].inuse
               /\ LeavesOut(queue[q], id) <=> id \in Display /\ Len(Pending(q)) >= Enough
    BY <2>2, ContentsSeq DEF Pending, RingInv, LeavesOut
  <2>3. ASSUME NEW q \in Queue, q \notin overrun, LeavesOut(queue[q], id)
        PROVE  queue'[q] = queue[q]
    BY <2>1, <2>3 DEF Put
  <2>4. ASSUME NEW q \in Queue, q \notin overrun, ~ LeavesOut(queue[q], id),
               queue[q].inuse < Slots
        PROVE  Contents(queue'[q]) = Append(Contents(queue[q]), id)
    BY <2>1, <2>2, <2>4, PutAppends
  <2>5. ASSUME NEW q \in Queue, q \notin overrun, ~ LeavesOut(queue[q], id),
               queue[q].inuse = Slots
        PROVE  q \in overrun'
    <3>1. Slots + 1 < Byte /\ Slots + 1 \in Nat /\ Slots + 1 > Slots
      BY Sizes
    <3>2. Put(queue[q], id).inuse = Slots + 1
      BY <2>2, <2>5, <3>1, InByte, PutFields
    <3>3. QED
      BY <2>1, <3>1, <3>2
  <2>6. ASSUME NEW q \in overrun', q \notin overrun
        PROVE  Len(Pending(q)) = Slots
    <3>1. q \in Queue /\ Put(queue[q], id).inuse > Slots
      BY <2>1, <2>6
    <3>2. ~ LeavesOut(queue[q], id)
      BY <2>2, <2>6, <3>1, Sizes DEF Put
    <3>3. ASSUME queue[q].inuse < Slots PROVE FALSE
      BY <2>2, <2>6, <3>1, <3>2, <3>3, Sizes, PutAppends
    <3>4. QED
      BY <2>2, <2>6, <3>1, <3>3, Sizes
  <2>7. ASSUME NEW q \in Queue, q \notin overrun'
        PROVE  Pending(q)' = IF id \in Display /\ Len(Pending(q)) >= Enough
                             THEN Pending(q) ELSE Append(Pending(q), id)
    <3>1. q \notin overrun
      BY <2>1, <2>7
    <3>2. Pending(q)' = Contents(queue'[q])
      BY <2>7 DEF Pending
    <3>3. CASE LeavesOut(queue[q], id)
      BY <2>2, <2>3, <3>1, <3>2, <3>3
    <3>4. CASE ~ LeavesOut(queue[q], id)
      <4>1. queue[q].inuse < Slots
        BY <2>2, <2>5, <2>7, <3>1, <3>4, Sizes
      <4>2. QED
        BY <2>2, <2>4, <3>1, <3>2, <3>4, <4>1
    <3>5. QED
      BY <3>3, <3>4
  <2>8. overrun \subseteq overrun'
    BY <2>1
  <2>9. /\ \A q \in Queue : [r \in Queue |-> Pending(r)][q] = Pending(q)
        /\ \A q \in Queue : ([r \in Queue |-> Pending(r)]')[q] = Pending(q)'
    OBVIOUS
  <2>10. \A q \in overrun' \ overrun : Len([r \in Queue |-> Pending(r)][q]) = Slots
    <3>1. overrun' \subseteq Queue
      BY <2>1
    <3>2. QED
      BY <2>6, <2>9, <3>1
  <2>11. \A q \in Queue \ overrun' :
           ([r \in Queue |-> Pending(r)]')[q]
             = IF id \in Display /\ Len([r \in Queue |-> Pending(r)][q]) >= Enough
                 THEN [r \in Queue |-> Pending(r)][q]
                 ELSE Append([r \in Queue |-> Pending(r)][q], id)
    BY <2>7, <2>9
  <2>12. QED
    BY <2>8, <2>10, <2>11 DEF QueuesOf!Deliver, QueuesOf!LeftOut
<1>3. QED
  BY <1>1, <1>2

(* What leaves the rings alone leaves the queues alone.                    *)
LEMMA QueuesKept ==
  ASSUME UNCHANGED <<queue, overrun>>
  PROVE  UNCHANGED QueuesOf!vars
BY DEF QueuesOf!vars, Pending

(* Every step of GSP and its clients is a step of IrqQueues, or none.      *)
LEMMA QueuesStep ==
  ASSUME GspInv, [Next]_vars
  PROVE  [QueuesOf!Next]_(QueuesOf!vars)
<1> USE DEF GspInv, GspTypeOK
<1>1. ASSUME NEW id \in Interrupt, gpu_SendInterruptToAll(id)
      PROVE  [QueuesOf!Next]_(QueuesOf!vars)
  BY <1>1, SendDelivers, QueuesKept DEF QueuesOf!Next
<1>2. CASE DisplayInterrupt
  <2>1. Display \subseteq Interrupt
    BY DEF Display, Interrupt, PDC0, PDC1
  <2>2. QED
    BY <1>1, <1>2, <2>1 DEF DisplayInterrupt
<1>3. CASE ExecuteCommand
  BY <1>1, <1>3, RaisesInterrupts, QueuesKept DEF ExecuteCommand
<1>4. CASE UNCHANGED <<queue, overrun>>
  BY <1>4, QueuesKept
<1>5. CASE RegisterInterruptRelayQueue
  <2>1. PICK u : queue' = Emptied(u) /\ overrun' = overrun \ {u}
    BY <1>5 DEF RegisterInterruptRelayQueue
  <2>2. CASE u \in Queue
    <3>1. queue'[u].inuse = 0 /\ u \notin overrun'
      BY <2>1, <2>2 DEF Emptied
    <3>2. Pending(u)' = <<>>
      <4>1. queue'[u] \in Ring
        BY <2>2, GspInvStep
      <4>2. Len(Contents(queue'[u])) = 0 /\ Contents(queue'[u]) \in Seq(Interrupt)
        BY <3>1, <4>1, ContentsSeq
      <4>3. QED
        BY <3>1, <4>2, EmptySeq DEF Pending
    <3>3. \A q \in Queue : q # u => Pending(q)' = Pending(q)
      BY <2>1 DEF Emptied, Pending
    <3>4. [q \in Queue |-> Pending(q)]'
            = [[q \in Queue |-> Pending(q)] EXCEPT ![u] = <<>>]
      BY <2>2, <3>2, <3>3
    <3>5. QueuesOf!Register(u)
      BY <2>1, <3>4 DEF QueuesOf!Register
    <3>6. QED
      BY <2>2, <3>5 DEF QueuesOf!Next
  <2>3. CASE u \notin Queue
    <3>1. queue' = queue /\ overrun' = overrun
      BY <2>1, <2>3 DEF Emptied
    <3>2. QED
      BY <3>1, QueuesKept
  <2>4. QED
    BY <2>2, <2>3
<1>6. ASSUME NEW c \in Registered, TakeInterrupt(c)
      PROVE  [QueuesOf!Next]_(QueuesOf!vars)
  <2>1. /\ c \in Queue /\ queue[c] \in Ring /\ queue[c].inuse > 0
        /\ queue' = [queue EXCEPT ![c] = Taken(queue[c])] /\ overrun' = overrun
    BY <1>6 DEF TakeInterrupt
  <2>2. c \notin overrun => Pending(c) # <<>> /\ Pending(c)' = Tail(Pending(c))
    BY <2>1, TakenIsTail DEF Pending, RingInv
  <2>3. \A q \in Queue : q # c => Pending(q)' = Pending(q)
    BY <2>1 DEF Pending
  <2>4. QueuesOf!Take(c)
    BY <2>1, <2>2, <2>3 DEF QueuesOf!Take
  <2>5. QED
    BY <2>1, <2>4 DEF QueuesOf!Next
<1>7. QED
  BY <1>2, <1>3, <1>4, <1>5, <1>6
  DEF Next, Client, vars, NextClient, RegisterBadEvent, FindEmpty, WaitForEvent, WakeUp,
      WriteCommand, TriggerCmdReqQueue

(* The rings in the shared memory (gpu_SendInterruptToAll, whatever wraps  *)
(* around) are first-in-first-out queues: each interrupt comes out once,   *)
(* unchanged and in its place, and all clients see the same ones but for   *)
(* those of the display.                                                   *)
THEOREM RingsAreQueues == Spec => ImplementsIrqQueues
<1>1. Init => QueuesOf!Init
  <2> SUFFICES ASSUME Init
               PROVE  \A q \in Queue : Pending(q) = <<>>
    BY DEF Init, QueuesOf!Init
  <2>1. GspInv
    BY GspInvInit
  <2>2. ASSUME NEW q \in Queue PROVE Pending(q) = <<>>
    <3>1. queue[q] \in Ring /\ queue[q].inuse = 0 /\ q \notin overrun
      BY <2>1 DEF Init, GspInv, GspTypeOK
    <3>2. Len(Contents(queue[q])) = 0 /\ Contents(queue[q]) \in Seq(Interrupt)
      BY <3>1, ContentsSeq
    <3>3. QED
      BY <3>1, <3>2, EmptySeq DEF Pending
  <2>3. QED
    BY <2>2
<1>2. GspInv /\ [Next]_vars => [QueuesOf!Next]_(QueuesOf!vars)
  BY QueuesStep
<1>3. QED
  BY <1>1, <1>2, GspInvariance, PTL DEF Spec, ImplementsIrqQueues, QueuesOf!Spec
=============================================================================
