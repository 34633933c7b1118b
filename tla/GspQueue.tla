------------------------------ MODULE GspQueue ------------------------------
(***************************************************************************)
(* The interrupt relay queues of src/services/gsp_gpu.c, in the memory     *)
(* that GSP shares with its clients, and the GX commands whose completion  *)
(* they report.  The emulator puts interrupts in, from the scheduler's     *)
(* loop and while it executes commands; the clients' threads take them     *)
(* out, wait for their event and write commands.                           *)
(*                                                                         *)
(* What a command does to memory and to the GPU is left out, and what      *)
(* gpu_SendInterruptToAll does besides: the sound's interrupt, the byte    *)
(* that says "no error", and drawing the screen for PPF.  A client's event *)
(* is unlocked or not; module Kernel has the handles behind it.            *)
(*                                                                         *)
(* The loop over the clients' commands is modelled one command per step;   *)
(* nothing else happens until it has ended.  A client's header is cleared  *)
(* before its first command is executed, which nobody can tell from taking *)
(* the commands away one by one.                                           *)
(***************************************************************************)
EXTENDS Naturals, Sequences, FiniteSets

CONSTANTS Queues,             \* 4
          Slots,              \* 0x34, the entries of a queue
          Enough,             \* 0x21: with more than 0x20 entries in use, display
                              \* interrupts are left out
          Byte,               \* 2^8
          Header,             \* 0xC, the bytes of a queue before its entries
          Word,               \* 4, the bytes of a word
          MaxRegistrations,   \* bound: registrations
          MaxCommands,        \* bound: commands that a client writes before it triggers them
          ClientCommands      \* bound: the commands that clients write

Queue == 0 .. Queues - 1
Entry == 0 .. Slots - 1
ThreadID == 1 .. MaxRegistrations
NoThread == 0

ASSUME QueuesAssumption == {Queues, MaxRegistrations, MaxCommands} \subseteq Nat \ {0}
ASSUME SlotsAssumption == /\ {Slots, Enough, Byte} \subseteq Nat
                          /\ 0 < Enough /\ Enough < Slots /\ 2 * Slots <= Byte
                          /\ {Header, Word} \subseteq Nat

Interrupt == 0 .. 6
PSC0 == 0
PSC1 == 1
PDC0 == 2
PDC1 == 3
PPF  == 4
P3D  == 5
DMA  == 6
Display == {PDC0, PDC1}

(* The GX commands, by what they report: a copy by DMA into video memory   *)
(* or elsewhere, a command list by how many interrupts it asks for.        *)
Command == {"dma", "dma_elsewhere", "list", "list_irq", "memfill", "display_transfer",
            "texture_copy", "flush"}

ASSUME ClientCommandsAssumption == ClientCommands \subseteq Command

VARIABLES queue,              \* head, entries in use and the entries, of each queue
          numReqQueue,        \* the next thread ID
          trigevent,          \* the thread whose event interrupts unlock
          unlocked,           \* the threads whose event is unlocked
          awake,              \* the threads that are not waiting for their event
          looked,             \* those of them that will, having found their queue empty
          commands,           \* what each client has written and not yet been executed
          i,                  \* the client whose commands are executed, or Queues
          overrun             \* history: queues that have held more than they can

vars == <<queue, numReqQueue, trigevent, unlocked, awake, looked, commands, i, overrun>>

Ring == [head : Entry, inuse : 0 .. Byte - 1, ids : [Entry -> Interrupt]]

GspTypeOK == /\ queue \in [Queue -> Ring]
             /\ numReqQueue \in 1 .. MaxRegistrations + 1
             /\ trigevent \in ThreadID \cup {NoThread}
             /\ unlocked \subseteq ThreadID /\ awake \subseteq ThreadID
             /\ looked \subseteq awake
             /\ commands \in [Queue -> Seq(ClientCommands)]
             /\ i \in 0 .. Queues
             /\ overrun \subseteq Queue

Init == /\ queue = [q \in Queue |-> [head |-> 0, inuse |-> 0, ids |-> [e \in Entry |-> 0]]]
        /\ numReqQueue = 1 /\ trigevent = NoThread
        /\ unlocked = {} /\ awake = {} /\ looked = {}
        /\ commands = [q \in Queue |-> <<>>] /\ i = Queues
        /\ overrun = {}

Executing == i < Queues
Registered == 1 .. numReqQueue - 1

-----------------------------------------------------------------------------
(* Where the next interrupt goes: u8 arithmetic, then modulo 0x34.         *)
(* Mutant: the sum is not brought back into the queue's entries.           *)
NextEntryClamped(q) == IF q.head + q.inuse < Slots THEN q.head + q.inuse ELSE 0

NextEntry(q) == ((q.head + q.inuse) % Byte) % Slots

(* Mutant: display interrupts are never left out.                          *)
LeavesOutNone(q, id) == FALSE

LeavesOut(q, id) == q.inuse >= Enough /\ id \in Display

Put(q, id) ==
  IF LeavesOut(q, id) THEN q
  ELSE [q EXCEPT !.inuse = (@ + 1) % Byte, !.ids[NextEntry(q)] = id]

(* gpu_SendInterruptToAll: nothing happens until somebody has registered   *)
(* an event.                                                               *)
(* Mutant: only a client that is waiting already has its event unlocked.   *)
SignalledWaiting == unlocked \cup ({trigevent} \ awake)

Signalled == unlocked \cup {trigevent}

gpu_SendInterruptToAll(id) ==
  IF trigevent = NoThread
    THEN UNCHANGED <<queue, unlocked, overrun>>
    ELSE /\ queue' = [q \in Queue |-> Put(queue[q], id)]
         /\ unlocked' = Signalled
         /\ overrun' = overrun \cup {q \in Queue : Put(queue[q], id).inuse > Slots}

(* The scheduler's loop sends PDC0 for each line and PDC1 for each frame,  *)
(* by the ticks that have gone by; here either may come at any time.       *)
DisplayInterrupt == /\ ~Executing
                    /\ \E id \in Display : gpu_SendInterruptToAll(id)
                    /\ UNCHANGED <<numReqQueue, trigevent, awake, looked, commands, i>>

-----------------------------------------------------------------------------
(* The interrupt that a command raises, if it raises one: a display        *)
(* transfer and a texture copy before they begin, the others when they are *)
(* done.  A command list raises P3D for each write to TRIGGER_IRQ; lists   *)
(* with more than one are left out (bound).                                *)
Raises == [dma |-> DMA, list_irq |-> P3D, memfill |-> PSC0, display_transfer |-> PPF,
           texture_copy |-> PSC1]

(* gsp_ExecuteCommandFromSharedMem: the commands of all clients, in the    *)
(* order of their IDs.  ID 0 is nobody's, and a client whose ID is beyond  *)
(* the last queue is passed over.                                          *)
TriggerCmdReqQueue ==
  /\ ~Executing
  /\ i' = 0
  /\ UNCHANGED <<queue, numReqQueue, trigevent, unlocked, awake, looked, commands, overrun>>

ExecuteCommand ==
  /\ Executing /\ commands[i] # <<>>
  /\ LET c == Head(commands[i])
     IN  IF c \in DOMAIN Raises THEN gpu_SendInterruptToAll(Raises[c])
                                ELSE UNCHANGED <<queue, unlocked, overrun>>
  /\ commands' = [commands EXCEPT ![i] = Tail(@)]
  /\ UNCHANGED <<numReqQueue, trigevent, awake, looked, i>>

NextClient ==
  /\ Executing /\ commands[i] = <<>>
  /\ i' = i + 1
  /\ UNCHANGED <<queue, numReqQueue, trigevent, unlocked, awake, looked, commands, overrun>>

-----------------------------------------------------------------------------
(* GPURegisterInterruptRelayQueue.  The ID is used up and the last event   *)
(* forgotten although the new one is no handle: it is stored all the same, *)
(* and each interrupt finds no event behind it, as before any was stored.  *)

\* The queue's first word is cleared, and two more that its ID moves from there.
Stray(t) == {e \in Entry : Header + e \in (t * Word .. t * Word + Word - 1)
                                    \cup (2 * t * Word .. 2 * t * Word + Word - 1)}
Emptied(t) ==
  [q \in Queue |->
     IF q = t THEN [head |-> 0, inuse |-> 0,
                    ids |-> [e \in Entry |-> IF e \in Stray(t) THEN 0 ELSE queue[t].ids[e]]]
     ELSE queue[q]]

RegisterBadEvent ==
  /\ ~Executing
  /\ numReqQueue <= MaxRegistrations
  /\ numReqQueue' = numReqQueue + 1
  /\ trigevent' = NoThread
  /\ UNCHANGED <<queue, unlocked, awake, looked, commands, i, overrun>>

RegisterInterruptRelayQueue ==
  LET t == numReqQueue
  IN  /\ ~Executing
      /\ t <= MaxRegistrations
      /\ numReqQueue' = t + 1
      /\ trigevent' = t
      /\ unlocked' = unlocked \cup {t}
      /\ queue' = Emptied(t)
      /\ overrun' = overrun \ {t}
      /\ awake' = awake \cup {t}
      /\ UNCHANGED <<looked, commands, i>>

-----------------------------------------------------------------------------
(* The client threads: take the oldest interrupt, find the queue empty,    *)
(* then wait for the event, wake up when it is unlocked, and write         *)
(* commands.  The event is taken for a oneshot one, which a wait that ends *)
(* locks.                                                                  *)
Taken(q) == [q EXCEPT !.head = (@ + 1) % Slots, !.inuse = @ - 1]

TakeInterrupt(t) ==
  /\ t \in awake \ looked /\ t \in Queue /\ queue[t].inuse > 0
  /\ queue' = [queue EXCEPT ![t] = Taken(@)]
  /\ UNCHANGED <<numReqQueue, trigevent, unlocked, awake, looked, commands, i, overrun>>

FindEmpty(t) ==
  /\ t \in awake \ looked
  /\ t \in Queue => queue[t].inuse = 0
  /\ looked' = looked \cup {t}
  /\ UNCHANGED <<queue, numReqQueue, trigevent, unlocked, awake, commands, i, overrun>>

\* Whatever has come in the meantime.
WaitForEvent(t) ==
  /\ t \in looked
  /\ looked' = looked \ {t}
  /\ awake' = awake \ {t}
  /\ UNCHANGED <<queue, numReqQueue, trigevent, unlocked, commands, i, overrun>>

WakeUp(t) ==
  /\ t \notin awake /\ t \in unlocked
  /\ awake' = awake \cup {t}
  /\ unlocked' = unlocked \ {t}
  /\ UNCHANGED <<queue, numReqQueue, trigevent, looked, commands, i, overrun>>

WriteCommand(t, c) ==
  /\ t \in Queue /\ Len(commands[t]) < MaxCommands
  /\ commands' = [commands EXCEPT ![t] = Append(@, c)]
  /\ UNCHANGED <<queue, numReqQueue, trigevent, unlocked, awake, looked, i, overrun>>

Client == /\ ~Executing
          /\ \E t \in Registered :
               \/ TakeInterrupt(t) \/ FindEmpty(t) \/ WaitForEvent(t) \/ WakeUp(t)
               \/ \E c \in ClientCommands : WriteCommand(t, c)
               \/ TriggerCmdReqQueue

Next == \/ DisplayInterrupt
        \/ RegisterBadEvent \/ RegisterInterruptRelayQueue
        \/ ExecuteCommand \/ NextClient
        \/ Client

Spec == Init /\ [][Next]_vars

-----------------------------------------------------------------------------
(* A queue's interrupts as a client will take them. *)
Contents(q) == [n \in 1 .. q.inuse |-> q.ids[(q.head + n - 1) % Slots]]

Pending(q) == IF q \in overrun THEN <<>> ELSE Contents(queue[q])

(* The ring buffers in the shared memory are queues: an interrupt that has *)
(* been put in comes out once, unchanged and in its place, whatever wraps  *)
(* around, and all clients see the same ones but for those of the display. *)
QueuesOf == INSTANCE IrqQueues WITH pending <- [q \in Queue |-> Pending(q)],
                                    Capacity <- Slots

ImplementsIrqQueues == QueuesOf!Spec

(* Interrupts of the display alone never fill a queue: whatever its client *)
(* has not taken yet, at most Enough of its entries are theirs.            *)
RoomForCompletions ==
  \A q \in Queue :
    Cardinality({n \in DOMAIN Pending(q) : Pending(q)[n] \in Display}) <= Enough

(* No wake-up is lost: the client that registered last does not wait for a *)
(* locked event, nor is it about to, while there is an interrupt in its    *)
(* queue; one that comes between its look at the queue and its wait finds  *)
(* it still awake, and must unlock the event all the same.                 *)
NoLostWakeUp ==
  \A t \in Registered \cap Queue :
    trigevent = t /\ (t \notin awake \/ t \in looked) /\ Contents(queue[t]) # <<>>
      => t \in unlocked
=============================================================================
