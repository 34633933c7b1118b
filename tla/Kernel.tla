------------------------------- MODULE Kernel -------------------------------
(***************************************************************************)
(* The system calls on threads, kernel objects and handles (src/svc.c and  *)
(* the functions it dispatches to), composed with the scheduler.  The      *)
(* guest is any program: in its turn a thread makes whatever calls it      *)
(* likes, with the assumptions stated at GuestCall.                        *)
(***************************************************************************)
EXTENDS Threads, FiniteSets

CONSTANTS Calls,              \* the system calls the guest's programs use
          WaitLists,          \* the handle arrays it passes to WaitSynchronizationN
          Addresses,          \* the words it arbitrates on
          Values              \* what those words hold, and the values it compares

ASSUME WaitListsAssumption == WaitLists \subseteq Seq(Handle)
ASSUME ValuesAssumption == Values \subseteq Int /\ Addresses \subseteq Int

VARIABLES mem,                \* the words at Addresses
          call                \* the arguments of the WaitSynchronizationN in progress

vars == <<handles, threads, num_threads, current_thread, s, pc, t, nothreadused,
          i, ret, registered, held, told, answer, mem, call>>

KernelTypeOK == /\ HandlesTypeOK
                /\ ThreadsTypeOK
                /\ mem \in [Addresses -> Values]
                /\ call \in [list : Seq(Handle), all : BOOLEAN]

Init == /\ ThreadsInit
        /\ mem \in [Addresses -> Values]
        /\ call = [list |-> <<>>, all |-> FALSE]

-----------------------------------------------------------------------------
(* The call returns to the thread that made it, and r1 is not the answer   *)
(* of a wait any more.                                                     *)
SetR1(r1) == /\ s' = [s EXCEPT !.r1 = r1]
             /\ answer' = [answer EXCEPT ![CurrentHandle] = r1]

(* The two ways a call ends: NumInstrsToExecute as it was, or zero.        *)
(* Mutants: the turn is not ended; the sweep misses the next slot.         *)
KeepTurn == UNCHANGED <<pc, t>>
EndTurnForgotten == KeepTurn
EndTurnSkips == pc' = "slot" /\ t' = t + 2

EndTurn  == pc' = "slot" /\ t' = t + 1

(* What a call that is not a wait leaves alone. *)
Returns == SetR1(Other) /\ UNCHANGED <<current_thread, nothreadused, loopVars, call>>

ThreadsUnchanged == UNCHANGED <<threads, num_threads>>

(* threads_FindIdByHandle: the first slot in use that has the handle. *)
threads_FindIdByHandle(h) ==
  LET found == {k \in Live : threads[k].handle = h}
  IN  IF found = {} THEN NoThread ELSE CHOOSE k \in found : \A j \in found : k <= j

-----------------------------------------------------------------------------
(* Threads. *)

(* threads_New exits the emulator when the table is full. *)
RoomForThread == num_threads < MaxThreads

(* svcCreateThread: threads_New leaves in the slot what the table's last   *)
(* shift, or CommonMemSetup, has put there, servaddr among it.             *)
svcCreateThread(priority) ==
  /\ RoomForThread
  /\ handle_New(NewInfo("thread"))
  /\ threads' = [threads EXCEPT ![num_threads].handle    = NextHandle,
                                ![num_threads].priority  = priority,
                                ![num_threads].state     = "RUNNING",
                                ![num_threads].wait_list = <<>>,
                                ![num_threads].regs.of   = NextHandle]
  /\ num_threads' = num_threads + 1
  /\ s' = [s EXCEPT !.r1 = Other]
  /\ answer' = [answer EXCEPT ![CurrentHandle] = Other,
                              ![NextHandle] = threads[num_threads].regs.r1]
  /\ UNCHANGED <<current_thread, nothreadused, loopVars, call, registered, held, told, mem>>
  /\ EndTurn

svcExitThread ==
  /\ threads' = [threads EXCEPT ![current_thread].state = "STOPPED"]
  /\ Returns /\ EndTurn
  /\ UNCHANGED <<handles, num_threads, registered, held, told, mem>>

svcSleepThread ==
  /\ Returns /\ EndTurn /\ ThreadsUnchanged
  /\ UNCHANGED <<handles, registered, held, told, mem>>

svcSetThreadPriority(h, priority) ==
  /\ LET id == threads_FindIdByHandle(h)
     IN  threads' = IF id = NoThread THEN threads
                    ELSE [threads EXCEPT ![id].priority = priority]
  /\ Returns /\ KeepTurn
  /\ UNCHANGED <<handles, num_threads, registered, held, told, mem>>

(* svcCloseHandle: only threads have an fnCloseHandle here.  It stops the  *)
(* thread with exactly this handle; a duplicate's own value is in no slot. *)
svcCloseHandle(h) ==
  /\ LET o  == handle_Get(h)
         id == IF o # NoHandle /\ handles[o].type = "thread"
                 THEN threads_FindIdByHandle(h) ELSE NoThread
     IN  IF id = NoThread
           THEN threads' = threads /\ KeepTurn
           ELSE threads' = [threads EXCEPT ![id].state = "STOPPED"] /\ EndTurn
  /\ Returns
  /\ UNCHANGED <<handles, num_threads, registered, held, told, mem>>

(* svcDuplicateHandle of an existing handle. *)
svcDuplicateHandle(h) ==
  /\ handle_New([NewInfo("redir") EXCEPT !.root = handle_Get(h)])
  /\ Returns /\ KeepTurn /\ ThreadsUnchanged
  /\ UNCHANGED <<registered, held, told, mem>>

-----------------------------------------------------------------------------
(* Kernel objects. *)
svcCreateMutex(locked) ==
  /\ handle_New([NewInfo("mutex") EXCEPT !.locked = locked])
  /\ held' = IF locked THEN [held EXCEPT ![CurrentHandle] = @ \cup {NextHandle}] ELSE held
  /\ told' = IF locked THEN [told EXCEPT ![CurrentHandle] = @ \cup {NextHandle}] ELSE told
  /\ Returns /\ KeepTurn /\ ThreadsUnchanged /\ UNCHANGED <<registered, mem>>

(* Nothing records a mutex's owner: whoever calls releases it. *)
svcReleaseMutex(h) ==
  /\ LET o == handle_Get(h)
     IN  IF o = NoHandle \/ handles[o].type # "mutex"
           THEN UNCHANGED <<handles, held, told>>
           ELSE /\ SetLocked(o, FALSE)
                /\ held' = [held EXCEPT ![CurrentHandle] = @ \ {o}]
                /\ told' = [told EXCEPT ![CurrentHandle] = @ \ {o}]
  /\ Returns /\ KeepTurn /\ ThreadsUnchanged /\ UNCHANGED <<registered, mem>>

svcCreateSemaphore(initialCount, maxCount) ==
  /\ handle_New([NewInfo("semaphore") EXCEPT !.users = initialCount, !.limit = maxCount])
  /\ Returns /\ KeepTurn /\ ThreadsUnchanged
  /\ UNCHANGED <<registered, held, told, mem>>

(* The count is of users, so a release lowers it, to zero at the least. *)
LowerUsers(users, releaseCount) == IF releaseCount > users THEN 0 ELSE users - releaseCount

svcReleaseSemaphore(h, releaseCount) ==
  /\ LET o == handle_Get(h)
     IN  IF o = NoHandle \/ handles[o].type # "semaphore"
           THEN UNCHANGED <<handles, held, told>>
           ELSE /\ handles' = [handles EXCEPT ![o].users = LowerUsers(@, releaseCount)]
                /\ held' = [held EXCEPT ![CurrentHandle] = @ \ {o}]
                /\ told' = [told EXCEPT ![CurrentHandle] = @ \ {o}]
  /\ Returns /\ KeepTurn /\ ThreadsUnchanged /\ UNCHANGED <<registered, mem>>

(* svcCreateEvent: a type above LOCK_TYPE_MAX is an error, found after the *)
(* object is made: it stays as handle_New leaves it, unlocked and sticky,  *)
(* and its handle is not reported (r1 still holds the type).               *)
AnyLockType == LockType \cup {"unknown"}

svcCreateEvent(locktype) ==
  /\ handle_New(IF locktype \in LockType
                  THEN [NewInfo("event") EXCEPT !.locked = TRUE, !.locktype = locktype]
                  ELSE NewInfo("event"))
  /\ Returns /\ KeepTurn /\ ThreadsUnchanged
  /\ UNCHANGED <<registered, held, told, mem>>

(* Neither of the two looks at the type of what it is given. *)
svcSignalEvent(h) ==
  /\ IF handle_Get(h) = NoHandle THEN UNCHANGED handles ELSE SetLocked(handle_Get(h), FALSE)
  /\ Returns /\ EndTurn /\ ThreadsUnchanged
  /\ UNCHANGED <<registered, held, told, mem>>

svcClearEvent(h) ==
  /\ IF handle_Get(h) = NoHandle THEN UNCHANGED handles ELSE SetLocked(handle_Get(h), TRUE)
  /\ Returns /\ KeepTurn /\ ThreadsUnchanged
  /\ UNCHANGED <<registered, held, told, mem>>

(* The requests to the GSP and the DSP that name an interrupt event: the   *)
(* GSP's also creates a memory block, and signals the event at once.       *)
GPURegisterInterruptRelayQueue(h) ==
  /\ Len(handles) < MaxHandles
  /\ handles' = Append(Unlocked({handle_Get(h)}), NewInfo("sharedmem"))
  /\ registered' = [registered EXCEPT !["gsp"] = h]
  /\ Returns /\ EndTurn /\ ThreadsUnchanged
  /\ UNCHANGED <<held, told, mem>>

RegisterInterruptEvents(h) ==
  /\ registered' = [registered EXCEPT !["dsp"] = h]
  /\ Returns /\ EndTurn /\ ThreadsUnchanged
  /\ UNCHANGED <<handles, held, told, mem>>

(* A request to the GSP whose commands raise interrupts. *)
TriggerCmdReqQueue ==
  /\ SendInterrupt
  /\ Returns /\ EndTurn /\ ThreadsUnchanged
  /\ UNCHANGED <<registered, held, told, mem>>

-----------------------------------------------------------------------------
(* Address arbiters. *)
IsArbiter(h) == handle_Get(h) # NoHandle /\ handles[handle_Get(h)].type = "arbiter"

(* threads_ArbitrateHighestPrioThread scans for the lowest number of at    *)
(* most 0x80, the last slot of those that share it.  The handle is         *)
(* compared as the thread passed it.                                       *)
LowestPriority == 128
Arbitrated(arbiter, addr) ==
  {k \in Live : /\ threads[k].state = "WAITING_ARB"
                /\ threads[k].arb_handle = arbiter
                /\ threads[k].arb_addr = addr
                /\ threads[k].priority <= LowestPriority}

\* Mutant: the scan keeps the highest number.
AheadReversed(j, k) == \/ threads[j].priority > threads[k].priority
                       \/ threads[j].priority = threads[k].priority /\ j > k

Ahead(j, k) == \/ threads[j].priority < threads[k].priority
               \/ threads[j].priority = threads[k].priority /\ j > k

(* The threads that n calls of it in a row resume; all, if n is negative. *)
Resumed(arbiter, addr, n) ==
  LET waiting == Arbitrated(arbiter, addr)
  IN  {k \in waiting : n < 0 \/ Cardinality({j \in waiting : Ahead(j, k)}) < n}

svcArbitrateFree(arbiter, addr, n) ==
  /\ threads' = IF IsArbiter(arbiter)
                 THEN [k \in Slot |->
                        IF k \in Resumed(arbiter, addr, n)
                          THEN [threads[k] EXCEPT !.state = "RUNNING",
                                                  !.arb_handle = NoHandle, !.arb_addr = 0]
                          ELSE threads[k]]
                 ELSE threads
  /\ Returns /\ KeepTurn
  /\ UNCHANGED <<handles, num_threads, registered, held, told, mem>>

(* Types 1 and 3 compare with the word, types 2 and 4 decrement it first.  *)
(* The timeouts of 3 and 4 are not implemented.                            *)
svcArbitrateAcquire(arbiter, addr, decrement, value) ==
  /\ mem' = IF IsArbiter(arbiter) /\ decrement THEN [mem EXCEPT ![addr] = @ - 1] ELSE mem
  /\ mem'[addr] \in Values
  /\ IF IsArbiter(arbiter) /\ value >= mem'[addr]
       THEN /\ threads' = [threads EXCEPT ![current_thread].state = "WAITING_ARB",
                                          ![current_thread].arb_addr = addr,
                                          ![current_thread].arb_handle = arbiter]
            /\ EndTurn
       ELSE threads' = threads /\ KeepTurn
  /\ Returns
  /\ UNCHANGED <<handles, num_threads, registered, held, told>>

svcCreateAddressArbiter ==
  /\ handle_New(NewInfo("arbiter"))
  /\ Returns /\ KeepTurn /\ ThreadsUnchanged
  /\ UNCHANGED <<registered, held, told, mem>>

(* A store by the guest to a word it arbitrates on. *)
Store(addr, value) ==
  /\ mem' = [mem EXCEPT ![addr] = value]
  /\ Returns /\ KeepTurn /\ ThreadsUnchanged
  /\ UNCHANGED <<handles, registered, held, told>>

-----------------------------------------------------------------------------
(* Waiting. *)

(* threads_SetCurrentThreadWaitList. *)
Suspend(list, all) ==
  threads' = [threads EXCEPT ![current_thread].state = "WAITING_SYNC",
                             ![current_thread].wait_list = list,
                             ![current_thread].wait_all = all]

svcWaitSynchronization1(h) ==
  /\ LET o == handle_Get(h)
     IN  IF o = NoHandle \/ ~HasWaitCallback(handles[o])
           THEN UNCHANGED <<handles, threads, held, told>>
           ELSE /\ fnWaitSynchronization(o)
                /\ Acquire(CurrentHandle, o)
                /\ Report(CurrentHandle, {o})
                /\ IF IsWaiting(handles[o]) THEN Suspend(<<h>>, TRUE) ELSE threads' = threads
  /\ Returns /\ EndTurn
  /\ UNCHANGED <<num_threads, registered, mem>>

(* svcWaitSynchronizationN calls wrapWaitSynchronizationN: a pass over the *)
(* handles that may return early, ret standing for all_unlocked.           *)
svcWaitSynchronizationN(list, all) ==
  /\ call' = [list |-> list, all |-> all]
  /\ pc' = "waitn" /\ i' = 0 /\ ret' = TRUE
  /\ SetR1(Other)
  /\ UNCHANGED <<handles, threads, num_threads, current_thread, t, nothreadused,
                 registered, held, told, mem>>

InWaitN == pc = "waitn" /\ i < Len(call.list)
ReturnFromWaitN(r1) == SetR1(r1) /\ EndTurn /\ UNCHANGED loopVars

(* A handle that is not in the table, or that nobody can wait on, ends the *)
(* call: its index is the answer.                                          *)
WaitNBadHandle ==
  /\ InWaitN
  /\ LET o == handle_Get(call.list[i + 1])
     IN  o = NoHandle \/ ~HasWaitCallback(handles[o])
  /\ ReturnFromWaitN(i)
  /\ UNCHANGED <<handles, threads, num_threads, current_thread, nothreadused,
                 registered, held, told, mem, call>>

WaitNHandle ==
  /\ InWaitN
  /\ LET o == handle_Get(call.list[i + 1])
     IN  /\ o # NoHandle /\ HasWaitCallback(handles[o])
         /\ fnWaitSynchronization(o)
         /\ Acquire(CurrentHandle, o)
         /\ IF ~IsWaiting(handles[o]) /\ ~call.all
              THEN ReturnFromWaitN(i) /\ Report(CurrentHandle, {o})
              ELSE /\ i' = i + 1 /\ ret' = FALSE
                   /\ UNCHANGED <<s, pc, t, told, answer>>
  /\ UNCHANGED <<threads, num_threads, current_thread, nothreadused, registered, mem, call>>

WaitNDone ==
  /\ pc = "waitn" /\ i = Len(call.list)
  /\ IF call.all /\ ret
       THEN SetR1(Len(call.list)) /\ threads' = threads
       ELSE Suspend(call.list, call.all) /\ UNCHANGED <<s, answer>>
  /\ EndTurn
  /\ UNCHANGED <<handles, num_threads, current_thread, nothreadused, loopVars,
                 registered, held, told, mem, call>>

-----------------------------------------------------------------------------
(***************************************************************************)
(* The calls a thread can make in its turn.  Assumed of the guest: it      *)
(* passes handles it was given, of the kind the call is for where the      *)
(* emulator does not look (events to SignalEvent, ClearEvent and the GSP), *)
(* duplicates only handles that exist, and releases only a mutex it has    *)
(* been told it holds.                                                     *)
(***************************************************************************)
MakesCall(name) == pc = "run" /\ name \in Calls

Existing == 1 .. Len(handles)

GuestCall ==
  \/ MakesCall("CreateThread") /\ \E p \in Priorities : svcCreateThread(p)
  \/ MakesCall("ExitThread") /\ svcExitThread
  \/ MakesCall("SleepThread") /\ svcSleepThread
  \/ MakesCall("SetThreadPriority")
       /\ \E h \in OfType("thread"), p \in Priorities : svcSetThreadPriority(h, p)
  \/ MakesCall("CloseHandle") /\ \E h \in Existing : svcCloseHandle(h)
  \/ MakesCall("DuplicateHandle") /\ \E h \in Existing : svcDuplicateHandle(h)
  \/ MakesCall("CreateMutex") /\ \E b \in BOOLEAN : svcCreateMutex(b)
  \/ MakesCall("ReleaseMutex")
       /\ \E h \in OfType("mutex") : handle_Get(h) \in told[CurrentHandle] /\ svcReleaseMutex(h)
  \/ MakesCall("CreateSemaphore")
       /\ \E m \in 1 .. 2 : \E n \in 0 .. m : svcCreateSemaphore(n, m)
  \/ MakesCall("ReleaseSemaphore")
       /\ \E h \in OfType("semaphore"), n \in 1 .. 2 : svcReleaseSemaphore(h, n)
  \/ MakesCall("CreateEvent") /\ \E l \in AnyLockType : svcCreateEvent(l)
  \/ MakesCall("SignalEvent") /\ \E h \in OfType("event") : svcSignalEvent(h)
  \/ MakesCall("ClearEvent") /\ \E h \in OfType("event") : svcClearEvent(h)
  \/ MakesCall("RegisterInterrupt")
       /\ \E h \in OfType("event") : GPURegisterInterruptRelayQueue(h) \/ RegisterInterruptEvents(h)
  \/ MakesCall("TriggerCmdReqQueue") /\ TriggerCmdReqQueue
  \/ MakesCall("CreateAddressArbiter") /\ svcCreateAddressArbiter
  \/ MakesCall("ArbitrateAddress")
       /\ \E h \in Existing, a \in Addresses :
            \/ \E n \in -1 .. 2 : svcArbitrateFree(h, a, n)
            \/ \E d \in BOOLEAN, v \in Values : svcArbitrateAcquire(h, a, d, v)
  \/ MakesCall("Store") /\ \E a \in Addresses, v \in Values : Store(a, v)
  \/ MakesCall("WaitSynchronization1") /\ \E h \in Existing : svcWaitSynchronization1(h)
  \/ MakesCall("WaitSynchronizationN")
       /\ \E l \in WaitLists, all \in BOOLEAN : svcWaitSynchronizationN(l, all)

WaitNSteps == WaitNBadHandle \/ WaitNHandle \/ WaitNDone

Next == \/ Scheduler /\ UNCHANGED <<mem, call>>
        \/ WaitNSteps
        \/ GuestCall

Spec == Init /\ [][Next]_vars

(* main() calls threads_Execute for ever and nothing in a call blocks, so  *)
(* the scheduler and the loop of a call go on.  Of the guest it is assumed *)
(* that a thread gives up its turn sooner or later: turns have no limit.   *)
Fairness == /\ WF_vars(Scheduler /\ UNCHANGED <<mem, call>>)
            /\ WF_vars(WaitNSteps)
            /\ WF_vars(MakesCall("SleepThread") /\ svcSleepThread)

-----------------------------------------------------------------------------
(* Each thread's registers are its own: the CPU's for the current thread,  *)
(* those saved in its slot for any other; and r1 is the last answer the    *)
(* kernel gave that very thread, wherever it was written (the choice of    *)
(* s.Reg or threads[id].r in threads_IsThreadActive), across switches and  *)
(* shifts of the table.                                                    *)
RegistersOf(k) == IF k = current_thread THEN [of |-> s.of, r1 |-> s.r1] ELSE threads[k].regs
OwnRegisters ==
  \A k \in Live : /\ RegistersOf(k).of = threads[k].handle
                  /\ RegistersOf(k).r1 = answer[threads[k].handle]

(* A thread in its turn uses the command buffer of its own slot entry.     *)
OwnBuffer == current_thread \in Live => s.servaddr = threads[current_thread].servaddr

(* Only a RUNNING thread is in its turn ("This should never happen" in     *)
(* threads_SetCurrentThreadArbitrationSuspend), and it is the current one. *)
OnlyRunningRuns ==
  pc \in {"run", "waitn"} =>
    current_thread = t /\ t \in Live /\ threads[t].state = "RUNNING"

(* A mutex taken for a thread is locked, and taken for no other thread,    *)
(* until that thread releases it: with events for signals, duplicates for  *)
(* handles, and any mixture of the three ways to take one.                 *)
MutualExclusion ==
  \A o \in 1 .. Len(handles) : \A a \in Handle :
    handles[o].type = "mutex" /\ o \in held[a] =>
      handles[o].locked /\ \A b \in Handle : o \in held[b] => a = b

(* threads_IsThreadActive calls the callback of every handle it polls      *)
(* without looking, or gives a thread its turn in the WAITING_SYNC state:  *)
(* every handle in a wait list exists and has a callback.                  *)
WaitListsPollable ==
  \A k \in Live : threads[k].state = "WAITING_SYNC" =>
    \A n \in 1 .. Len(threads[k].wait_list) :
      LET o == handle_Get(threads[k].wait_list[n])
      IN  o # NoHandle /\ handles[o].type \notin {"process", "arbiter", "sharedmem"}

(* A thread leaves the table only once it is stopped, a stopped thread     *)
(* never comes back, and as long as it is in the table a thread keeps its  *)
(* command buffer, in whichever slot it is.                                *)
ThreadStep ==
  \A k \in Live :
    LET now == {j \in 0 .. num_threads' - 1 : threads'[j].handle = threads[k].handle}
    IN  /\ threads[k].state # "STOPPED" => now # {}
        /\ \A j \in now : /\ threads[k].state = "STOPPED" => threads'[j].state = "STOPPED"
                          /\ threads'[j].servaddr = threads[k].servaddr
ThreadLifecycle == [][ThreadStep]_vars

(* docs/threads.txt: a thread suspended on an address is resumed only by   *)
(* another thread's svcArbitrateAddress type 0; and then every thread that *)
(* waits on the address with a better priority is resumed as well.         *)
ResumedBy(k) == \E j \in 0 .. num_threads' - 1 :
                  threads'[j].handle = threads[k].handle /\ threads'[j].state = "RUNNING"
ArbitrationStep ==
  \A k \in Live : threads[k].state = "WAITING_ARB" /\ ResumedBy(k) =>
    /\ pc = "run" /\ k # current_thread
    /\ \A m \in Live : /\ threads[m].state = "WAITING_ARB"
                       /\ threads[m].arb_handle = threads[k].arb_handle
                       /\ threads[m].arb_addr = threads[k].arb_addr
                       /\ threads[m].priority < threads[k].priority
                       => ResumedBy(m)
ResumedInOrder == [][ArbitrationStep]_vars

(***************************************************************************)
(* The inductive invariant of the proofs.  Besides the types it says:      *)
(*   SweepInv  where in a sweep which slot is current, running or in use;  *)
(*   TableInv  a thread's handle is its identity, and every handle the     *)
(*             kernel has stored is of the kind it will be used as;        *)
(*   LockInv   what is recorded as taken is in the table, and a mutex in   *)
(*             it is locked and taken for one thread only.                 *)
(***************************************************************************)
SweepInv ==
  /\ pc \in {"poll", "switch", "run", "waitn"} => t \in Live
  /\ pc \in {"switch", "run", "waitn"} => threads[t].state = "RUNNING"
  /\ pc = "poll" => threads[t].state \in {"WAITING_SYNC", "RUNNING"}
  /\ pc = "poll" /\ ret /\ ~threads[t].wait_all => threads[t].state = "RUNNING"
  /\ pc \in {"run", "waitn"} => current_thread = t
  /\ current_thread \in Live \cup {NoThread, 0}
  /\ pc = "reap" /\ num_threads > 1 => current_thread = NoThread

Pollable(h) == h \in 1 .. Len(handles) /\ HasWaitCallback(handles[handles[h].root])

IsEvent(h) == h \in 1 .. Len(handles) /\ handles[handles[h].root].type = "event"

TableInv ==
  /\ \A k \in Live : threads[k].handle \in 1 .. Len(handles)
  /\ \A j, k \in Live : threads[j].handle = threads[k].handle => j = k
  /\ \A e \in Interrupter : registered[e] # NoHandle => IsEvent(registered[e])
  /\ \A k \in Live : threads[k].state = "WAITING_SYNC" \/ (pc = "poll" /\ k = t) =>
       \A n \in 1 .. Len(threads[k].wait_list) : Pollable(threads[k].wait_list[n])
  /\ pc = "waitn" => \A n \in 1 .. Len(call.list) : n <= i => Pollable(call.list[n])

LockInv ==
  /\ \A h \in Handle : told[h] \subseteq held[h] /\ held[h] \subseteq 1 .. Len(handles)
  /\ MutualExclusion

IInv == KernelTypeOK /\ SweepInv /\ TableInv /\ LockInv /\ OwnRegisters

(* Under Fairness a RUNNING thread gets a turn, unless it is stopped.      *)
InState(h, state) == \E k \in Live : threads[k].handle = h /\ threads[k].state = state
HasTurn(h) == pc = "run" /\ CurrentHandle = h
EveryRunnableThreadRuns ==
  \A h \in Handle : InState(h, "RUNNING") ~> HasTurn(h) \/ ~InState(h, "RUNNING")

(* A thread that waits for one sticky event runs again once it is          *)
(* signalled, if nobody clears it before the thread has been polled.       *)
WaitsFor(h, e) == \E k \in Live : /\ threads[k].handle = h
                                  /\ threads[k].state = "WAITING_SYNC"
                                  /\ threads[k].wait_list = <<e>>
Signalled(e) == /\ handle_Get(e) # NoHandle
                /\ handles[handle_Get(e)].type = "event"
                /\ handles[handle_Get(e)].locktype = "sticky"
                /\ ~handles[handle_Get(e)].locked
SignalWakes ==
  \A h, e \in Handle : WaitsFor(h, e) /\ Signalled(e) ~> ~WaitsFor(h, e) \/ ~Signalled(e)

=============================================================================
