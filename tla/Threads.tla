------------------------------ MODULE Threads ------------------------------
(***************************************************************************)
(* The guest threads and their scheduler (src/arm11/threads.c, built       *)
(* without PROPER_THREADING).  The emulator has one CPU and runs the       *)
(* guest's threads in sweeps: one call of threads_Execute offers every     *)
(* slot of the thread table a turn, polls the wait list of a slot that is  *)
(* in WAITING_SYNC, and at its end removes the stopped threads.            *)
(* NumInstrsToExecute is only compared with zero and never counted down,   *)
(* so a turn lasts until a system call ends it.                            *)
(*                                                                         *)
(* The loops whose passes have side effects (polling a wait list, removing *)
(* stopped threads) are modelled one pass per step; "pc" says which loop   *)
(* the emulator is in, and no other step is possible until it leaves it.   *)
(***************************************************************************)
EXTENDS HandleTable, Integers

CONSTANTS MaxThreads,         \* MAX_THREADS
          Priorities          \* the priorities the guest gives its threads

ASSUME MaxThreadsAssumption == MaxThreads \in Nat \ {0}
ASSUME PrioritiesAssumption == Priorities \subseteq Int

VARIABLES threads,            \* the thread table, one record per slot
          num_threads,        \* slots in use
          current_thread,     \* the slot whose registers the CPU holds, or -1
          s,                  \* the CPU's registers
          pc,                 \* where in threads_Execute the emulator is
          t,                  \* the slot the sweep is at
          nothreadused,       \* no slot has had a turn in this sweep
          i, ret,             \* index and result of the loop over a wait list
          registered,         \* the events named for interrupts, or NoHandle
          held,               \* history: mutexes and semaphores taken for a thread
          told,               \* history: those of them a call has reported to it
          answer              \* history: the r1 each thread was last given

threadVars == <<threads, num_threads, current_thread, s>>
loopVars   == <<i, ret>>
sweepVars  == <<pc, t, nothreadused, i, ret>>
history    == <<held, told, answer>>

Slot == 0 .. MaxThreads - 1
NoThread == -1

(* Who signals on an interrupt: trigevent in gsp_gpu.c, and myeventhandel  *)
(* in dsp_dsp.c, which every interrupt of the GPU signals as well.         *)
Interrupter == {"gsp", "dsp"}
DefaultPriority == 30         \* threads_New

(* The values of r1 that matter: the result of a wait, or any other value. *)
Other == -1
Register1 == {Other} \cup Nat

(* The thread-local command buffers, one per slot as CommonMemSetup hands  *)
(* them out, and whatever lies behind the end of the thread table.         *)
Junk == MaxThreads
Buffer == 0 .. MaxThreads

(* A register file: r1, and "of", the thread whose registers these are. *)
Registers == [of : Handle \cup {NoHandle}, r1 : Register1]

Thread == [handle     : Handle \cup {NoHandle},
           state      : {"RUNNING", "STOPPED", "WAITING_SYNC", "WAITING_ARB"},
           priority   : Int,
           wait_list  : Seq(Handle),
           wait_all   : BOOLEAN,
           arb_handle : Handle \cup {NoHandle},
           arb_addr   : Int,
           regs       : Registers,
           servaddr   : Buffer]

UnusedThread(buffer) ==
  [handle |-> NoHandle, state |-> "RUNNING", priority |-> 0,
   wait_list |-> <<>>, wait_all |-> FALSE, arb_handle |-> NoHandle, arb_addr |-> 0,
   regs |-> [of |-> NoHandle, r1 |-> Other], servaddr |-> buffer]

Live == 0 .. num_threads - 1
CurrentHandle == threads[current_thread].handle

ThreadsTypeOK ==
  /\ threads \in [Slot -> Thread]
  /\ num_threads \in 0 .. MaxThreads
  /\ current_thread \in Slot \cup {NoThread}
  /\ s \in [of : Handle \cup {NoHandle}, r1 : Register1, servaddr : Buffer]
  /\ pc \in {"slot", "poll", "switch", "run", "waitn", "reap"}
  /\ t \in 0 .. MaxThreads
  /\ nothreadused \in BOOLEAN
  /\ i \in Nat /\ ret \in BOOLEAN
  /\ registered \in [Interrupter -> Handle \cup {NoHandle}]
  /\ held \in [Handle -> SUBSET Handle]
  /\ told \in [Handle -> SUBSET Handle]
  /\ answer \in [Handle -> Register1]

-----------------------------------------------------------------------------
(* main() creates the process and the first thread, whose registers are    *)
(* already in the CPU and whose slot is the initial current_thread.  What  *)
(* the services' own initialisation has put in the table before is left    *)
(* out.                                                                    *)
ThreadsInit ==
  /\ handles = << [type |-> "process", root |-> 1, locked |-> FALSE,
                   locktype |-> "sticky", users |-> 0, limit |-> 0],
                  [type |-> "thread", root |-> 2, locked |-> FALSE,
                   locktype |-> "sticky", users |-> 0, limit |-> 0] >>
  /\ threads = [k \in Slot |->
       IF k = 0 THEN [UnusedThread(0) EXCEPT !.handle = 2, !.priority = DefaultPriority]
       ELSE UnusedThread(k)]
  /\ num_threads = 1
  /\ current_thread = 0
  /\ s = [of |-> 2, r1 |-> Other, servaddr |-> 0]
  /\ pc = "slot" /\ t = 0 /\ nothreadused = TRUE
  /\ i = 0 /\ ret = FALSE
  /\ registered = [e \in Interrupter |-> NoHandle]
  /\ held = [h \in Handle |-> {}]
  /\ told = [h \in Handle |-> {}]
  /\ answer = [h \in Handle |-> Other]

-----------------------------------------------------------------------------
(* gpu_SendInterruptToAll, as far as the kernel sees it: the registered    *)
(* events are unlocked, the DSP's by dsp_sync_soundinter.                  *)
SendInterrupt == handles' = Unlocked({handle_Get(registered[e]) : e \in Interrupter})

(* Every slot's turn starts with the line and frame interrupts that are    *)
(* due by the emulated clock.                                              *)
LineSync == UNCHANGED handles \/ SendInterrupt

AtSlot == pc = "slot" /\ t < num_threads

(* threads_IsThreadActive for a thread that needs no poll. *)
SkipSlot ==
  /\ AtSlot
  /\ threads[t].state \in {"STOPPED", "WAITING_ARB"}
  /\ LineSync
  /\ t' = t + 1
  /\ UNCHANGED <<threadVars, pc, nothreadused, loopVars, registered, history>>

RunSlot ==
  /\ AtSlot
  /\ threads[t].state = "RUNNING"
  /\ LineSync
  /\ pc' = "switch"
  /\ nothreadused' = FALSE
  /\ UNCHANGED <<threadVars, t, loopVars, registered, history>>

(* The value threads_IsThreadActive starts the loop over a wait list with. *)
(* Mutant: it is set once, before the branch on wait_all.                  *)
InitialResultAny(k) == FALSE

InitialResult(k) == threads[k].wait_all

StartPoll ==
  /\ AtSlot
  /\ threads[t].state = "WAITING_SYNC"
  /\ LineSync
  /\ pc' = "poll"
  /\ i' = 0
  /\ ret' = InitialResult(t)
  /\ UNCHANGED <<threadVars, t, nothreadused, registered, history>>

(* Write r1 of the thread in slot k: in the CPU if it holds that thread's  *)
(* registers, else in the slot.  The slot becomes RUNNING.                 *)
(* Mutant: the result always goes to the CPU's r1.                         *)
WakeInCPU(k, r1) ==
  /\ threads' = [threads EXCEPT ![k].state = "RUNNING"]
  /\ s' = [s EXCEPT !.r1 = r1]
  /\ answer' = [answer EXCEPT ![threads[k].handle] = r1]
  /\ UNCHANGED <<num_threads, current_thread>>

Wake(k, r1) ==
  /\ threads' = [threads EXCEPT ![k].state = "RUNNING",
                                ![k].regs.r1 = IF current_thread = k THEN @ ELSE r1]
  /\ s' = IF current_thread = k THEN [s EXCEPT !.r1 = r1] ELSE s
  /\ answer' = [answer EXCEPT ![threads[k].handle] = r1]
  /\ UNCHANGED <<num_threads, current_thread>>

(* The objects a wait callback takes for good: those have to be released. *)
Takes(o) == handles[o].type \in {"mutex", "semaphore"} /\ ~IsWaiting(handles[o])

Acquire(th, o) ==
  held' = IF Takes(o) THEN [held EXCEPT ![th] = @ \cup {o}] ELSE held
Report(th, objects) ==
  told' = [told EXCEPT ![th] = @ \cup (held'[th] \cap objects)]

(* One pass of threads_IsThreadActive over the wait list.  Without         *)
(* wait_all the first handle that is not waiting wakes the thread with the *)
(* handle's index; the loop goes on to the end all the same.               *)
PollHandle ==
  /\ pc = "poll" /\ i < Len(threads[t].wait_list)
  /\ LET th == threads[t].handle
         o  == handle_Get(threads[t].wait_list[i + 1])
         ready == ~IsWaiting(handles[o])
     IN  /\ fnWaitSynchronization(o)
         /\ Acquire(th, o)
         /\ IF threads[t].wait_all
              THEN /\ ret' = (ret /\ ready)
                   /\ UNCHANGED <<threadVars, told, answer>>
              ELSE /\ ret' = (ret \/ ready)
                   /\ IF ready /\ ~ret
                        THEN Wake(t, i) /\ Report(th, {o})
                        ELSE UNCHANGED <<threadVars, told, answer>>
  /\ i' = i + 1
  /\ UNCHANGED <<pc, t, nothreadused, registered>>

(* The loop's end: with wait_all the thread wakes if no handle waits. *)
PollDone ==
  /\ pc = "poll" /\ i = Len(threads[t].wait_list)
  /\ IF ret THEN pc' = "switch" /\ nothreadused' = FALSE /\ t' = t
            ELSE pc' = "slot" /\ t' = t + 1 /\ UNCHANGED nothreadused
  /\ UNCHANGED <<handles, loopVars, registered, held>>
  /\ IF ret /\ threads[t].wait_all
       THEN /\ Wake(t, Len(threads[t].wait_list))
            /\ Report(threads[t].handle,
                      {handle_Get(threads[t].wait_list[k]) : k \in 1 .. Len(threads[t].wait_list)})
       ELSE UNCHANGED <<threadVars, told, answer>>

(* arm11_SaveContext into slot k, and arm11_LoadContext from it.  The      *)
(* command buffer's address is loaded with the registers and never saved.  *)
(* Mutant: the buffer's address is not loaded.                             *)
LoadContextOldBuffer(k) == [of |-> threads[k].regs.of, r1 |-> threads[k].regs.r1,
                            servaddr |-> s.servaddr]

SaveContext(k) == [threads EXCEPT ![k].regs = [of |-> s.of, r1 |-> s.r1]]
LoadContext(k) == [of |-> threads[k].regs.of, r1 |-> threads[k].regs.r1,
                   servaddr |-> threads[k].servaddr]

(* threads_Switch: save the CPU's registers in the slot they belong to and *)
(* load those of slot t.  Only an active thread is switched to, so the     *)
(* check for a stopped one never exits.                                    *)
threads_Switch ==
  /\ pc = "switch"
  /\ IF current_thread = t
       THEN UNCHANGED threadVars
       ELSE /\ threads' = IF current_thread = NoThread THEN threads
                          ELSE SaveContext(current_thread)
            /\ s' = LoadContext(t)
            /\ current_thread' = t
            /\ UNCHANGED num_threads
  /\ pc' = "run"
  /\ UNCHANGED <<handles, t, nothreadused, loopVars, registered, history>>

(* The sweep's end: an interrupt if every thread is waiting, and           *)
(* threads_SaveContextCurrentThread, which keeps a lone thread current.    *)
EndSweep ==
  /\ pc = "slot" /\ t >= num_threads
  /\ IF nothreadused THEN SendInterrupt ELSE UNCHANGED handles
  /\ IF current_thread = NoThread
       THEN UNCHANGED <<threads, current_thread>>
       ELSE /\ threads' = SaveContext(current_thread)
            /\ current_thread' = IF num_threads > 1 THEN NoThread ELSE current_thread
  /\ pc' = "reap"
  /\ UNCHANGED <<num_threads, s, t, nothreadused, loopVars, registered, history>>

-----------------------------------------------------------------------------
(* threads_RemoveZombies. *)
Stopped == {k \in Live : threads[k].state = "STOPPED"}

(* threads[k + 1], which for the last slot of a full table lies behind the *)
(* array: of what is read there only the buffer address survives the       *)
(* initialisation of the slot's next thread.                               *)
(* Mutant: a thread that moves gets the buffer of its new slot.            *)
SlotAfterOwnBuffer(k) ==
  [(IF k + 1 \in Slot THEN threads[k + 1] ELSE UnusedThread(Junk))
     EXCEPT !.servaddr = threads[k].servaddr]

SlotAfter(k) == IF k + 1 \in Slot THEN threads[k + 1] ELSE UnusedThread(Junk)

(* One pass: close the gap that the first stopped thread leaves. *)
RemoveZombie ==
  /\ pc = "reap"
  /\ \E id \in Stopped :
       /\ \A k \in Stopped : id <= k
       /\ threads' = [k \in Slot |->
                        IF k \in id .. num_threads - 1 THEN SlotAfter(k) ELSE threads[k]]
  /\ num_threads' = num_threads - 1
  /\ UNCHANGED <<handles, current_thread, s, sweepVars, registered, history>>

(* No stopped thread is left: main() calls threads_Execute again. *)
NextSweep ==
  /\ pc = "reap" /\ Stopped = {}
  /\ pc' = "slot" /\ t' = 0 /\ nothreadused' = TRUE
  /\ UNCHANGED <<handles, threadVars, loopVars, registered, history>>

Scheduler == \/ SkipSlot \/ RunSlot \/ StartPoll \/ PollHandle \/ PollDone
             \/ threads_Switch \/ EndSweep \/ RemoveZombie \/ NextSweep
=============================================================================
