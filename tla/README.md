# Verification of 3dmoo

3dmoo is an emulator of the Nintendo 3DS that runs one guest process. This
directory holds TLA+ models of the parts of it that carry state from one step
of the guest to the next, the TLC configurations that check them on small
instances, and proofs that TLAPS checks for every value of the constants.

Source paths below are relative to the repository. Every definition that models
code is listed in `PROJECT.json` under `map`, with the lines it stands for.

Contents: 1 The system, 2 The modules, 3 The runs, 4 Fairness, 5 The proofs,
6 What was found, 7 What is not modelled, 8 Plan, 9 Running the checks.

## 1. The system

One host thread emulates the one CPU the guest sees. `main()` loads a program,
creates the process and its first thread, and then calls `threads_Execute` for
ever. The only other host thread is the debugger's listener, which exists when
a GDB port was given.

### Parts and their state

| Part | Source | State it keeps | Operations |
|---|---|---|---|
| Handle table | `src/handles.c` | `handles[]`, `handles_num`; type, subtype, lock, two words each | `handle_New`, `handle_Get`, close, wait for one, wait for several, send a request |
| Threads and scheduler | `src/arm11/threads.c` | `threads[]`, `num_threads`, `current_thread` | the sweep of `threads_Execute`, poll of wait lists, switch, removal of stopped threads, create, exit, priority |
| Synchronisation objects | `src/syscalls/syn.c`, `events.c` | fields of the handle's entry | create, release, signal, clear, duplicate, wait callbacks |
| Address arbiters | `src/arm11/threads.c` | threads suspended on an address | the types of `svcArbitrateAddress` |
| System call dispatcher | `src/svc.c` | none | one case per call; which of them end the turn |
| CPU wrapper | `src/arm11/wrap.c` | the register file `s` | save and load a context, run |
| Guest memory map | `src/mem.c` | `mappings[]`, access counters | add, share, 8/16/32-bit and bulk accesses, raw address, reorder |
| Memory system calls | `src/syscalls/memory.c` | `linearalloced`, memory-block handles | commit, mirror, create a block, map a block |
| GSP service | `src/services/gsp_gpu.c` | interrupt queues in shared memory, `numReqQueue`, `trigevent`, GPU registers | register, trigger commands, raise interrupts |
| DSP service | `src/services/dsp_dsp.c` | `myeventhandel` | register an event, raise it |
| Service manager | `src/services/srv.c` | the table of services | look up a handle; stubs for services of the guest's own |
| File system service | `src/services/fs_user.c` | none; handles stand for archives, files and directories | one case per command |
| Archives | `src/fs/*.c` | host streams, cached sizes, the directory stream | open, read, write, size, flush, close, list, create, delete, rename |
| Other services | `src/services/*.c` | locks, pad rings | mostly fixed answers |
| GPU | `src/gpu/*.c` | registers, shader memory and stacks, uniforms, the vertices kept for the next triangle | write a register, run the shader, assemble a triangle, fill it |
| GDB stub | `src/gdb/*.c` | stall flag, hook, breakpoint lists, control pipe, packet buffers | stall, continue, step, break, insert, remove, report a stop |
| ARM11 interpreter | `src/arm11/armemu.c`, `armsupp.c`, `thumbemu.c` | registers and their banks, flags, pipeline, exclusive monitor | one instruction |
| VFP | `src/arm11/vfp/` | 32 singles or 16 doubles, FPSCR | one instruction, over a vector |
| Loader | `src/loader.c` | the mappings and command buffers it creates | load, once |
| Timers, ports, limits | `src/syscalls/` | handles | stubs |
| PolarSSL, HTTP client, screen, options | `src/lib/`, `src/screen.c`, `src/config.c` | their own | third-party code and host I/O |

### How they interact

* The scheduler gives a slot of the thread table the CPU; the interpreter runs
  until a system call sets `NumInstrsToExecute` to zero. Nothing counts it
  down: **a turn ends only by a system call**, so the guest's threads interleave
  at system calls, and the steps of the models are whole system calls, except
  where a call or the sweep loops over callbacks with effects.
* A system call works on the handle table and the thread table. A wait either
  answers at once or stores a list of handles in the thread's slot, which the
  scheduler polls in later sweeps through the same callbacks.
* Services run inside `svcSendSyncRequest`. GSP and DSP keep handles of guest
  events; the scheduler's line and frame interrupts, and the GX commands, unlock
  those events from outside of any call of their owners.
* Every access of the guest, of a service or of the GPU goes through the memory
  map, which is sorted anew after every slice (`MEM_REORDER`).
* The debugger's listener stalls the CPU's thread by a flag under a lock and by
  zeroing `NumInstrsToExecute` outside of it; it learns of stops through a pipe. The
  hook, the breakpoint lists and the stub's state are shared without a lock.
* The file system service passes the guest's bytes to the host's C library, whose
  streams keep some of them back.
* GSP hands the GPU command lists; the GPU reads vertices and writes pixels through
  the memory map, while the guest does not run.
* GSP shares a page with its clients: the emulator puts interrupts in and the
  clients take them out, each changing the same two bytes.

### What is hard here

There is little parallelism and much hidden state. The hazards are listed with
their lines in `PROJECT.json`. The main kinds are: indices kept while the table
they index is shifted (`current_thread`, `threads_RemoveZombies`); one value
with two homes (r1 in the CPU or in the slot); callbacks with effects inside
loops that stop half-way; a table of mappings that is permuted between two
accesses; u8 and u32 sums that wrap around; one event shared by all who
register; tables that only grow; two host threads that share all of the stub's
state but one flag; bytes that are acknowledged before they are written; state of
the GPU that outlives the draw it was set for; and, in the interpreter and the
VFP, arithmetic whose every edge has a branch of its own.

### What makes each part correct

* Scheduler: each thread resumes with its own registers, buffer and the result
  of its own last call; nobody who is stopped or waiting runs; everybody who can
  run does.
* Objects: a mutex has one taker; whatever is in a wait list can be polled; an
  event that was signalled wakes whoever waits.
* Arbiters: a thread is resumed only by a free, never past one with a better
  priority.
* Memory: granted memory stays accessible and stays where it is, whatever is
  mapped or sorted; accesses touch the bytes behind the addresses they name.
* GSP: the rings are queues; display interrupts cannot crowd out completions;
  no wake-up is lost.
* Debugger: a CPU that sleeps in a stall is known to be stopped, or soon will be;
  each run of the guest ends in one report; a break is answered.
* Files: what was acknowledged is stored and read back; the size is right; a
  listing is complete and has no entry twice.
* GPU: a shader computes what its source says; triangles are the ones that the
  vertices make; neighbours draw each pixel once; uniforms arrive.
* Interpreter and VFP: every instruction leaves what the architecture says, and
  changes nothing else.

## 2. The modules

```
HandleTable <- Threads <- Kernel <- MCKernel
                          Kernel <- Kernel_proofs
AddressSpace (abstract) <= MemMap <= MemReorder <- MCMemReorder
                           MemMap <- ControlMemory
              MemMap <- MemMap_proofs <- MemReorder_proofs, ControlMemory_proofs
IrqQueues (abstract)    <= GspQueue <- GspQueue_proofs
DebugSession (abstract) <= GdbStub <- GdbStub_proofs
ArmState <- ArmTransfer <- ArmData <- ArmOpcodes, ArmMedia
            ArmTransfer <- ArmCoproc      ArmState <- ArmThumb
      all of these <- Arm <- ArmManual <- MCArm
VfpFormat <- VfpSingle <- VfpDouble <- Vfp <- VfpManual <- MCVfp
HostFiles <- Archives <- FsUser <- MCFsUser, FsUser_proofs
VertexShader, Raster <- Gpu <- ShaderSource <- MCGpu
                        Gpu <- Gpu_proofs
```

`A <- B`: B extends A. `A <= B`: B implements A, checked as a property.

### HandleTable, Threads, Kernel: threads, handles and system calls

`HandleTable` has one variable, `handles`: the entries in use of the C array.
The model numbers handles from 1 instead of `HANDLES_BASE`. A `redir` entry
(`svcDuplicateHandle`) stores its root, where the C code walks a chain on every
`handle_Get`: the chain's links are never rewritten, so the end never changes.
`AfterWait` and `IsWaiting` are the wait callbacks: their effect and their answer.

`Threads` is the sweep. `pc` is the loop of `threads_Execute` the emulator is in:

| `pc` | Code | Actions |
|---|---|---|
| `slot` | the `for` over slots, with the line and frame interrupts | `SkipSlot`, `RunSlot`, `StartPoll`, `EndSweep` |
| `poll` | the loop of `threads_IsThreadActive` over a wait list, one handle per step | `PollHandle`, `PollDone` |
| `switch` | `threads_Switch`: save the old context, load the new | `threads_Switch` |
| `run` | `arm11_Run`: the thread has the CPU | the calls of `Kernel` |
| `waitn` | the loop of `wrapWaitSynchronizationN` | `WaitNBadHandle`, `WaitNHandle`, `WaitNDone` |
| `reap` | `threads_RemoveZombies`, one thread per step | `RemoveZombie`, `NextSweep` |

A register file is abstracted to the thread it belongs to (`of`) and r1, the
only register the kernel writes into a slot behind a thread's back. Removing a
thread copies the following records forward, as the C code does, the last one
from behind the array when the table is full (`SlotAfter`).

`Kernel` has one action per system call; each is the whole call, the way it
returns included: `KeepTurn` leaves `NumInstrsToExecute` alone, `EndTurn` zeroes
it. `held`, `told` and `answer` are history variables: no guard of the emulator
reads them. They record which objects a callback has taken for which thread,
which of those the thread has been told of, and what r1 it was last given.

The guest may make any call in any turn, with four assumptions, stated at
`GuestCall`: handles it passes to `SignalEvent`, `ClearEvent` and GSP are events
(the emulator does not look, and would set the lock of anything), it duplicates
only handles that exist, it releases only a mutex it was told it holds, and
handles are otherwise arbitrary existing ones. Without the third, mutual
exclusion fails trivially: the code keeps no owner.

Running out of handles or of thread slots makes the emulator exit. Such a step
is not taken; the scheduler still has steps, so this is not a deadlock.

### AddressSpace, MemMap, MemReorder, ControlMemory: guest memory

`AddressSpace` is the promise: an address has a set of host bytes behind it, it
never loses one, and every access touches, for each address it covers, a byte
behind it.

`MemMap` is `src/mem.c` with u32 arithmetic modulo `Space`: `Overlaps`,
`Contains`, `AddMapping`, the lookups of 8, 16 and 32 bits, the bulk transfers, and
`mem_rawaddr`. `mem_Read` and `mem_Write` call themselves twice when no mapping holds
the whole transfer. Each call is a step (`RunCall`): it is served (`Serve`), or
replaced by its two calls (`Cut`), or it ends the program; `calls` holds those that
are still to run, in order, and nothing else happens while there are any. What
memory contains is left out: an access is the list of host bytes it touches. An
access that a wrapped sum lets through although it lies outside the mapping, and a
counter update outside of the array, end in `stopped = "wild"`: undefined behaviour,
after which nothing is claimed. In `MemMap`, `mem_Reorder` picks any permutation;
`MemReorder` has the access counters and the selection sort, a round per step
(`SortRound`), and implements `MemMap`.

`ControlMemory` adds the supervisor calls with their parameter checks, including
the wrap-around of each, `linearalloced`, and the blocks. `granted` is history.
The regions keep the order of the real ones (`CodeBase < HeapBase < LinearBase <
FontBase < LinearEnd < Space`).

### IrqQueues, GspQueue: the interrupt relay queues

`IrqQueues` is the promise: FIFO queues that all receive the same interrupts,
but for those of the display, which a queue with many entries may miss. A queue
that overran promises nothing until it is registered anew.

`GspQueue` has the ring of each client as it lies in shared memory (head, entries
in use, entries), the single `trigevent`, and the commands each client has
written. Interrupts come between any two steps of a client; the emulator runs the
commands of a batch one per step, and a client has no turn until the batch is done. What clients do to
the shared page (`TakeInterrupt`, `FindEmpty`, `WaitForEvent`, `WakeUp`, `WriteCommand`) is
guest code, modelled from the layout that `gsp_gpu.c` reads, and marked external. A client
looks at its queue in one step and waits in another, so that an interrupt may come in
between, while the client is awake.
A registration zeroes three words, at 0x40, 0x44 and 0x48 times the client's ID: the
first is the start of its ring, `Stray` has the entries that the others fall on.

### DebugSession, GdbStub: the debugger's two threads

`DebugSession` is the promise to a debugger: the session is stopped or running, the
requests to stop that come up while it runs are answered with one report, and no
request waits for ever.

`GdbStub` has the thread that emulates the CPU (`cpu.pc`: going round in
`threads_Execute`, asleep in `wait_while_stall`, fetching, calling the hook, accessing
memory, retiring) and the listener. `cpu.active` says whether any guest thread can be given
a turn: an instruction may end with all of them waiting, and from then on the scheduler
goes round without `wait_while_stall`, `arm11_Run` or the hook, until a poll finds one that can
go on (`Wake`). They share everything but the stall flag without a lock, so each runs its
statements one by one from `work`, and the other may come in between any two. A C
function that does several things to shared state puts its statements there in the
program's order; `stall_cpu` on the listener's thread is two, the flag under the lock
and the zero outside of it, with all the CPU's thread may do in between. The debugger
and its socket are the environment: they may send any packet the stub knows, a break
at any time, or leave.

### Arm*, ArmManual: the interpreter

`ArmState` has arithmetic on words of four bytes of `B` bits, and the record of
registers, banks, flags, pipeline and monitor, with the condition tests and the
switch of modes; the other modules have, per instruction or addressing mode, an operator
from state to state. `ArmOpcodes` and `Arm` are the table of `ARMul_Emulate32`, which
decodes by bits 20 to 27 and then, in each case, by what else it looks at; `ArmThumb`
makes the ARM instruction out of a Thumb one, as `thumbemu.c` does. `Arm` also
switches between threads, since the emulator keeps only some of the registers.

`ArmManual` says what the architecture does, without any of the code's
ways: one place at a time for shifts, whole numbers for sums and products, one byte at
a time for memory. Instructions that the code interprets otherwise are left out of
the statements there by name, with the line (section 6 lists them).

### VfpFormat, VfpSingle, VfpDouble, Vfp, VfpManual: floating point

A format is its bits of exponent and of mantissa. `VfpSingle` and `VfpDouble` are the
two files of the same name: unpacking, the arithmetic with sticky bits, normalising
and rounding, and conversions. `Vfp` is the register file, FPSCR and the loops
over vectors. `VfpManual` computes every result exactly and rounds it. `Deviates` lists
where the code departs from that, each with its lines; everywhere else the two agree.
`Builds` has the two results of a shift by its operand's width, which C leaves open.

### HostFiles, Archives, FsUser: files

`HostFiles` is the host: a flat directory, the bytes of each file, and streams that may
hold one write or one read back. Nothing of it is under `src/`, so it is
external. `Archives` has the functions of the seven archives as sets of outcomes; six of
them are copies that differ in few places, so each function is stated once with the
differences as parameters. `FsUser` is the service: one action per command. `guest` is
history: what the answers so far tell the guest, and which of the conditions in the
properties' comments still hold.

One archive is open at a time, it is opened and closed while no file of it is, and the
directory handle is read while no file is open. The host's disk is never full. Left
open: whether `OpenArchive`'s path can be read, whether a ROM is loaded, and which of the
entries that come or go while a directory is read are among those it lists.

### VertexShader, Raster, Gpu, ShaderSource: drawing

`VertexShader` is `ProcessShaderCode` as a function from the state a shader starts in to
the one it ends in, with its eight stacks. `Raster` takes a triangle to the pixels it
covers. `Gpu` is the registers, the fetching of attributes, the uniforms and the assembly
of triangles: the guest uploads shader, uniforms and layout in command lists cut where it
likes, draws, and restarts. `ShaderSource` has shaders in blocks, their meaning, and the
code an assembler makes of them.

A word of a register is four bytes, and memory is bytes that attributes are read from
by their format. A float is a whole number in the shader and an exact fraction in the
clipper, which cuts a triangle at the seven planes as the code does and draws the rest as
a fan, each part in both orders. On its way to a uniform a float is three or four named
bytes, so that a vector whose bytes are put together in another order is not that
vector; how `f24to32` makes 32 bits of 24 is left out. The framebuffer counts which
triangles drew a pixel.

## 3. The runs

| Run | Module | Question | Properties |
|---|---|---|---|
| `kernel_boot` | MCKernel | from `main()`'s state: do threads keep what is theirs while the table shifts? | `IInv`, `OwnBuffer`, `ThreadLifecycle` |
| `kernel_arb` | MCKernel | who is resumed by an arbitration? | `OnlyRunningRuns`, `ResumedInOrder` |
| `kernel_wait` | MCKernel | do the three ways to take an object exclude each other? | `OwnRegisters`, `MutualExclusion`, `WaitListsPollable` |
| `kernel_live` | MCKernel | does everyone who can run do so, and does a signal wake? | `EveryRunnableThreadRuns`, `SignalWakes` |
| `mem_reorder` | MCMemReorder | is the table, sorted under the guest, one address space? | `MapTypeOK`, `OverlapsEnclose`, `BusiestFirst`, `ImplementsMemMap`, `ImplementsAddressSpace`, `LookupsStay` |
| `svc_memory` | ControlMemory | is granted memory served, do mirrors meet, are blocks apart? | `GrantsAreServed`, `MirrorsMeet`, `BlocksApart` |
| `gsp_queue` | GspQueue | are the rings queues, and is every wake-up kept? | `RoomForCompletions`, `NoLostWakeUp`, `ImplementsIrqQueues` |
| `gdb_stub` | GdbStub | do the two threads agree on who is stopped? | `StallIsKnown`, `ImplementsDebugSession`, `BreakIsAnswered` |
| `arm` | MCArm | does each instruction do what the architecture says? | `ArithmeticAsArchitected`, `TransfersAsArchitected`, `ThumbAsArchitected`, `ExclusiveStoresReplaceTheLoaded` |
| `vfp` | MCVfp | is every result the rounded exact one? | `SinglesAsArchitected`, `DoublesAsArchitected`, `VectorsGoRound` |
| `files` | MCFsUser | does the guest's disk keep what it was told it keeps? | `AcknowledgedIsStored`, `ReadsWhatItWrote`, `SizeIsKnown`, `ListsEveryEntryOnce` |
| `gpu` | MCGpu | is what is drawn what was submitted? | `ShadersRunAsWritten`, `TrianglesAsSubmitted`, `SharedEdgesDrawnOnce`, `UniformsArrive` |

`IInv` contains `KernelTypeOK` and `OwnRegisters`.

Each property has a mutant in `PROJECT.json`: a plausible slip in
the code, as an operator beside the one it replaces, under which TLC finds the
property violated with the same configuration.

### Bounds

| Bound | Value | Why it is enough |
|---|---|---|
| `MaxThreads` | 3 in `kernel_boot`, `kernel_arb`; 2 in the others | a removal in the middle of the table needs three; a full table is reached, so that the shift reads behind the array. Two suffice for who holds what |
| `MaxHandles` | 5 or 6 | the process, the threads and the objects; the table fills up |
| `Priorities` | {48, 49} where threads differ | order is all that is compared |
| `Addresses`, `Values` | {0, 4}, {0, 1} in `kernel_arb` | two addresses tell matching from not; the code only compares values |
| `WaitLists` | the empty one, two of mutex with event or semaphore, one with a handle nobody can wait on | every early return of the loop, with and without `wait_all`; both orders of a taken and an untaken object |
| semaphore counts | limits 1 and 2, releases of 1 and 2 | full, room for one, release of more than there are |
| `Space` | 8, 32 | three mappings of different sizes fit, meet and wrap around; 32 keeps the six regions apart |
| `MaxMappings` | 3 | full table; a transfer over three mappings; a sort with two rounds |
| `MaxAccesses` | 2 | counters equal, one ahead, order reversed |
| `Ranges`, `Starts`, `Lengths` | four ranges, adjacent, nested and up to the top; transfers of four bytes; none in `svc_memory`, whose steps are the calls of the supervisor | every answer of `Overlaps`; a transfer held by one mapping, and cuts in one and in two places |
| `MaxBlocks`, `MaxLinear` | 2, 2 | two blocks that could share; commits that reach the end of linear memory |
| `Queues`, `Slots`, `Enough`, `Byte`, `Header`, `Word` | 2, 3, 2, 7, 1, 1 | a registration clears two stray entries; the real order 0 < Enough < Slots and 2 * Slots <= Byte holds; the ring wraps, overruns, and the count wraps to zero; as 2^8 of 0x34, `Byte` is no multiple of `Slots` |
| `MaxRegistrations`, `MaxCommands` | 2, 1 | one client supersedes another's event; completions pile up over batches, since the commands are all of one kind |
| `Entries`, `Addrs`, `BreakLists`, `BreakAddrs`, `MaxAccesses` | 2, 2, {instr, access}, one of the two, 1 | a list with an entry before and behind another, while the walk stands on one; one access per instruction, which may hit a watchpoint or nothing |
| `B` | 2 | a word of eight bits still has four bytes, two halves, a sign, and amounts of a shift above its width |
| `Scenes` of `arm` | 21, each the product of a set of register files and a set of instructions | operands 0, 1, the largest and the ones around the sign; bases at each alignment, at both ends of mapped memory; every opcode; three to five steps where state is carried over |
| `Single`, `Double`, `RootError` | e=6, m=3; e=7, m=8; 1 | see `MCVfp`: all significands of a single, the ones around each carry of a double; the estimate of a root off by as much as the table's |
| `Builds` | modulo, zero | the two results that a shift by the width of its operand has |
| `Names`, `Handles`, `Counts`, `Sizes`, `MaxThings` | 2, 2, 0 to 2, 0 and 1, 3 or 2 | two streams of one file, a name replaced by another, a listing in pieces |
| `STACK_MAX`, `Dozens` | 2, 13 | shaders of one to four levels go past a full stack; no terminating one takes 13 times 12 steps |
| `HalfWidth`, `HalfHeight`, `MaxRestarts` | 2, 2, 1 | sixteen pixels, pairs of triangles over a grid of five points and pairs that are cut at one side or two, away from the screen's corner; vertices from before and after a restart |
| `Bursts` | 1, 3, 5 | a vector of three or of four words cut at every place |

`kernel_arb`, `kernel_wait` and `kernel_live` start where the first
thread has just created the objects (`MCKernel!StartInit`), which is a state that
`Kernel!Init` leads to; `kernel_boot` starts from `main()`. Deadlock
is checked except where the modelled program may stop or a run is over: in the two
runs over the memory map, where the program may end with `exit(1)` or undefined
behaviour; in `gdb_stub`, where the debugger may leave while the CPU sleeps; in
`files`, where a NULL stream ends the emulator; in `arm`, `vfp` and `gpu`, where a scene
has an end.

Only `files` uses symmetry (of names and of file handles, which the archives only
compare); it also leaves the last answer out of the view, on which nothing that
follows depends. Slots of the thread table are ordered and handles are created in
order, so the other runs use none.

## 4. Fairness

Two runs need fairness, all of it weak. In `gdb_stub` both threads of the emulator are
fair: the host schedules them, and neither holds the lock while it waits for the
other. Packets, breaks and the debugger's leaving are not: nobody has to send anything.
Nor is `Wake`: no guest thread has to become active, and without one the CPU's thread only
goes round (`threads.c:312`, 336) and never reaches the hook that answers a break.
`BreakIsAnswered` therefore has a premise, that again and again some guest thread is active.
The `WF` of `DebugSession` (no request waits for ever) rests on the emulator alone: a
request is a byte in the pipe, which the listener reads whatever the guest does.

In `kernel_live` (`Kernel!Fairness`):

* `Scheduler` and the steps of a wait: `main()` calls `threads_Execute` in a loop with
  no exit but the user's, and no step in it blocks.
* `svcSleepThread` of the thread that has its turn: this is an assumption about the
  guest. A turn has no limit in this build (`NumInstrsToExecute` is compared with
  zero and never decremented), so a guest thread that makes no system call keeps
  the CPU for ever, and no scheduler property could hold. What the run shows is
  that nothing else keeps a thread from running.

`SignalWakes` is stated for a sticky event. A oneshot or pulse event is consumed by
the first thread polled, so two threads waiting for one may starve one of them.

## 5. The proofs

### Kernel_proofs

`Invariance`: `Spec => []IInv`, for any number of slots and handles, any priorities,
call set, wait lists, words and values. `IInv` has five parts, and each is needed:

* `KernelTypeOK`: types; entries' roots exist and are not redirections.
* `SweepInv`: which slot is current, RUNNING or in use at each `pc`. Needed because
  `t` and `current_thread` are plain indices: `OwnRegisters` fails after a shift
  unless `current_thread` is -1, or 0 with one thread left, when `pc = "reap"`.
* `TableInv`: no two live threads share a handle, so "the slot of thread h" is
  one slot; stored handles (wait lists, registered events) are of a kind their
  later use needs. Needed for `OwnRegisters` and `WaitListsPollable`.
* `LockInv`: `told` and `held` are about entries that exist, and `MutualExclusion`.
  The first part is needed when `handle_New` adds an entry: it cannot be held yet.
* `OwnRegisters` itself.

There is a lemma per action, and in it a step per part that the action can
disturb; generic lemmas say what an entry's update or an append keeps. From it:

| Theorem | Property |
|---|---|
| `TypeCorrect` | `KernelTypeOK` |
| `RegistersStayOwn` | `OwnRegisters` |
| `MutexesExclude` | `MutualExclusion` |
| `WaitsCanBePolled` | `WaitListsPollable` |
| `OnlyRunningThreadsCall` | `OnlyRunningRuns` |
| `ThreadsLiveOn` | `ThreadLifecycle` |
| `ResumesInOrder` | `ResumedInOrder` |
| `BuffersStayOwn` | `OwnBuffer` |

The last three are proved step by step: `ThreadsLiveOn` and `ResumesInOrder` are about
pairs of states and use `IInv` in the first of them; `BuffersStayOwn` is an induction of
its own, over the steps that load a context, shift the table or add a thread.

They rest on the named assumptions of the constants, and on the assumptions
about the guest that are guards in `GuestCall`.

### MemMap_proofs

Two facts say what any step does to the table: it keeps every entry in its place
and perhaps adds one behind (`EntriesKept`), or permutes the entries
(`EntriesMoved`). Everything about the table follows from these two.

| Theorem | Property | Argument |
|---|---|---|
| `MapTypeCorrect` | `MapTypeOK` | by action; that the two parts of a cut call are not empty (`PartsFit`) needs the arithmetic of u32 around `Contains` |
| `OverlapsOnlyEnclose` | `OverlapsEnclose` | invariant with the types; `Overlaps` is linear arithmetic once wrap-around is excluded by `Plain` |
| `NoByteIsLost` | `BackingKept` | each entry is somewhere in the new table |
| `LookupsNeverMove` | `LookupsStay` | the entry that served is there still; the new first one serves a byte of the old set, which has one element, or is a new entry behind all the old ones |
| `TransfersAreWhole` | `WholeTransfers` | with `CallsFollow`: each waiting call starts where the one before it ends, so what has been touched and what is still asked for add up |
| `ReadsLikeMemory` | `ImplementsAddressSpace` | `NoByteIsLost` for the table, and `BytesPlaced`, that the k-th byte touched was behind the k-th address when it was touched, for the accesses |

`BackingKept` and `WholeTransfers` are not properties of a run: the first is a part of
`ImplementsAddressSpace`, and the second a step towards it that is stated in the proofs.

`ReadsLikeMemory` has the hypothesis `RangesEnd`: no range that the program maps
reaches over the top of the address space (it may end there). The code does not check
this, and for a mapping that does the addresses behind the top would be served by a
transfer that wraps around. Nor do all callers refuse one: `svcControlMemory` compares
the wrapped sum of address and size with the end of its region (`memory.c:140`), and the
addresses of `svcMapMemoryBlock` come from the guest unchecked. The theorem says nothing of a guest that does this.

`Min` and `Max` of `FiniteSetsExt` are a `CHOOSE`; `MinIsLeast` and `MaxIsGreatest` prove
that they exist, without the induction theorems that take an operator. Sums modulo
`Space` are compared by lemmas (`WrapAnytime` and its neighbours) that split on whether
a sum wraps, since the SMT solver does not divide by a constant it does not know.

### MemReorder_proofs

| Theorem | Property | Argument |
|---|---|---|
| `SortIsReorder` | `ImplementsMemMap` | a round swaps two whole entries, which is a permutation, so that it is a `mem_Reorder` of `MemMap`; every other step is a step of `MemMap` with counters beside it, or changes counters alone |
| `SortPutsBusiestFirst` | `BusiestFirst` | the entries before `round` are in order and none behind is busier; a round adds the first busiest of the rest |

### ControlMemory_proofs

Every step of `ControlMemory` is one of `MemMap` on the table, so the table keeps
`MapInv`; `SvcInvariance` adds that each grant has an entry with its base and its size,
wherever a reorder moves it, and `MirrorsMeet` itself: a mirror's entry and the one it
mirrors go to the same host bytes.

| Theorem | Property |
|---|---|
| `GrantsStayServed` | `GrantsAreServed` |
| `MirrorsStay` | `MirrorsMeet` |
| `BlocksStayApart` | `BlocksApart` |

`BlocksStayApart` is by `BlocksBelow`: every block given from linear memory ends at or below
`LinearBase + linearalloced`, and the next begins there. Its hypothesis `LinearFits`
says that the u32 `linearalloced`, which nothing resets, does not come around to zero:
`MaxLinear`, the bound up to which the model commits, and one more commit stay below
`Space`. The hypothesis is needed: the code does not stop the count.

### GspQueue_proofs

`GspInvariance` is types, and the shape of the rings: as long as a queue has not
overrun, it has at most `Slots` entries in use and none of the display behind the first
`Enough` of them. The handler drops a display interrupt by the count of entries in use,
so its entries never lie further back, and taking the head only moves them forward.

| Theorem | Property | Argument |
|---|---|---|
| `GspTypeCorrect` | types | by action |
| `DisplayLeavesRoom` | `RoomForCompletions` | `RingInv`: an entry of the display lies in places 1 to `Enough`, which is less than `Slots` |
| `WakeUpsArrive` | `NoLostWakeUp` | by action; an interrupt unlocks the event of the client that registered last, awake or not, and only that client's own wait locks it again; it waits after it has found its queue empty (`looked \subseteq awake`, from the types) |
| `RingsAreQueues` | `ImplementsIrqQueues` | `Pending` of a ring after a step is the old one without its head, with one more at its end, or as it was; u8 sums are taken modulo `Byte` |

### GdbStub_proofs

`GdbInv` is types; the pool (`PoolInv`: a descriptor is on one list, at one place); the
order of what each thread has yet to run (`Ordered`: behind every stall comes a report,
behind every `start_run` of the listener the end of the stall); and `StallIsKnown`, which
needs that order when a statement is taken from the front.

| Theorem | Property | Argument |
|---|---|---|
| `GdbTypeCorrect` | types | by statement and by packet |
| `DescriptorsKept` | `PoolInv` | insertion and removal move one descriptor; `NextOf` finds it on whichever list it is |
| `StallsAreKnown` | `StallIsKnown` | `Ordered` |
| `StepsOfSession` | safety of `ImplementsDebugSession` | every action is a step of `DebugSession` or none |

### FsUser_proofs

Every command is a choice among outcomes, and each outcome gives the files that it
leaves and the bytes that it acknowledges. `Advances` says of one outcome what makes it
right; `LearnsKeeps` proves, once, that the invariant survives any outcome that
`Advances`. What is left is one lemma for each of the dozen things that an archive's
function does to the host (flush, drop, write through, hold back, resize, open, make, move,
remove), and under it one for each command. `IInv` is:

* types, and `Able`: which functions the open archive has, which `kind` alone decides;
* `Kept`: every file that no two handles wrote at once comes to its acknowledged bytes
  (`Settles`), and the archives of `WriteThrough` hold nothing back. The proofs use
  `Comes`, the same said by position: the byte is that of any stream that holds one there,
  else the file's, else zero, so streams may pass on what they hold in any order.
  `AcknowledgedIsStored` is this part;
* `Undisturbed`: a handle that is alone with its file leaves exactly the acknowledged bytes
  when it passes on what it holds, SDMC's noted size is their number (`Sound`), and what it
  reads is not an old buffer (`Fresh`). `SizeIsKnown` and `ReadsWhatItWrote` follow, the
  second because a read first passes on what its own stream holds (`Sought`);
* `RomStays`: the file system of a ROM is one file with the ROM's bytes;
* `Listing`: what a directory handle notes as delivered is what the guest was given, and the
  entries it started from are those that are there.

| Theorem | Property |
|---|---|
| `AcknowledgedStays` | `AcknowledgedIsStored` |
| `SizesAreKnown` | `SizeIsKnown` |
| `ListsAreComplete` | `ListsEveryEntryOnce` |
| `HandlesReadBack` | `ReadsWhatItWrote` |

They rest on `HostAssumption` (finitely many names and handles, and the empty and the
unsafe path are no names) and `FsAssumption` (the kinds, bytes and numbers are of their
types, a write has at least one byte). That an inode is always free for a new file
(`FreeInode`) is counting: there are as many as names and handles together.

### Gpu_proofs

For any scenes that `SceneAssumption` allows: any number of words in a command, of
vertices in a draw, of draws and of restarts, any size of the screen, any shader. What the
shader computes and which pixels are drawn is left open; neither the assembly nor the
uniforms depend on it.

| Theorem | Property | Argument |
|---|---|---|
| `TrianglesStayAsSubmitted` | `TrianglesAsSubmitted` | `Assembled`, per topology: how many triangles have been sent since the restart, of which vertices each, and which vertices wait in `buffer`, as functions of the number of vertices fed |
| `UniformsAlwaysArrive` | `UniformsArrive` | `Received`, per place in the stream of words: the words gathered are those of the vector that the stream stands in, the register counts to it, and every vector before it is in its place |

`IInv` is that the GPU is a record with its registers, and these two. Each is stronger
than its property: a triangle is made of vertices that were buffered one or two draws ago,
and a vector of words that came in commands before this one, so the invariant must say
what is held back in between (`ListAssembled`, `StripAssembled`, `FanAssembled`; `SetUp` and
`Gathered`). The proof goes by command: a draw feeds vertices one by one (`VerticesDrawn`), a
restart leaves nothing to assemble (`Blank`), a command of uniforms receives its words one
by one (`ItemStep`, `CommandReceived`), everything else touches neither. `VectorDecoded` is the
arithmetic of bytes: words cut from a vector, last word first, come apart to its components.

Draws and commands repeat a step as often as the guest says. That the steps add up is an
induction on their number, which the library states with an operator as its parameter;
here the set of the numbers for which the claim fails has no least element, by
`WFMin` and `NatLessThanWellFounded`. The stream is a concatenation of as many sequences as
there are vectors and batches; `Starts` is where each begins, a `CHOOSE` among functions,
so TLC cannot evaluate `IInv`; it checks the two properties.

`SceneAssumption` says what a guest sends: batches are below uniform 96 and apart from
each other, since a batch sent later over the same registers is meant to replace the
earlier one.

### Only model-checked

* Liveness: `EveryRunnableThreadRuns`, `SignalWakes`, `BreakIsAnswered`, and the fairness
  in `ImplementsDebugSession`. `ENABLED` and fairness are outside of TLAPS's reach here.
* The interpreter and the VFP: the statements range over sets of instructions and
  operands that TLC enumerates, against reference definitions that are recursive over
  the bits of a word.
* `ShadersRunAsWritten`: the meaning of a shader's source and the assembler are recursive over
  its blocks, and what a run of the code computes for every source is an induction over data.
* `SharedEdgesDrawnOnce`: a product of four coordinates at each pixel, with a quotient in
  `IsRightSideOrFlatBottomEdge`, which is outside of the linear arithmetic that the solver
  decides, and the clipper's fractions, reduced by a recursive function.

## 6. What was found

Where the code departs from what the rest of the repository, or the architecture it
emulates, says. The properties of section 3 are stated so that they hold of
everything else; each names what it leaves out.

Kernel and memory:

* `threads_RemoveZombies` shifts whole records, `servaddr` among them, and neither
  `threads_New` nor `svcCreateThread` sets one: after a removal, the next thread has the
  command buffer of the last live one (`src/arm11/threads.c:169`,
  `src/loader.c:327`). `OwnBuffer` says only that a thread uses the buffer of its slot.
* `wrapWaitSynchronizationN` clears `all_unlocked` for unlocked handles too when `wait_all` is
  set, so the early return is never taken: a thread that was just given every mutex
  it asked for is suspended and then polled for mutexes it holds itself
  (`src/handles.c:266`, comment at 282).
* `Overlaps` does not refuse a mapping that starts below an existing one and reaches to
  its end or beyond (`src/mem.c:83`, messages at 114 and 160). `OverlapsEnclose` says, and
  its theorem proves, that nothing else gets through.
* Unmapped bulk accesses count in the entry behind the last one, the test for the end of
  linear memory looks at one call only, and waiting for any handle also consumes
  handles behind the one that ends the wait.
* `svcMapMemoryBlock` answers success when the table is full and nothing was mapped
  (`src/syscalls/memory.c:351`); a block whose commit is refused early has an address
  that was never set (461). `GrantsAreServed` and `BlocksApart` leave both out.
* `svcCreateEvent` makes the object before it looks at the type: a type it does not know
  leaves an unlocked, sticky event behind, whose handle is not reported (`src/syscalls/events.c:52`).

GSP: there is one `trigevent`, so a second registration, or one with a bad handle, takes the
wake-ups of the client before it (`gsp_gpu.c:336`). `NoLostWakeUp` is about the client that
registered last.

Debugger:

* A packet with a bad checksum, or one that comes while the stub is not ready, is
  answered with `-` and processed all the same (`src/gdb/gdbstub.c:1663`): a debugger
  that reconnects may believe that the CPU is stopped while it runs.
* A break is answered by the next instruction, so while every guest thread waits it has no
  answer (`src/arm11/threads.c:312`).
* `emu_stub_state` and `main_stop_flag` are written and never read; the hook, called
  "post execution", runs before the instruction, and a stop is reported while the
  instruction still executes; a bus error on a load is reported twice; a detach lifts no stall.
* The listener's zero of `NumInstrsToExecute` is lost when `arm11_Run` stores 1000 right after
  it; the CPU then goes on until its turn ends by itself.

Interpreter: UMAAL keeps 32 bits of its product (`armemu.c:5764`); LDREXD writes both
words to one register (2309); a store-exclusive compares only the value, so a value
that went and came back passes, and CLREX is ignored; LDREXD's value and half of the
VFP's registers are not kept per thread (`wrap.c:424`, 459); the GE bits of SADD8 and SSUB8
(5966), the carries of UADD8 and USUB8 (6177), the high half of USAT16 (6536), SMLAD with
its accumulator as destination (6648), PKHTB's shift (3177); SBFX does not
move the field down, and gives 0 when source and destination are one register (1221); the
mask for PLD leaves bit 25 free, so that four more encodings are ignored (1121); BFI, BFC
and MOVT do nothing.

VFP: the entries of `VfpManual!Deviates`, and: a flag for the unit's own use stays in FPSCR
(`vfp_helper.h:484`); FCMPZ.F64 compares with what D16 holds (386); an undefined operation on
doubles sets all of FPSCR; underflow is found after rounding.

Files:

* `fnDeleteFile` of SaveData and ExtSaveData removes directories: a file cannot be
  deleted, and the service answers success anyway.
* ExtSaveData, SharedExtData and SystemSaveData acknowledge writes that stay in the stream, do not
  count them in the size, and answer Flush without flushing; a SetSize past the stream is
  undone by the write it holds. SaveData's size is the position after a write.
* The size of SDMC is a note of each handle: a write through another handle leaves it as it
  was, which `SizeIsKnown` leaves out.
* The listings of SaveData and ExtSaveData start anew with every call and count nothing, so
  directories look empty; SDMC and SharedExtData, asked for several entries,
  deliver the last one.
* A file opened for writing whose path is a directory ends the emulator; a rename replaces what
  was there; unsafe paths and `OpenFileDirectly` are answered as success; closing an
  archive leaves its handle usable and freed.

GPU:

* The then-branch of an if ends one instruction late (`gpu.c:786`); the ends of ifs, calls
  and loops are checked kind by kind, so an if that holds a loop that ends a call loses
  its order; a push on a full stack is dropped.
* The first triangle of a fan has an old second vertex; a change of topology without a
  restart keeps vertices; the count of words of a float uniform outlives the
  upload it belongs to, and a change of format in the middle overruns the four words.
* The test for triangles that are a line refuses proper triangles (`clipper.c`,
  `PointIsOnLine`); every triangle is drawn twice; where an edge crosses a plane is computed
  with one vertex's w for both (`clipper.c:113`), so cuts are only exact when the two agree,
  as they do in the scenes; MAD, DP3 and the register map for attributes from 8 on miss
  components.
* Of the pixels on an edge that two triangles share, the bias should give each to one of
  them. Which side the third vertex is on is asked with a quotient rounded to zero
  (`rasterizer.c:67`), so a vertex to the left of the edge by less than a sixteenth of a
  pixel counts as one to the right, and both triangles draw the pixel, against the comment
  at 912: with A=(31,20), B=(10,32), C=(21,32) and D=(39,15), in sixteenths, both ABC and ABD
  draw (24,24). `SharedEdgesDrawnOnce` leaves such vertices out by name (`JustLeft`).
* MAD looks for its address register where the other instructions have it; in its word
  two bits of the first operand's number are there (`gpu.c:335`, 943), so an
  operand whose number is not below 4 modulo 16 is read relative to an address register
  that the shader did not name.

## 7. What is not modelled, and why

* What commands and services do to the contents of memory.
* Of the GPU: the combiner, textures, depth, the arithmetic of blending, the
  framebuffer's registers. They are functions of single pixels with little state.
* Of the interpreter: encodings that end the emulator, the breakpoint instruction.
* Of the file system service: host errors other than missing or existing names, paths of more
  than one name, several archives at once.
* Of the GDB stub: the text of packets, and the registers and memory they read and write.
* Timers, ports, resource limits and `svcUnmapMemoryBlock`: stubs that answer.
* Loader: runs once before the first thread; its command buffers are in `ThreadsInit`.
* PolarSSL, the HTTP client, SDL, options: third-party code and host I/O.
* `PROPER_THREADING`: another scheduler, which the build leaves out.
* Sessions between guest servers and clients (`srv.c`): no program reaches them in this
  version. A client's handle (type service, subtype `SERVICE_DIRECT`) is created nowhere,
  `srv_GetServiceHandle` looks only among the built-in services, `svcCreatePort` is a stub,
  and `svcAcceptSession` gives up on a port that no client asked for.
* The locks of APT, the rings of HID: planned, see below.

## 8. Plan

Done, in this order: threads, handles and system calls; guest memory; the interrupt
queues; the debugger's two threads; the interpreter with its exclusive accesses; the
VFP; files; shaders and the assembly of triangles. Left, each a module and a run in the
place of one that shows less:

1. The locks of APT, the rings of HID.
2. Combiner and textures, as functions against reference definitions.

Theorems: for `Threads`, that every sweep gives each live slot its turn, as a measure that
falls, which is the step behind `EveryRunnableThreadRuns`.

## 9. Running the checks

In this directory: `tlc -workers 2 -config <run>.cfg <module>`, with the pairs of
section 3, and `tlapm <module>.tla` for the eight modules whose names end in `_proofs`. No run
takes more than four minutes on two cores; all of the proofs take about three quarters of an hour.
