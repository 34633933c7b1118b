------------------------------ MODULE GdbStub ------------------------------
(***************************************************************************)
(* The GDB stub (src/gdb): the thread that emulates the CPU, the listener  *)
(* thread that talks to the debugger, and what they share without a lock - *)
(* the stall flag, the count of instructions, the hook the CPU calls, the  *)
(* breakpoint lists and the control pipe.  A thread's statements are kept  *)
(* in `work` and run one at a time, so that the threads interleave between *)
(* any two of them.  The debugger and its socket are the environment.      *)
(***************************************************************************)
EXTENDS Naturals, Sequences, SequencesExt

CONSTANTS Entries,      \* breakpoint_pool
          Addrs,        \* addresses of instructions and of data
          BreakLists,   \* bound: the lists the debugger puts breakpoints on
          BreakAddrs,   \* bound: the addresses it breaks at
          MaxAccesses   \* bound: memory accesses of one instruction

Lists == {"instr", "write", "read", "access"}
ASSUME GdbAssumption == /\ IsFiniteSet(Entries) /\ Addrs # {}
                        /\ MaxAccesses \in Nat
                        /\ BreakLists \subseteq Lists /\ BreakAddrs \subseteq Addrs

NoHook == [fn |-> "none"]
Break  == [fn |-> "break"]
StepTo(a) == [fn |-> "step", step_instr_address |-> a]

VARIABLES arm_stall,           \* the flag under arm_stall_mutex
          NumInstrs,           \* s.NumInstrsToExecute # 0; it never counts down
          post_ex_fn,          \* the hook, with step_instr_address for a step
          lists,               \* the free list and the four breakpoint lists
          baddr,               \* breakpoint_gdb.addr
          ctl_stub_state,
          pipe,                \* CPU_STOPPED bytes in ctl_pipe
          sock_fd,             \* has the listener a connection?
          work,                \* statements each thread has yet to run
          cpu,                 \* [pc, addr, left, active]: where the CPU's thread is,
                               \* and whether any guest thread can be given a turn
          dbg, ctrlC           \* the debugger's belief; a 0x03 in flight

vars == <<arm_stall, NumInstrs, post_ex_fn, lists, baddr,
          ctl_stub_state, pipe, sock_fd, work, cpu, dbg, ctrlC>>

Threads == {"cpu", "listener"}

\* What a thread may have to do, with the breakpoint or the address it is about.
Statements == {<<k>> : k \in {"stall", "zero", "unhook", "indicate", "start_run", "unstall"}}
              \cup {<<"walk", l, a>> : l \in Lists, a \in Addrs}
              \cup {<<k, e, a>> : k \in {"visit", "next"}, e \in Entries, a \in Addrs}
              \cup {<<"install_step", a>> : a \in Addrs}

GdbTypeOK ==
    /\ arm_stall \in BOOLEAN /\ NumInstrs \in BOOLEAN
    /\ post_ex_fn \in {NoHook, Break} \cup {StepTo(a) : a \in Addrs}
    /\ lists \in [Lists \cup {"free"} -> Seq(Entries)]
    /\ baddr \in [Entries -> Addrs]
    /\ ctl_stub_state \in {"STOPPED", "START_RUN"}
    /\ pipe \in Nat /\ sock_fd \in BOOLEAN
    /\ work \in [Threads -> Seq(Statements)]
    /\ cpu \in [pc : {"sweep", "gate1", "run", "fetch", "fetched", "hook", "exec", "gate2"},
                addr : Addrs, left : 0 .. MaxAccesses, active : BOOLEAN]
    /\ dbg \in {"off", "stopped", "running"} /\ ctrlC \in BOOLEAN

-----------------------------------------------------------------------------
(* Statements: what a handler still has to do, in order.  The kind and the   *)
(* address a stop is reported with are left out.                             *)

\* stall_cpu sets the flag under the lock and clears NumInstrs outside of it: one
\* step on the CPU's thread, which alone reads NumInstrs, two on the listener's.
stall_cpu(t) == IF t = "cpu" THEN <<<<"stall">>>> ELSE <<<<"stall">>, <<"zero">>>>

\* A breakpoint stalls and reports; hooks and bus errors also drop the hook.
Stopping == stall_cpu("cpu") \o <<<<"indicate">>>>
\* As below, with the report ahead of the stall.
ReportThenStall(t) == <<<<"unhook">>, <<"indicate">>>> \o stall_cpu(t)
abort_execution(t) == stall_cpu(t) \o <<<<"unhook">>, <<"indicate">>>>

break_execution == abort_execution("cpu")
break_bus_error(t) == abort_execution(t)
step_instruction_watch(addr) ==
    IF addr = post_ex_fn.step_instr_address THEN abort_execution("cpu") ELSE <<>>

\* check_breaks_gdb: the walk starts at the head of the list.
CheckBreaks(list, addr) == <<<<"walk", list, addr>>>>

gdb_prefetch(addr) == CheckBreaks("instr", addr)
gdb_read(addr)  == CheckBreaks("read", addr) \o CheckBreaks("access", addr)
gdb_write(addr) == CheckBreaks("write", addr) \o CheckBreaks("access", addr)

\* What follows e on whichever list e is now: e may have been freed.
NextOf(e) ==
    LET l == CHOOSE x \in DOMAIN lists : e \in Range(lists[x])
        i == CHOOSE j \in DOMAIN lists[l] : lists[l][j] = e
    IN  SubSeq(lists[l], i + 1, Len(lists[l]))

\* `bpoint` becomes the first entry of rest, if there is one.
Visit(rest, addr) == IF rest = <<>> THEN <<>> ELSE <<<<"visit", rest[1], addr>>>>

Goes(t, s) == work' = [work EXCEPT ![t] = s]
Shared == <<arm_stall, NumInstrs, post_ex_fn, pipe, ctl_stub_state>>
Unshared == <<lists, baddr, sock_fd, cpu, dbg, ctrlC>>

\* One statement of thread t.
Stall(t, rest) ==
    /\ arm_stall' = TRUE
    /\ NumInstrs' = (NumInstrs /\ t # "cpu")
    /\ Goes(t, rest)
    /\ UNCHANGED <<post_ex_fn, pipe, ctl_stub_state>>
Zero(t, rest) ==
    /\ NumInstrs' = FALSE
    /\ Goes(t, rest)
    /\ UNCHANGED <<arm_stall, post_ex_fn, pipe, ctl_stub_state>>
Unhook(t, rest) ==
    /\ post_ex_fn' = NoHook
    /\ Goes(t, rest)
    /\ UNCHANGED <<arm_stall, NumInstrs, pipe, ctl_stub_state>>
indicateCPUStop(t, rest) ==
    /\ pipe' = pipe + 1
    /\ Goes(t, rest)
    /\ UNCHANGED <<arm_stall, NumInstrs, post_ex_fn, ctl_stub_state>>
Walk(t, s, rest) ==
    /\ Goes(t, Visit(lists[s[2]], s[3]) \o rest)
    /\ UNCHANGED Shared
VisitEntry(t, s, rest) ==
    /\ Goes(t, IF baddr[s[2]] = s[3]
                 THEN Stopping \o <<<<"next", s[2], s[3]>>>> \o rest
                 ELSE Visit(NextOf(s[2]), s[3]) \o rest)
    /\ UNCHANGED Shared
NextEntry(t, s, rest) ==
    /\ Goes(t, Visit(NextOf(s[2]), s[3]) \o rest)
    /\ UNCHANGED Shared
StartRun(t, rest) ==
    /\ ctl_stub_state' = "START_RUN"
    /\ Goes(t, rest)
    /\ UNCHANGED <<arm_stall, NumInstrs, post_ex_fn, pipe>>
InstallStep(t, a, rest) ==
    /\ post_ex_fn' = StepTo(a)
    /\ Goes(t, rest)
    /\ UNCHANGED <<arm_stall, NumInstrs, pipe, ctl_stub_state>>
Unstall(t, rest) ==
    /\ arm_stall' = FALSE
    /\ Goes(t, rest)
    /\ UNCHANGED <<NumInstrs, post_ex_fn, pipe, ctl_stub_state>>

Statement(t) ==
    /\ work[t] # <<>>
    /\ LET s == Head(work[t])
           rest == Tail(work[t])
       IN  \/ s[1] = "stall" /\ Stall(t, rest)
           \/ s[1] = "zero" /\ Zero(t, rest)
           \/ s[1] = "unhook" /\ Unhook(t, rest)
           \/ s[1] = "indicate" /\ indicateCPUStop(t, rest)
           \/ s[1] = "walk" /\ Walk(t, s, rest)
           \/ s[1] = "visit" /\ VisitEntry(t, s, rest)
           \/ s[1] = "next" /\ NextEntry(t, s, rest)
           \/ s[1] = "start_run" /\ StartRun(t, rest)
           \/ s[1] = "install_step" /\ InstallStep(t, s[2], rest)
           \/ s[1] = "unstall" /\ Unstall(t, rest)
    /\ UNCHANGED Unshared

-----------------------------------------------------------------------------
(* The CPU's thread. *)

CpuIsAt(pc) == cpu.pc = pc /\ work["cpu"] = <<>>
CpuOnly == <<arm_stall, post_ex_fn, lists, baddr,
             ctl_stub_state, pipe, sock_fd, dbg, ctrlC>>

\* threads_Execute passes over the slots that are not active, and without an
\* active one it goes round and neither waits nor runs anything.
threads_Execute ==
    /\ CpuIsAt("sweep") /\ cpu.active
    /\ \E a \in Addrs : cpu' = [cpu EXCEPT !.pc = "gate1", !.addr = a]
    /\ UNCHANGED <<NumInstrs, work>> /\ UNCHANGED CpuOnly

\* The poll of a waiting thread's handles may find that one can go on, after an
\* interrupt that the scheduler has raised as it went round; it need not.
Wake ==
    /\ CpuIsAt("sweep") /\ ~cpu.active
    /\ cpu' = [cpu EXCEPT !.active = TRUE]
    /\ UNCHANGED <<NumInstrs, work>> /\ UNCHANGED CpuOnly

\* wait_while_stall, ahead of arm11_Run and behind it.
wait_while_stall ==
    /\ ~arm_stall
    /\ \/ CpuIsAt("gate1") /\ cpu' = [cpu EXCEPT !.pc = "run"]
       \/ CpuIsAt("gate2") /\ cpu' = [cpu EXCEPT !.pc = "sweep"]
    /\ UNCHANGED <<NumInstrs, work>> /\ UNCHANGED CpuOnly

arm11_Run ==
    /\ CpuIsAt("run")
    /\ NumInstrs' = TRUE
    /\ cpu' = [cpu EXCEPT !.pc = "fetch"]
    /\ UNCHANGED work /\ UNCHANGED CpuOnly

\* The prefetch's check of the breakpoints, and the test behind it.
Prefetch ==
    /\ CpuIsAt("fetch")
    /\ Goes("cpu", gdb_prefetch(cpu.addr))
    /\ cpu' = [cpu EXCEPT !.pc = "fetched"]
    /\ UNCHANGED NumInstrs /\ UNCHANGED CpuOnly
Fetched ==
    /\ CpuIsAt("fetched")
    /\ cpu' = [cpu EXCEPT !.pc = IF NumInstrs THEN "hook" ELSE "gate2"]
    /\ UNCHANGED <<NumInstrs, work>> /\ UNCHANGED CpuOnly

\* The hook runs ahead of the instruction, which then runs to its end.
CallHook ==
    /\ CpuIsAt("hook")
    /\ Goes("cpu", CASE post_ex_fn.fn = "none"  -> <<>>
                     [] post_ex_fn.fn = "break" -> break_execution
                     [] post_ex_fn.fn = "step"  -> step_instruction_watch(cpu.addr))
    /\ cpu' = [cpu EXCEPT !.pc = "exec", !.left = MaxAccesses]
    /\ UNCHANGED NumInstrs /\ UNCHANGED CpuOnly

\* An access by the instruction.  The check makes the access once itself, so a
\* load from where nothing is mapped reports its bus error twice.
Access ==
    /\ CpuIsAt("exec")
    /\ cpu.left > 0
    /\ \/ \E a \in Addrs : Goes("cpu", gdb_read(a)) \/ Goes("cpu", gdb_write(a))
       \/ Goes("cpu", break_bus_error("cpu") \o break_bus_error("cpu"))
    /\ cpu' = [cpu EXCEPT !.left = @ - 1]
    /\ UNCHANGED NumInstrs /\ UNCHANGED CpuOnly

\* The instruction ends: the next may be anywhere, and a system call may have
\* ended the slice, with every thread waiting or the last one gone.
Retire ==
    /\ CpuIsAt("exec")
    /\ \E a \in Addrs, more \in {NumInstrs, FALSE}, active \in BOOLEAN :
         /\ more => active
         /\ NumInstrs' = more
         /\ cpu' = [pc |-> IF more THEN "fetch" ELSE "gate2", addr |-> a, left |-> 0,
                    active |-> active]
    /\ UNCHANGED work /\ UNCHANGED CpuOnly

-----------------------------------------------------------------------------
(* The listener's thread. *)

Listens == work["listener"] = <<>>
ListenerOnly == <<arm_stall, NumInstrs, cpu>>

\* A byte in the pipe goes before everything else.  putpacket waits for '+' and
\* throws away whatever else it reads, a break included.
TakeControlByte ==
    /\ Listens
    /\ pipe > 0
    /\ pipe' = pipe - 1
    /\ IF ctl_stub_state # "STOPPED"
         THEN /\ ctl_stub_state' = "STOPPED"
              /\ dbg' = IF dbg = "running" THEN "stopped" ELSE dbg
              /\ ctrlC' = FALSE
         ELSE UNCHANGED <<ctl_stub_state, dbg, ctrlC>>
    /\ UNCHANGED <<post_ex_fn, lists, baddr, sock_fd, work>>
    /\ UNCHANGED ListenerOnly

SelectsSocket == Listens /\ pipe = 0 /\ sock_fd

\* accept, when there is no connection yet, and the answer to the '?' a debugger
\* starts with, which is a stop packet whatever the CPU is doing.
Accept ==
    /\ Listens /\ pipe = 0
    /\ ~sock_fd /\ dbg = "off"
    /\ sock_fd' = TRUE
    /\ dbg' = "stopped"
    /\ UNCHANGED <<post_ex_fn, lists, baddr, ctl_stub_state,
                   pipe, work, ctrlC>>
    /\ UNCHANGED ListenerOnly

ReadSocketError ==
    /\ SelectsSocket /\ dbg = "off"
    /\ sock_fd' = FALSE
    /\ UNCHANGED <<post_ex_fn, lists, baddr, ctl_stub_state,
                   pipe, work, dbg, ctrlC>>
    /\ UNCHANGED ListenerOnly

\* As below, but the hook that is there stays.
ReadBreakBehind ==
    /\ SelectsSocket /\ ctrlC
    /\ ctrlC' = FALSE
    /\ post_ex_fn' = IF ctl_stub_state # "STOPPED" /\ post_ex_fn = NoHook THEN Break
                                                                       ELSE post_ex_fn
    /\ UNCHANGED <<lists, baddr, ctl_stub_state, pipe, sock_fd, work, dbg>>
    /\ UNCHANGED ListenerOnly

ReadBreak ==
    /\ SelectsSocket /\ ctrlC
    /\ ctrlC' = FALSE
    /\ post_ex_fn' = IF ctl_stub_state # "STOPPED" THEN Break ELSE post_ex_fn
    /\ UNCHANGED <<lists, baddr, ctl_stub_state, pipe,
                   sock_fd, work, dbg>>
    /\ UNCHANGED ListenerOnly

\* Packets that leave the breakpoints alone.  Whether the stub was ready for a
\* packet decides the '+' or '-' only: it is processed either way.
Packet == SelectsSocket /\ dbg = "stopped"
ProcessPacket(s) ==
    /\ Goes("listener", s)
    /\ UNCHANGED <<post_ex_fn, lists, baddr, ctl_stub_state, pipe, sock_fd, ctrlC>>
    /\ UNCHANGED <<arm_stall, NumInstrs>>

Continue ==     \* 'c'
    /\ Packet
    /\ ProcessPacket(<<<<"start_run">>, <<"unstall">>>>)
    /\ dbg' = "running"
    /\ UNCHANGED cpu

\* read_cpu_reg, for the thread 'H' selected, which need not be the one that runs.
SelectedPc == Addrs

\* 's'
SingleStep ==
    /\ Packet
    /\ \E a \in SelectedPc :
         ProcessPacket(<<<<"install_step", a>>, <<"start_run">>, <<"unstall">>>>)
    /\ dbg' = "running"
    /\ UNCHANGED cpu

\* 'm' or 'M' where nothing is mapped: the access reports a bus error.
BadAccess ==
    /\ Packet
    /\ ProcessPacket(break_bus_error("listener"))
    /\ UNCHANGED <<cpu, dbg>>

\* As below, with the stub left stopped as the next debugger expects it.
DetachStops ==
    /\ Packet
    /\ Goes("listener", <<>>)
    /\ ctl_stub_state' = "STOPPED"
    /\ dbg' = "off"
    /\ UNCHANGED <<post_ex_fn, lists, baddr, pipe, sock_fd, ctrlC, arm_stall, NumInstrs, cpu>>

\* 'D' answers OK and leaves everything as it is; the debugger then leaves.
Detach ==
    /\ Packet
    /\ ProcessPacket(<<>>)
    /\ dbg' = "off"
    /\ UNCHANGED cpu

\* 'Z': a descriptor from the free pool, to the head of the list.
InsertBreakpoint(l, a) ==
    /\ Packet
    /\ lists["free"] # <<>>
    /\ LET e == Head(lists["free"])
       IN  /\ lists' = [lists EXCEPT !["free"] = Tail(@), ![l] = <<e>> \o @]
           /\ baddr' = [baddr EXCEPT ![e] = a]
    /\ UNCHANGED <<post_ex_fn, ctl_stub_state, pipe, sock_fd,
                   work, dbg, ctrlC>>
    /\ UNCHANGED ListenerOnly

\* 'z': the first entry for the address, to the head of the free pool.
RemoveBreakpoint(l, a) ==
    /\ Packet
    /\ \E i \in DOMAIN lists[l] :
         /\ baddr[lists[l][i]] = a
         /\ \A j \in 1 .. (i - 1) : baddr[lists[l][j]] # a
         /\ lists' = [lists EXCEPT ![l] = RemoveAt(@, i),
                                   !["free"] = <<lists[l][i]>> \o @]
    /\ UNCHANGED <<post_ex_fn, baddr, ctl_stub_state, pipe,
                   sock_fd, work, dbg, ctrlC>>
    /\ UNCHANGED ListenerOnly

-----------------------------------------------------------------------------
(* The debugger. *)

Debugger == <<arm_stall, NumInstrs, post_ex_fn, lists, baddr,
              ctl_stub_state, pipe, sock_fd, work, cpu>>
PressCtrlC == dbg = "running" /\ sock_fd /\ ~ctrlC
              /\ ctrlC' = TRUE /\ UNCHANGED <<dbg, Debugger>>
Disconnect == dbg # "off" /\ dbg' = "off" /\ ctrlC' = FALSE /\ UNCHANGED Debugger

-----------------------------------------------------------------------------
\* createStub_gdb and activateStub_gdb: the CPU starts stalled.
Init ==
    /\ arm_stall = TRUE /\ NumInstrs = FALSE
    /\ post_ex_fn = NoHook
    /\ lists = [l \in Lists \cup {"free"} |-> IF l = "free" THEN SetToSeq(Entries) ELSE <<>>]
    /\ baddr = [e \in Entries |-> CHOOSE a \in Addrs : TRUE]
    /\ ctl_stub_state = "STOPPED"
    /\ pipe = 0 /\ sock_fd = FALSE
    /\ work = [t \in Threads |-> <<>>]
    /\ cpu \in [pc : {"sweep"}, addr : Addrs, left : {0}, active : {TRUE}]
    /\ dbg = "off" /\ ctrlC = FALSE

CpuThread == \/ Statement("cpu")
             \/ threads_Execute \/ wait_while_stall \/ arm11_Run \/ Prefetch \/ Fetched
             \/ CallHook \/ Access \/ Retire

\* What the listener does with what is there, and the packets it may be sent.
ListenerThread == Statement("listener") \/ TakeControlByte \/ ReadSocketError \/ ReadBreak
Packets == \/ Accept \/ Continue \/ SingleStep \/ BadAccess \/ Detach
           \/ \E l \in BreakLists, a \in BreakAddrs : InsertBreakpoint(l, a) \/ RemoveBreakpoint(l, a)

Next == CpuThread \/ Wake \/ ListenerThread \/ Packets \/ PressCtrlC \/ Disconnect

\* Both threads are scheduled by the host; nobody has to send a packet, and no
\* guest thread has to become active.
Spec == Init /\ [][Next]_vars /\ WF_vars(CpuThread) /\ WF_vars(ListenerThread)

-----------------------------------------------------------------------------
(* Properties. *)

\* The CPU's thread is never asleep in a stall nobody will speak of: the stub
\* counts as stopped, or the stop is on its way to the listener, or the listener
\* is about to lift the stall (gdbstubchelper.c, wait_while_stall).
StallIsKnown ==
    arm_stall => \/ ctl_stub_state = "STOPPED"
                 \/ pipe > 0
                 \/ <<"indicate">> \in Range(work["cpu"]) \cup Range(work["listener"])
                 \/ <<"unstall">> \in Range(work["listener"])

\* The stub is a debugger's session: one report for the stops of a run.
Session == INSTANCE DebugSession
             WITH session  <- IF ctl_stub_state = "STOPPED" THEN "stopped" ELSE "running",
                  requests <- pipe > 0
ImplementsDebugSession == Session!SSpec

\* A break the debugger sends ends the run, as long as the debugger stays
\* (gdbstub.c, READ_BREAK) and the guest does not come to wait for ever: the hook
\* that answers is called by an instruction (threads.c, threads_Execute).
BreakIsAnswered ==
    []<>cpu.active => (ctrlC ~> (ctl_stub_state = "STOPPED" \/ dbg = "off"))
=============================================================================
