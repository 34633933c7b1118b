--------------------------- MODULE Kernel_proofs ---------------------------
(***************************************************************************)
(* Proofs about the kernel core, for every number of threads and handles   *)
(* and every program of the guest that keeps to what GuestCall assumes.    *)
(***************************************************************************)
EXTENDS Kernel, FiniteSetTheorems, SequenceTheorems, TLAPS

-----------------------------------------------------------------------------
(* The handle table: what changes an entry, and what adds one.             *)

(* Overwriting an entry's lock or count keeps the table well formed, and   *)
(* every other entry as it was.                                            *)
LEMMA UpdateEntry ==
  ASSUME HandlesTypeOK, NEW o \in 1 .. Len(handles), NEW info \in HandleInfo,
         info.type = handles[o].type, info.root = handles[o].root,
         handles' = [handles EXCEPT ![o] = info]
  PROVE  /\ HandlesTypeOK'
         /\ Len(handles') = Len(handles)
         /\ handles'[o] = info
         /\ \A h \in 1 .. Len(handles) : h # o => handles'[h] = handles[h]
<1>1. /\ handles' \in Seq(HandleInfo) /\ Len(handles') = Len(handles)
  BY ExceptSeq DEF HandlesTypeOK
<1>2. /\ handles'[o] = info
      /\ \A h \in 1 .. Len(handles) : h # o => handles'[h] = handles[h]
  BY DEF HandlesTypeOK
<1>3. QED
  BY <1>1, <1>2 DEF HandlesTypeOK

(* Adding an entry that refers to itself or to an object in the table.     *)
LEMMA AddEntry ==
  ASSUME HandlesTypeOK, NEW info \in HandleInfo, handle_New(info),
         \/ info.type # "redir" /\ info.root = NextHandle
         \/ info.type = "redir" /\ info.root \in 1 .. Len(handles)
              /\ handles[info.root].type # "redir"
  PROVE  /\ HandlesTypeOK'
         /\ Len(handles') = Len(handles) + 1
         /\ Len(handles') \in Handle
         /\ handles'[NextHandle] = info
         /\ \A h \in 1 .. Len(handles) : handles'[h] = handles[h]
<1>1. /\ handles' \in Seq(HandleInfo) /\ Len(handles') = Len(handles) + 1
      /\ handles'[NextHandle] = info
      /\ \A h \in 1 .. Len(handles) : handles'[h] = handles[h]
  BY DEF HandlesTypeOK, handle_New, NextHandle
<1>2. QED
  BY <1>1, MaxHandlesAssumption DEF HandlesTypeOK, handle_New, NextHandle, Handle

(* A wait callback changes nothing of an entry but its lock and count; a   *)
(* mutex is locked afterwards, and a lock is never opened by it.           *)
LEMMA WaitCallback ==
  ASSUME NEW info \in HandleInfo
  PROVE  /\ AfterWait(info) \in HandleInfo
         /\ AfterWait(info).type = info.type
         /\ AfterWait(info).root = info.root
         /\ info.locked => AfterWait(info).locked
         /\ info.type = "mutex" => AfterWait(info).locked
<1>1. AfterWait(info) \in {info, [info EXCEPT !.locked = TRUE], [info EXCEPT !.users = @ + 1]}
  BY Zenon DEF AfterWait
<1>2. [info EXCEPT !.locked = TRUE] \in HandleInfo
  BY DEF HandleInfo
<1>3. [info EXCEPT !.users = @ + 1] \in HandleInfo
  <2>1. info.users + 1 \in Nat
    BY DEF HandleInfo
  <2>2. QED
    BY <2>1 DEF HandleInfo
<1>4. info.type = "mutex" => AfterWait(info) = [info EXCEPT !.locked = TRUE]
  BY DEF AfterWait
<1>5. QED
  BY <1>1, <1>2, <1>3, <1>4 DEF HandleInfo

(* What a handle_Get returns is NULL, or an entry that is no redirection.  *)
LEMMA GetEntry ==
  ASSUME HandlesTypeOK, NEW h, handle_Get(h) # NoHandle
  PROVE  /\ handle_Get(h) \in 1 .. Len(handles)
         /\ handle_Get(h) \in Handle
         /\ handles[handle_Get(h)] \in HandleInfo
         /\ handles[handle_Get(h)].root = handle_Get(h)
         /\ h \in 1 .. Len(handles)
         /\ handle_Get(h) = handles[h].root
  BY MaxHandlesAssumption DEF HandlesTypeOK, handle_Get, Handle

(***************************************************************************)
(* What any step may do to the table: entries are added, none changes its  *)
(* type or what it stands for, and a mutex is unlocked by nothing but a    *)
(* release.                                                                *)
(***************************************************************************)
Grown ==
  /\ HandlesTypeOK'
  /\ Len(handles) <= Len(handles')
  /\ \A h \in 1 .. Len(handles) : /\ handles'[h].type = handles[h].type
                                 /\ handles'[h].root = handles[h].root

MutexesKept == \A h \in 1 .. Len(handles) :
                 handles[h].type = "mutex" /\ handles[h].locked => handles'[h].locked

(* Writing a handleinfo's "locked" leaves it a handleinfo of the same      *)
(* kind.                                                                   *)
LEMMA LockField ==
  ASSUME NEW info \in HandleInfo, NEW b \in BOOLEAN
  PROVE  /\ [info EXCEPT !.locked = b] \in HandleInfo
         /\ [info EXCEPT !.locked = b].type = info.type
         /\ [info EXCEPT !.locked = b].root = info.root
         /\ [info EXCEPT !.locked = b].locked = b
  BY DEF HandleInfo

(* svcSignalEvent, svcClearEvent, svcReleaseMutex and the interrupt write  *)
(* one "locked": the table keeps its entries, and its mutexes too unless   *)
(* one is unlocked.                                                        *)
LEMMA SetLockedGrows ==
  ASSUME HandlesTypeOK, NEW o \in 1 .. Len(handles), NEW b \in BOOLEAN, SetLocked(o, b)
  PROVE  Grown /\ (handles[o].type # "mutex" \/ b => MutexesKept)
<1> DEFINE info == [handles[o] EXCEPT !.locked = b]
<1>1. handles[o] \in HandleInfo
  BY DEF HandlesTypeOK
<1>2. /\ info \in HandleInfo /\ info.locked = b
      /\ info.type = handles[o].type /\ info.root = handles[o].root
  BY <1>1, LockField
<1>3. handles' = [handles EXCEPT ![o] = info]
  BY DEF SetLocked
<1> HIDE DEF info
<1>4. /\ HandlesTypeOK'
      /\ Len(handles') = Len(handles)
      /\ handles'[o] = info
      /\ \A h \in 1 .. Len(handles) : h # o => handles'[h] = handles[h]
  BY <1>2, <1>3, UpdateEntry
<1>5. Len(handles) \in Nat
  BY DEF HandlesTypeOK
<1>6. QED
  BY <1>2, <1>4, <1>5 DEF Grown, MutexesKept

(* A wait callback unlocks no mutex, and takes the one it is called for.   *)
LEMMA WaitGrows ==
  ASSUME HandlesTypeOK, NEW o \in 1 .. Len(handles), fnWaitSynchronization(o)
  PROVE  /\ Grown /\ MutexesKept
         /\ handles[o].type = "mutex" => handles'[o].locked
<1>1. handles[o] \in HandleInfo
  BY DEF HandlesTypeOK
<1>2. /\ AfterWait(handles[o]) \in HandleInfo
      /\ AfterWait(handles[o]).type = handles[o].type
      /\ AfterWait(handles[o]).root = handles[o].root
      /\ handles[o].locked => AfterWait(handles[o]).locked
      /\ handles[o].type = "mutex" => AfterWait(handles[o]).locked
  BY <1>1, WaitCallback
<1> DEFINE info == AfterWait(handles[o])
<1>3. handles' = [handles EXCEPT ![o] = info]
  BY DEF fnWaitSynchronization
<1> HIDE DEF info
<1>4. /\ HandlesTypeOK'
      /\ Len(handles') = Len(handles)
      /\ handles'[o] = info
      /\ \A h \in 1 .. Len(handles) : h # o => handles'[h] = handles[h]
  BY <1>2, <1>3, UpdateEntry DEF info
<1>5. Len(handles) \in Nat
  BY DEF HandlesTypeOK
<1>6. QED
  BY <1>2, <1>4, <1>5 DEF Grown, MutexesKept, info

(* handle_New adds one entry, with a handle no entry had, and changes      *)
(* none.                                                                   *)
LEMMA AddGrows ==
  ASSUME HandlesTypeOK, NEW info \in HandleInfo, handle_New(info),
         \/ info.type # "redir" /\ info.root = NextHandle
         \/ info.type = "redir" /\ info.root \in 1 .. Len(handles)
              /\ handles[info.root].type # "redir"
  PROVE  /\ Grown /\ MutexesKept
         /\ NextHandle \in Handle /\ NextHandle \notin 1 .. Len(handles)
         /\ Len(handles') = NextHandle /\ handles'[NextHandle] = info
<1>1. Len(handles) \in Nat
  BY DEF HandlesTypeOK
<1>2. QED
  BY <1>1, AddEntry DEF Grown, MutexesKept, NextHandle, Handle

(* What handle_New fills in for a new object is its own root.              *)
LEMMA NewObject ==
  ASSUME HandlesTypeOK, Len(handles) < MaxHandles, NEW type \in ObjectType
  PROVE  /\ NewInfo(type) \in HandleInfo
         /\ NewInfo(type).type = type
         /\ NewInfo(type).type # "redir"
         /\ NewInfo(type).root = NextHandle
  BY MaxHandlesAssumption DEF HandlesTypeOK, NewInfo, HandleInfo, NextHandle, Handle, LockType, ObjectType

(* Unlocking objects changes nothing else of the table, and unlocks no     *)
(* mutex if they are events.                                               *)
LEMMA UnlockGrows ==
  ASSUME HandlesTypeOK, NEW objects,
         \A o \in objects : o \in 1 .. Len(handles) => handles[o].type = "event"
  PROVE  /\ Unlocked(objects) \in Seq(HandleInfo)
         /\ Len(Unlocked(objects)) = Len(handles)
         /\ \A h \in 1 .. Len(handles) :
              /\ Unlocked(objects)[h].type = handles[h].type
              /\ Unlocked(objects)[h].root = handles[h].root
              /\ handles[h].type = "mutex" => Unlocked(objects)[h] = handles[h]
<1> DEFINE n == Len(handles)
           e(h) == IF h \in objects THEN [handles[h] EXCEPT !.locked = FALSE] ELSE handles[h]
<1>1. n \in Nat /\ \A h \in 1 .. n : handles[h] \in HandleInfo
  BY DEF HandlesTypeOK
<1>2. \A h \in 1 .. n : /\ e(h) \in HandleInfo
                        /\ e(h).type = handles[h].type
                        /\ e(h).root = handles[h].root
                        /\ handles[h].type = "mutex" => e(h) = handles[h]
  BY <1>1, LockField
<1>3. Unlocked(objects) = [h \in 1 .. n |-> e(h)]
  BY DEF Unlocked
<1> HIDE DEF n, e
<1>4. Unlocked(objects) \in Seq(HandleInfo) /\ Len(Unlocked(objects)) = n
  BY <1>1, <1>2, <1>3, IsASeq
<1>5. QED
  BY <1>2, <1>3, <1>4 DEF n

(* gpu_SendInterruptToAll only unlocks the registered events.              *)
LEMMA InterruptGrows ==
  ASSUME HandlesTypeOK,
         \A e \in Interrupter : registered[e] # NoHandle => IsEvent(registered[e]),
         UNCHANGED handles \/ SendInterrupt
  PROVE  Grown /\ MutexesKept
<1> DEFINE objects == {handle_Get(registered[e]) : e \in Interrupter}
<1>1. Len(handles) \in Nat
  BY DEF HandlesTypeOK
<1>2. CASE UNCHANGED handles
  BY <1>1, <1>2 DEF Grown, MutexesKept, HandlesTypeOK
<1>3. CASE SendInterrupt
  <2>1. \A o \in objects : o \in 1 .. Len(handles) => handles[o].type = "event"
    <3>1. \A e \in Interrupter : handle_Get(registered[e]) # NoHandle =>
             registered[e] # NoHandle /\ handle_Get(registered[e]) = handles[registered[e]].root
      BY DEF handle_Get, NoHandle
    <3>2. QED
      BY <1>1, <3>1 DEF IsEvent, NoHandle
  <2>2. handles' = Unlocked(objects)
    BY <1>3 DEF SendInterrupt
  <2> HIDE DEF objects
  <2>3. /\ handles' \in Seq(HandleInfo) /\ Len(handles') = Len(handles)
        /\ \A h \in 1 .. Len(handles) :
             /\ handles'[h].type = handles[h].type
             /\ handles'[h].root = handles[h].root
             /\ handles[h].type = "mutex" => handles'[h] = handles[h]
    BY <2>1, <2>2, UnlockGrows
  <2>4. HandlesTypeOK'
    BY <1>1, <2>3 DEF HandlesTypeOK
  <2>5. QED
    BY <1>1, <2>3, <2>4 DEF Grown, MutexesKept
<1>4. QED
  BY <1>2, <1>3

(* GPURegisterInterruptRelayQueue adds its memory block and unlocks the    *)
(* event it is given.                                                      *)
LEMMA RegisterGrows ==
  ASSUME HandlesTypeOK, NEW h \in OfType("event"), GPURegisterInterruptRelayQueue(h)
  PROVE  Grown /\ MutexesKept
<1> DEFINE table == Unlocked({handle_Get(h)})
           info  == NewInfo("sharedmem")
<1>1. Len(handles) \in Nat /\ Len(handles) < MaxHandles
  BY DEF HandlesTypeOK, GPURegisterInterruptRelayQueue
<1>2. info \in HandleInfo /\ info.type # "redir" /\ info.root = Len(handles) + 1
  BY <1>1, NewObject DEF ObjectType, NextHandle
<1>3. /\ table \in Seq(HandleInfo) /\ Len(table) = Len(handles)
      /\ \A k \in 1 .. Len(handles) :
           /\ table[k].type = handles[k].type
           /\ table[k].root = handles[k].root
           /\ handles[k].type = "mutex" => table[k] = handles[k]
  <2>1. \A o \in {handle_Get(h)} : o \in 1 .. Len(handles) => handles[o].type = "event"
    BY DEF OfType, handle_Get
  <2>2. QED
    BY <2>1, UnlockGrows
<1>4. handles' = Append(table, info)
  BY DEF GPURegisterInterruptRelayQueue
<1> HIDE DEF table, info
<1>5. /\ handles' \in Seq(HandleInfo) /\ Len(handles') = Len(handles) + 1
      /\ handles'[Len(handles) + 1] = info
      /\ \A k \in 1 .. Len(handles) : handles'[k] = table[k]
  BY <1>2, <1>3, <1>4
<1>6. HandlesTypeOK'
  BY <1>1, <1>2, <1>3, <1>5, MaxHandlesAssumption, SMTT(30) DEF HandlesTypeOK
<1>7. QED
  BY <1>1, <1>3, <1>5, <1>6 DEF Grown, MutexesKept

-----------------------------------------------------------------------------
(* Every handle that PollHandle takes from a wait list is in the table,    *)
(* and its object has a wait callback.                                     *)
LEMMA PolledEntry ==
  ASSUME IInv, PollHandle
  PROVE  /\ handle_Get(threads[t].wait_list[i + 1]) \in 1 .. Len(handles)
         /\ handles[handle_Get(threads[t].wait_list[i + 1])].type # "redir"
<1>1. t \in Live /\ t \in Slot
  BY MaxThreadsAssumption DEF IInv, SweepInv, PollHandle, Live, Slot, KernelTypeOK, ThreadsTypeOK
<1>2. i + 1 \in 1 .. Len(threads[t].wait_list)
  <2>1. threads[t].wait_list \in Seq(Handle)
    BY <1>1 DEF IInv, KernelTypeOK, ThreadsTypeOK, Thread
  <2>2. Len(threads[t].wait_list) \in Nat /\ i \in Nat
    BY <2>1 DEF IInv, KernelTypeOK, ThreadsTypeOK
  <2>3. QED
    BY <2>2 DEF PollHandle
<1>3. Pollable(threads[t].wait_list[i + 1])
  BY <1>1, <1>2 DEF IInv, TableInv, PollHandle
<1>4. ASSUME NEW h, Pollable(h)
      PROVE  handle_Get(h) \in 1 .. Len(handles) /\ handles[handle_Get(h)].type # "redir"
  <2>1. h \in 1 .. Len(handles) /\ HasWaitCallback(handles[handles[h].root])
    BY <1>4 DEF Pollable
  <2>2. handles[h].root \in 1 .. Len(handles)
    BY <2>1 DEF IInv, KernelTypeOK, HandlesTypeOK
  <2>3. QED
    BY <2>1, <2>2 DEF handle_Get, HasWaitCallback
<1>5. QED
  BY <1>3, <1>4, Zenon

(* Every step but a thread's release of a mutex keeps the mutexes locked,  *)
(* and every step keeps what the table's entries are.                      *)
ReleasesHeldMutex ==
  /\ pc = "run"
  /\ \E h \in OfType("mutex") : handle_Get(h) \in told[CurrentHandle] /\ svcReleaseMutex(h)

(* A semaphore's count is lowered, its entry otherwise left alone.         *)
LEMMA SemaphoreGrows ==
  ASSUME IInv, NEW h, NEW n \in 1 .. 2, svcReleaseSemaphore(h, n)
  PROVE  Grown /\ MutexesKept
<1> USE DEF IInv, KernelTypeOK
<1> DEFINE o == handle_Get(h)
           info == [handles[o] EXCEPT !.users = LowerUsers(handles[o].users, n)]
<1>1. CASE o = NoHandle \/ handles[o].type # "semaphore"
  BY <1>1, InterruptGrows DEF svcReleaseSemaphore, TableInv
<1>2. CASE o # NoHandle /\ handles[o].type = "semaphore"
  <2>1. o \in 1 .. Len(handles) /\ handles[o] \in HandleInfo
    BY <1>2, GetEntry
  <2>2. handles[o].users \in Nat
    BY <2>1 DEF HandleInfo
  <2>3. LowerUsers(handles[o].users, n) \in Nat
    BY <2>2 DEF LowerUsers
  <2>4. /\ info \in HandleInfo /\ info.type = handles[o].type
        /\ info.root = handles[o].root /\ info.locked = handles[o].locked
    BY <2>1, <2>3 DEF HandleInfo
  <2>5. handles' = [handles EXCEPT ![o] = info]
    BY <1>2 DEF svcReleaseSemaphore
  <2> HIDE DEF info, o
  <2>6. /\ HandlesTypeOK'
        /\ Len(handles') = Len(handles)
        /\ handles'[o] = info
        /\ \A k \in 1 .. Len(handles) : k # o => handles'[k] = handles[k]
    BY <2>1, <2>4, <2>5, UpdateEntry
  <2>7. Len(handles) \in Nat
    BY DEF HandlesTypeOK
  <2>8. QED
    BY <2>4, <2>6, <2>7 DEF Grown, MutexesKept
<1>3. QED
  BY <1>1, <1>2

(* No step drops or retypes an entry, and the only one that unlocks a      *)
(* mutex is svcReleaseMutex by a thread that was told it holds it.         *)
LEMMA HandlesStep ==
  ASSUME IInv, [Next]_vars
  PROVE  Grown /\ (MutexesKept \/ ReleasesHeldMutex)
<1> USE DEF IInv, KernelTypeOK
<1>1. CASE UNCHANGED handles \/ SendInterrupt
  BY <1>1, InterruptGrows DEF TableInv
<1>2. CASE PollHandle
  BY <1>2, PolledEntry, WaitGrows DEF PollHandle
<1>3. ASSUME NEW p \in Priorities, svcCreateThread(p) PROVE Grown /\ MutexesKept
  <2>1. /\ handle_New(NewInfo("thread")) /\ Len(handles) < MaxHandles
    BY <1>3 DEF svcCreateThread, handle_New
  <2>2. QED
    BY <2>1, NewObject, AddGrows DEF ObjectType
<1>4. ASSUME NEW h \in Existing, svcDuplicateHandle(h) PROVE Grown /\ MutexesKept
  <2> DEFINE info == [NewInfo("redir") EXCEPT !.root = handle_Get(h)]
  <2>1. /\ handle_New(info) /\ Len(handles) < MaxHandles
    BY <1>4 DEF svcDuplicateHandle, handle_New
  <2>2. /\ handle_Get(h) \in 1 .. Len(handles) /\ handle_Get(h) \in Handle
        /\ handles[handle_Get(h)].type # "redir"
    BY MaxHandlesAssumption DEF HandlesTypeOK, handle_Get, Existing, Handle
  <2>3. /\ info \in HandleInfo /\ info.type = "redir" /\ info.root = handle_Get(h)
    BY <2>2 DEF NewInfo, HandleInfo, LockType
  <2> HIDE DEF info
  <2>4. QED
    BY <2>1, <2>2, <2>3, AddGrows
<1>5. ASSUME NEW b \in BOOLEAN, svcCreateMutex(b) PROVE Grown /\ MutexesKept
  <2> DEFINE info == [NewInfo("mutex") EXCEPT !.locked = b]
  <2>1. handle_New(info) /\ Len(handles) < MaxHandles
    BY <1>5 DEF svcCreateMutex, handle_New
  <2>2. /\ info \in HandleInfo /\ info.type # "redir" /\ info.root = NextHandle
    BY <2>1, NewObject, LockField DEF ObjectType
  <2> HIDE DEF info
  <2>3. QED
    BY <2>1, <2>2, AddGrows
<1>6. ASSUME NEW m \in 1 .. 2, NEW n \in 0 .. m, svcCreateSemaphore(n, m)
      PROVE  Grown /\ MutexesKept
  <2> DEFINE info == [NewInfo("semaphore") EXCEPT !.users = n, !.limit = m]
  <2>1. handle_New(info) /\ Len(handles) < MaxHandles
    BY <1>6 DEF svcCreateSemaphore, handle_New
  <2>2. NextHandle \in Handle
    BY <2>1, MaxHandlesAssumption DEF HandlesTypeOK, NextHandle, Handle
  <2>3. m \in Nat /\ n \in Nat
    OBVIOUS
  <2>4. /\ info \in HandleInfo /\ info.type # "redir" /\ info.root = NextHandle
    BY <2>2, <2>3 DEF NewInfo, HandleInfo, LockType, ObjectType
  <2> HIDE DEF info
  <2>5. QED
    BY <2>1, <2>4, AddGrows
<1>7. ASSUME NEW l \in AnyLockType, svcCreateEvent(l) PROVE Grown /\ MutexesKept
  <2> DEFINE new  == NewInfo("event")
             info == IF l \in LockType THEN [new EXCEPT !.locked = TRUE, !.locktype = l] ELSE new
  <2>1. handle_New(info) /\ Len(handles) < MaxHandles
    BY <1>7 DEF svcCreateEvent, handle_New
  <2>2. /\ new \in HandleInfo /\ new.type # "redir" /\ new.root = NextHandle
    BY <2>1, NewObject DEF ObjectType
  <2> HIDE DEF new
  <2>3. /\ info \in HandleInfo /\ info.type # "redir" /\ info.root = NextHandle
    BY <2>2 DEF HandleInfo
  <2> HIDE DEF info
  <2>4. QED
    BY <2>1, <2>3, AddGrows
<1>8. CASE svcCreateAddressArbiter
  <2>1. /\ handle_New(NewInfo("arbiter")) /\ Len(handles) < MaxHandles
    BY <1>8 DEF svcCreateAddressArbiter, handle_New
  <2>2. QED
    BY <2>1, NewObject, AddGrows DEF ObjectType
<1>9. ASSUME NEW h, handle_Get(h) # NoHandle, handles[handle_Get(h)].type = "mutex",
             svcReleaseMutex(h)
      PROVE  Grown
  BY <1>9, GetEntry, SetLockedGrows DEF svcReleaseMutex
<1>10. ASSUME NEW h, NEW n \in 1 .. 2, svcReleaseSemaphore(h, n) PROVE Grown /\ MutexesKept
  BY <1>10, SemaphoreGrows
<1>11. ASSUME NEW h \in OfType("event"), svcSignalEvent(h) PROVE Grown /\ MutexesKept
  <2>1. CASE handle_Get(h) = NoHandle
    BY <1>11, <2>1, InterruptGrows DEF svcSignalEvent, TableInv
  <2>2. CASE handle_Get(h) # NoHandle
    <3>1. handle_Get(h) = handles[h].root /\ handle_Get(h) \in 1 .. Len(handles)
      BY <2>2, GetEntry
    <3>2. handles[handle_Get(h)].type # "mutex"
      BY <3>1 DEF OfType
    <3>3. QED
      BY <1>11, <2>2, <3>1, <3>2, SetLockedGrows DEF svcSignalEvent
  <2>3. QED
    BY <2>1, <2>2
<1>12. ASSUME NEW h \in OfType("event"), svcClearEvent(h) PROVE Grown /\ MutexesKept
  <2>1. CASE handle_Get(h) = NoHandle
    BY <1>12, <2>1, InterruptGrows DEF svcClearEvent, TableInv
  <2>2. CASE handle_Get(h) # NoHandle
    BY <1>12, <2>2, GetEntry, SetLockedGrows DEF svcClearEvent
  <2>3. QED
    BY <2>1, <2>2
<1>13. ASSUME NEW h \in Existing, svcWaitSynchronization1(h) PROVE Grown /\ MutexesKept
  <2>1. CASE handle_Get(h) = NoHandle \/ ~HasWaitCallback(handles[handle_Get(h)])
    BY <1>13, <2>1, InterruptGrows DEF svcWaitSynchronization1, TableInv
  <2>2. CASE handle_Get(h) # NoHandle /\ HasWaitCallback(handles[handle_Get(h)])
    BY <1>13, <2>2, GetEntry, WaitGrows DEF svcWaitSynchronization1
  <2>3. QED
    BY <2>1, <2>2
<1>14. CASE WaitNHandle
  BY <1>14, GetEntry, WaitGrows DEF WaitNHandle
<1>15. CASE ReleasesHeldMutex
  <2>1. PICK h \in OfType("mutex") : svcReleaseMutex(h)
    BY <1>15 DEF ReleasesHeldMutex
  <2>2. CASE handle_Get(h) # NoHandle /\ handles[handle_Get(h)].type = "mutex"
    BY <1>9, <1>15, <2>1, <2>2
  <2>3. CASE handle_Get(h) = NoHandle \/ handles[handle_Get(h)].type # "mutex"
    BY <1>15, <2>1, <2>3, InterruptGrows DEF svcReleaseMutex, TableInv
  <2>4. QED
    BY <2>2, <2>3
<1>16. CASE Scheduler
  BY <1>1, <1>2, <1>16 DEF Scheduler, SkipSlot, RunSlot, StartPoll, LineSync, PollDone,
     threads_Switch, EndSweep, RemoveZombie, NextSweep
<1>17. CASE GuestCall
  BY <1>1, <1>3, <1>4, <1>5, <1>6, <1>7, <1>8, <1>10, <1>11, <1>12, <1>13, <1>15, <1>17,
     RegisterGrows
  DEF GuestCall, MakesCall, ReleasesHeldMutex, svcExitThread, svcSleepThread, svcSetThreadPriority,
      svcCloseHandle, RegisterInterruptEvents, TriggerCmdReqQueue, svcArbitrateFree,
      svcArbitrateAcquire, Store, svcWaitSynchronizationN
<1>18. CASE WaitNSteps
  BY <1>1, <1>14, <1>18 DEF WaitNSteps, WaitNBadHandle, WaitNDone
<1>19. CASE UNCHANGED vars
  BY <1>1, <1>19 DEF vars
<1>20. QED
  BY <1>16, <1>17, <1>18, <1>19 DEF Next

-----------------------------------------------------------------------------
(* The thread a turn belongs to is in the table, and its handle too.       *)
LEMMA TurnFacts ==
  ASSUME IInv, pc \in {"poll", "switch", "run", "waitn"}
  PROVE  /\ t \in Live /\ t \in Slot /\ t \in Nat
         /\ threads[t] \in Thread
         /\ threads[t].handle \in Handle
         /\ pc \in {"run", "waitn"} => current_thread = t
<1>1. t \in Live /\ t \in Slot /\ t \in Nat
  BY MaxThreadsAssumption DEF IInv, SweepInv, Live, Slot, KernelTypeOK, ThreadsTypeOK
<1>2. threads[t].handle \in 1 .. Len(handles)
  BY <1>1 DEF IInv, TableInv
<1>3. Len(handles) <= MaxHandles /\ Len(handles) \in Nat
  BY DEF IInv, KernelTypeOK, HandlesTypeOK
<1>4. QED
  BY <1>1, <1>2, <1>3, MaxHandlesAssumption
  DEF Handle, IInv, SweepInv, KernelTypeOK, ThreadsTypeOK

(* Slots in use are slots of the table, and hold threads.                  *)
LEMMA LiveSlots ==
  ASSUME IInv
  PROVE  /\ Live \subseteq Slot
         /\ num_threads \in Nat /\ num_threads <= MaxThreads /\ MaxThreads \in Nat
         /\ \A k \in Slot : threads[k] \in Thread
         /\ \A k \in Live : threads[k].handle \in Handle
<1>1. /\ Live \subseteq Slot /\ num_threads \in Nat /\ num_threads <= MaxThreads
      /\ MaxThreads \in Nat
  BY MaxThreadsAssumption DEF IInv, KernelTypeOK, ThreadsTypeOK, Live, Slot
<1>2. Len(handles) <= MaxHandles /\ Len(handles) \in Nat /\ MaxHandles \in Nat
  BY MaxHandlesAssumption DEF IInv, KernelTypeOK, HandlesTypeOK
<1>3. \A k \in Live : threads[k].handle \in Handle
  BY <1>2 DEF IInv, TableInv, Handle
<1>4. QED
  BY <1>1, <1>3 DEF IInv, KernelTypeOK, ThreadsTypeOK

(* The effects of the helpers on the thread table, on the CPU's registers  *)
(* and on the history, as far as their types go.                           *)
LEMMA WakeTypes ==
  ASSUME IInv, NEW k \in Live, NEW r1 \in Register1, Wake(k, r1)
  PROVE  /\ threads' \in [Slot -> Thread]
         /\ s' \in [of : Handle \cup {NoHandle}, r1 : Register1, servaddr : Buffer]
         /\ answer' \in [Handle -> Register1]
<1>1. k \in Slot /\ threads[k] \in Thread /\ threads \in [Slot -> Thread]
  BY LiveSlots DEF IInv, KernelTypeOK, ThreadsTypeOK
<1>2. /\ s \in [of : Handle \cup {NoHandle}, r1 : Register1, servaddr : Buffer]
      /\ answer \in [Handle -> Register1]
  BY DEF IInv, KernelTypeOK, ThreadsTypeOK
<1> DEFINE th == [threads[k] EXCEPT !.state = "RUNNING",
                                    !.regs.r1 = IF current_thread = k THEN @ ELSE r1]
<1>3. th \in Thread
  BY <1>1 DEF Thread, Registers
<1>4. threads' = [threads EXCEPT ![k] = th]
  BY <1>1 DEF Wake, Thread, Registers
<1> HIDE DEF th
<1>5. threads' \in [Slot -> Thread]
  BY <1>1, <1>3, <1>4
<1>6. s' \in [of : Handle \cup {NoHandle}, r1 : Register1, servaddr : Buffer]
  BY <1>2 DEF Wake
<1>7. QED
  BY <1>2, <1>5, <1>6 DEF Wake

(* What Wake does to the thread it wakes, and that it does nothing to the  *)
(* others.                                                                 *)
LEMMA WakeEffect ==
  ASSUME IInv, NEW k \in Live, NEW r1 \in Register1, Wake(k, r1)
  PROVE  /\ threads'[k].state = "RUNNING"
         /\ threads'[k].handle = threads[k].handle
         /\ threads'[k].wait_list = threads[k].wait_list
         /\ threads'[k].wait_all = threads[k].wait_all
         /\ threads'[k].servaddr = threads[k].servaddr
         /\ threads'[k].regs = IF current_thread = k THEN threads[k].regs
                               ELSE [threads[k].regs EXCEPT !.r1 = r1]
         /\ \A j \in Slot : j # k => threads'[j] = threads[j]
<1>1. k \in Slot /\ threads[k] \in Thread /\ threads \in [Slot -> Thread]
  BY LiveSlots DEF IInv, KernelTypeOK, ThreadsTypeOK
<1> DEFINE th == [threads[k] EXCEPT !.state = "RUNNING",
                                    !.regs.r1 = IF current_thread = k THEN @ ELSE r1]
<1>2. /\ th.state = "RUNNING" /\ th.handle = threads[k].handle
      /\ th.wait_list = threads[k].wait_list /\ th.wait_all = threads[k].wait_all
      /\ th.servaddr = threads[k].servaddr
      /\ th.regs = IF current_thread = k THEN threads[k].regs
                   ELSE [threads[k].regs EXCEPT !.r1 = r1]
  BY <1>1 DEF Thread, Registers
<1>3. threads' = [threads EXCEPT ![k] = th]
  BY <1>1 DEF Wake, Thread, Registers
<1> HIDE DEF th
<1>4. QED
  BY <1>1, <1>2, <1>3

(* The answer of a call goes to a register and to the caller's history.    *)
LEMMA SetR1Types ==
  ASSUME IInv, pc \in {"run", "waitn"}, NEW r1 \in Register1, SetR1(r1)
  PROVE  /\ s' \in [of : Handle \cup {NoHandle}, r1 : Register1, servaddr : Buffer]
         /\ answer' \in [Handle -> Register1]
<1>1. CurrentHandle \in Handle
  BY TurnFacts DEF CurrentHandle
<1>2. QED
  BY <1>1 DEF SetR1, IInv, KernelTypeOK, ThreadsTypeOK

(* What is taken for a thread stays a set of handles.                      *)
LEMMA AcquireTypes ==
  ASSUME IInv, NEW th \in Handle, NEW o \in Handle, Acquire(th, o)
  PROVE  held' \in [Handle -> SUBSET Handle]
<1>1. held \in [Handle -> SUBSET Handle]
  BY DEF IInv, KernelTypeOK, ThreadsTypeOK
<1>2. QED
  BY <1>1 DEF Acquire

(* What is reported to a thread stays a set of handles.                    *)
LEMMA ReportTypes ==
  ASSUME IInv, NEW th \in Handle, NEW objects, held' \in [Handle -> SUBSET Handle],
         Report(th, objects)
  PROVE  told' \in [Handle -> SUBSET Handle]
<1>1. told \in [Handle -> SUBSET Handle]
  BY DEF IInv, KernelTypeOK, ThreadsTypeOK
<1>2. QED
  BY <1>1 DEF Report

(* threads_SetCurrentThreadWaitList leaves a table of threads.             *)
LEMMA SuspendTypes ==
  ASSUME IInv, current_thread \in Slot, NEW list \in Seq(Handle), NEW all \in BOOLEAN,
         Suspend(list, all)
  PROVE  threads' \in [Slot -> Thread]
<1>1. threads \in [Slot -> Thread] /\ threads[current_thread] \in Thread
  BY DEF IInv, KernelTypeOK, ThreadsTypeOK
<1> DEFINE th == [threads[current_thread] EXCEPT !.state = "WAITING_SYNC",
                                                 !.wait_list = list, !.wait_all = all]
<1>2. th \in Thread
  BY <1>1 DEF Thread
<1>3. threads' = [threads EXCEPT ![current_thread] = th]
  BY <1>1 DEF Suspend, Thread
<1> HIDE DEF th
<1>4. QED
  BY <1>1, <1>2, <1>3

(* arm11_SaveContext leaves a table of threads.                            *)
LEMMA SaveContextTypes ==
  ASSUME IInv, NEW k \in Slot
  PROVE  SaveContext(k) \in [Slot -> Thread]
<1>1. threads \in [Slot -> Thread] /\ threads[k] \in Thread
  BY DEF IInv, KernelTypeOK, ThreadsTypeOK
<1>2. s \in [of : Handle \cup {NoHandle}, r1 : Register1, servaddr : Buffer]
  BY DEF IInv, KernelTypeOK, ThreadsTypeOK
<1> DEFINE th == [threads[k] EXCEPT !.regs = [of |-> s.of, r1 |-> s.r1]]
<1>3. th \in Thread
  BY <1>1, <1>2 DEF Thread, Registers
<1>4. SaveContext(k) = [threads EXCEPT ![k] = th]
  BY <1>1 DEF SaveContext, Thread
<1> HIDE DEF th
<1>5. QED
  BY <1>1, <1>3, <1>4

(* A save changes nothing but the registers in the slot.                   *)
LEMMA SaveContextEffect ==
  ASSUME IInv, NEW k \in Slot
  PROVE  /\ SaveContext(k)[k].regs = [of |-> s.of, r1 |-> s.r1]
         /\ \A j \in Slot : j # k => SaveContext(k)[j] = threads[j]
         /\ \A j \in Slot : /\ SaveContext(k)[j].state = threads[j].state
                           /\ SaveContext(k)[j].handle = threads[j].handle
                           /\ SaveContext(k)[j].wait_list = threads[j].wait_list
                           /\ SaveContext(k)[j].wait_all = threads[j].wait_all
                           /\ SaveContext(k)[j].servaddr = threads[j].servaddr
<1>1. threads \in [Slot -> Thread] /\ threads[k] \in Thread
  BY DEF IInv, KernelTypeOK, ThreadsTypeOK
<1> DEFINE th == [threads[k] EXCEPT !.regs = [of |-> s.of, r1 |-> s.r1]]
<1>2. /\ th.state = threads[k].state /\ th.handle = threads[k].handle
      /\ th.wait_list = threads[k].wait_list /\ th.wait_all = threads[k].wait_all
      /\ th.servaddr = threads[k].servaddr /\ th.regs = [of |-> s.of, r1 |-> s.r1]
  BY <1>1 DEF Thread
<1>3. SaveContext(k) = [threads EXCEPT ![k] = th]
  BY <1>1 DEF SaveContext
<1> HIDE DEF th
<1>4. QED
  BY <1>1, <1>2, <1>3

(* Writing a thread's state leaves a table of threads.                     *)
LEMMA StateTypes ==
  ASSUME IInv, NEW k \in Slot,
         NEW state \in {"RUNNING", "STOPPED", "WAITING_SYNC", "WAITING_ARB"}
  PROVE  [threads EXCEPT ![k].state = state] \in [Slot -> Thread]
<1>1. threads \in [Slot -> Thread] /\ threads[k] \in Thread
  BY DEF IInv, KernelTypeOK, ThreadsTypeOK
<1> DEFINE th == [threads[k] EXCEPT !.state = state]
<1>2. th \in Thread
  BY <1>1 DEF Thread
<1> HIDE DEF th
<1>3. [threads EXCEPT ![k].state = state] = [threads EXCEPT ![k] = th]
  BY <1>1 DEF th
<1>4. QED
  BY <1>1, <1>2, <1>3

-----------------------------------------------------------------------------
(* The types of the thread table and of the sweep, action by action.       *)
LEMMA SchedulerTypes ==
  ASSUME IInv, Scheduler
  PROVE  ThreadsTypeOK'
<1> USE DEF IInv, KernelTypeOK, threadVars, loopVars, history
<1>1. CASE SkipSlot
  BY <1>1, LiveSlots DEF SkipSlot, AtSlot, ThreadsTypeOK
<1>2. CASE RunSlot
  BY <1>2 DEF RunSlot, AtSlot, ThreadsTypeOK
<1>3. CASE StartPoll
  <2>1. t \in Live /\ threads[t] \in Thread
    BY <1>3, LiveSlots DEF StartPoll, AtSlot, Live, ThreadsTypeOK
  <2>2. InitialResult(t) \in BOOLEAN
    BY <2>1 DEF InitialResult, Thread
  <2>3. QED
    BY <1>3, <2>2 DEF StartPoll, ThreadsTypeOK
<1>4. CASE PollHandle
  <2> DEFINE o == handle_Get(threads[t].wait_list[i + 1])
             ready == ~IsWaiting(handles[o])
  <2>1. /\ t \in Live /\ threads[t].handle \in Handle /\ threads[t] \in Thread
    BY <1>4, TurnFacts DEF PollHandle
  <2>2. o \in Handle
    BY <1>4, PolledEntry, GetEntry DEF handle_Get, NoHandle
  <2>3. held' \in [Handle -> SUBSET Handle]
    BY <1>4, <2>1, <2>2, AcquireTypes DEF PollHandle
  <2>4. ret' \in BOOLEAN /\ i' \in Nat
    <3>1. i' \in Nat
      BY <1>4 DEF PollHandle, ThreadsTypeOK
    <3>2. ret' = (ret /\ ready) \/ ret' = (ret \/ ready)
      BY <1>4, Zenon DEF PollHandle
    <3>3. \A a, b : (a /\ b) \in BOOLEAN /\ (a \/ b) \in BOOLEAN
      BY Zenon
    <3>4. QED
      BY <3>1, <3>2, <3>3, Zenon
  <2>5. CASE UNCHANGED <<threadVars, told, answer>>
    BY <1>4, <2>3, <2>4, <2>5 DEF PollHandle, ThreadsTypeOK
  <2>6. CASE Wake(t, i) /\ Report(threads[t].handle, {o})
    <3>1. i \in Register1
      BY DEF ThreadsTypeOK, Register1
    <3>2. /\ threads' \in [Slot -> Thread]
          /\ s' \in [of : Handle \cup {NoHandle}, r1 : Register1, servaddr : Buffer]
          /\ answer' \in [Handle -> Register1]
      BY <2>1, <2>6, <3>1, WakeTypes
    <3>3. told' \in [Handle -> SUBSET Handle]
      BY <2>1, <2>3, <2>6, ReportTypes
    <3>4. QED
      BY <1>4, <2>3, <2>4, <2>6, <3>2, <3>3 DEF PollHandle, Wake, ThreadsTypeOK
  <2>7. QED
    BY <1>4, <2>5, <2>6 DEF PollHandle
<1>5. CASE PollDone
  <2>1. /\ t \in Live /\ threads[t].handle \in Handle /\ threads[t] \in Thread
    BY <1>5, TurnFacts DEF PollDone
  <2>2. t + 1 \in 0 .. MaxThreads
    BY <2>1, LiveSlots DEF ThreadsTypeOK, Live
  <2>3. CASE UNCHANGED <<threadVars, told, answer>>
    BY <1>5, <2>2, <2>3 DEF PollDone, ThreadsTypeOK
  <2>4. CASE ret /\ threads[t].wait_all
    <3>1. Len(threads[t].wait_list) \in Register1
      BY <2>1 DEF Thread, Register1
    <3>2. Wake(t, Len(threads[t].wait_list))
      BY <1>5, <2>4 DEF PollDone
    <3>3. /\ threads' \in [Slot -> Thread]
          /\ s' \in [of : Handle \cup {NoHandle}, r1 : Register1, servaddr : Buffer]
          /\ answer' \in [Handle -> Register1]
      BY <2>1, <3>1, <3>2, WakeTypes
    <3>4. held' = held /\ held' \in [Handle -> SUBSET Handle]
      BY <1>5 DEF PollDone, ThreadsTypeOK
    <3>5. told' \in [Handle -> SUBSET Handle]
      BY <1>5, <2>1, <2>4, <3>4, ReportTypes DEF PollDone
    <3>6. QED
      BY <1>5, <2>2, <3>2, <3>3, <3>4, <3>5 DEF PollDone, Wake, ThreadsTypeOK
  <2>5. QED
    BY <1>5, <2>3, <2>4 DEF PollDone
<1>6. CASE threads_Switch
  <2>1. t \in Slot /\ threads[t] \in Thread
    BY <1>6, TurnFacts DEF threads_Switch
  <2>2. current_thread = NoThread \/ current_thread \in Slot
    BY DEF ThreadsTypeOK
  <2>3. threads' \in [Slot -> Thread]
    BY <1>6, <2>2, SaveContextTypes DEF threads_Switch, ThreadsTypeOK
  <2>4. s' \in [of : Handle \cup {NoHandle}, r1 : Register1, servaddr : Buffer]
    BY <1>6, <2>1 DEF threads_Switch, LoadContext, Thread, Registers, ThreadsTypeOK
  <2>5. QED
    BY <1>6, <2>1, <2>3, <2>4 DEF threads_Switch, ThreadsTypeOK
<1>7. CASE EndSweep
  <2>1. threads' \in [Slot -> Thread]
    BY <1>7, SaveContextTypes DEF EndSweep, ThreadsTypeOK
  <2>2. QED
    BY <1>7, <2>1 DEF EndSweep, ThreadsTypeOK
<1>8. CASE RemoveZombie
  <2>1. Stopped # {}
    BY <1>8 DEF RemoveZombie
  <2>2. num_threads' \in 0 .. MaxThreads
    BY <1>8, <2>1, LiveSlots DEF RemoveZombie, Stopped, Live
  <2>3. \A k \in Slot : SlotAfter(k) \in Thread
    <3>1. UnusedThread(Junk) \in Thread
      BY MaxThreadsAssumption
      DEF UnusedThread, Thread, Registers, Junk, Buffer, NoHandle, Register1, Other
    <3>2. QED
      BY <3>1, LiveSlots DEF SlotAfter
  <2>4. threads' \in [Slot -> Thread]
    BY <1>8, <2>3, LiveSlots DEF RemoveZombie
  <2>5. QED
    BY <1>8, <2>2, <2>4 DEF RemoveZombie, ThreadsTypeOK, sweepVars
<1>9. CASE NextSweep
  BY <1>9, MaxThreadsAssumption DEF NextSweep, ThreadsTypeOK
<1>10. QED
  BY <1>1, <1>2, <1>3, <1>4, <1>5, <1>6, <1>7, <1>8, <1>9 DEF Scheduler

(* The part of the types that a returning call can touch whatever it does. *)
TurnTypesOK ==
  /\ s \in [of : Handle \cup {NoHandle}, r1 : Register1, servaddr : Buffer]
  /\ answer \in [Handle -> Register1]
  /\ current_thread \in Slot \cup {NoThread}
  /\ pc \in {"slot", "poll", "switch", "run", "waitn", "reap"}
  /\ t \in 0 .. MaxThreads
  /\ nothreadused \in BOOLEAN
  /\ i \in Nat /\ ret \in BOOLEAN

(* A call's return keeps the types of all a call cannot touch but through  *)
(* it.                                                                     *)
LEMMA ReturnTypes ==
  ASSUME IInv, pc \in {"run", "waitn"}, NEW r1 \in Register1, SetR1(r1),
         UNCHANGED <<current_thread, nothreadused, loopVars>>, KeepTurn \/ EndTurn
  PROVE  TurnTypesOK'
<1>1. t + 1 \in 0 .. MaxThreads
  BY TurnFacts, LiveSlots DEF Live
<1>2. /\ s' \in [of : Handle \cup {NoHandle}, r1 : Register1, servaddr : Buffer]
      /\ answer' \in [Handle -> Register1]
  BY SetR1Types
<1>3. QED
  BY <1>1, <1>2
  DEF TurnTypesOK, KeepTurn, EndTurn, loopVars, IInv, KernelTypeOK, ThreadsTypeOK

(* A call that leaves the table of threads and the history alone.          *)
LEMMA PlainCallTypes ==
  ASSUME IInv, pc = "run", Returns, KeepTurn \/ EndTurn,
         threads' \in [Slot -> Thread], num_threads' \in 0 .. MaxThreads,
         registered' \in [Interrupter -> Handle \cup {NoHandle}],
         held' \in [Handle -> SUBSET Handle], told' \in [Handle -> SUBSET Handle]
  PROVE  ThreadsTypeOK'
<1>1. Other \in Register1
  BY DEF Register1
<1>2. TurnTypesOK'
  BY <1>1, ReturnTypes DEF Returns
<1>3. QED
  BY <1>2 DEF TurnTypesOK, ThreadsTypeOK

(* Naming an event for an interrupt.                                       *)
RegistersEvent(h) == \E e \in Interrupter : registered' = [registered EXCEPT ![e] = h]

LEMMA RegisterTypes ==
  ASSUME IInv, NEW h \in OfType("event"), RegistersEvent(h)
  PROVE  /\ registered' \in [Interrupter -> Handle \cup {NoHandle}]
         /\ \A e \in Interrupter : registered'[e] # NoHandle => IsEvent(registered'[e])
<1>1. h \in Handle /\ IsEvent(h)
  BY MaxHandlesAssumption DEF OfType, IsEvent, Handle, HandlesTypeOK, IInv, KernelTypeOK
<1>2. /\ registered \in [Interrupter -> Handle \cup {NoHandle}]
      /\ \A e \in Interrupter : registered[e] # NoHandle => IsEvent(registered[e])
  BY DEF IInv, KernelTypeOK, ThreadsTypeOK, TableInv
<1>3. PICK e \in Interrupter : registered' = [registered EXCEPT ![e] = h]
  BY DEF RegistersEvent
<1>4. /\ registered' \in [Interrupter -> Handle \cup {NoHandle}]
      /\ registered'[e] = h
      /\ \A d \in Interrupter : d # e => registered'[d] = registered[d]
  BY <1>1, <1>2, <1>3
<1>5. QED
  BY <1>1, <1>2, <1>4

(* threads_FindIdByHandle returns a slot in use that has the handle.       *)
LEMMA FindThread ==
  ASSUME IInv, NEW h, threads_FindIdByHandle(h) # NoThread
  PROVE  /\ threads_FindIdByHandle(h) \in Live
         /\ threads_FindIdByHandle(h) \in Slot
         /\ threads[threads_FindIdByHandle(h)].handle = h
<1> DEFINE found == {k \in Live : threads[k].handle = h}
<1>1. found # {}
  BY DEF threads_FindIdByHandle
<1>2. PICK k \in found : TRUE
  BY <1>1
<1>3. \A a, b \in found : a = b
  BY DEF IInv, TableInv
<1>4. k \in Int
  BY <1>2, LiveSlots DEF Live
<1>5. \A j \in found : k <= j
  BY <1>3, <1>4, <1>2
<1>6. (CHOOSE c \in found : \A j \in found : c <= j) \in found
  BY <1>2, <1>5
<1>7. QED
  BY <1>1, <1>6, LiveSlots DEF threads_FindIdByHandle

(* svcCreateThread fills the first unused slot with a thread.              *)
LEMMA CreateThreadTypes ==
  ASSUME IInv, pc = "run", NEW p \in Priorities, svcCreateThread(p)
  PROVE  ThreadsTypeOK'
<1> USE DEF IInv, KernelTypeOK
<1>1. NextHandle \in Handle
  BY MaxHandlesAssumption DEF svcCreateThread, handle_New, HandlesTypeOK, NextHandle, Handle
<1>2. num_threads \in Slot /\ num_threads + 1 \in 0 .. MaxThreads
  BY LiveSlots DEF svcCreateThread, RoomForThread, Slot
<1>3. threads \in [Slot -> Thread] /\ threads[num_threads] \in Thread
  BY <1>2 DEF ThreadsTypeOK
<1> DEFINE th == [threads[num_threads] EXCEPT !.handle = NextHandle, !.priority = p,
                    !.state = "RUNNING", !.wait_list = <<>>, !.regs.of = NextHandle]
<1>4. th \in Thread
  <2>1. p \in Int /\ <<>> \in Seq(Handle)
    BY PrioritiesAssumption
  <2>2. QED
    BY <1>1, <1>3, <2>1 DEF Thread, Registers
<1>5. threads' = [threads EXCEPT ![num_threads] = th]
  BY <1>2, <1>3 DEF svcCreateThread, Thread, Registers
<1>6. threads' \in [Slot -> Thread]
  <2> HIDE DEF th
  <2>1. QED
    BY <1>2, <1>3, <1>4, <1>5
<1>7. t + 1 \in 0 .. MaxThreads
  BY TurnFacts, LiveSlots DEF Live
<1>8. /\ threads[num_threads].regs.r1 \in Register1
      /\ Other \in Register1
  BY <1>3 DEF Thread, Registers, Register1
<1>9. /\ s' \in [of : Handle \cup {NoHandle}, r1 : Register1, servaddr : Buffer]
      /\ answer' \in [Handle -> Register1]
  BY <1>1, <1>8 DEF svcCreateThread, ThreadsTypeOK
<1>10. QED
  BY <1>2, <1>6, <1>7, <1>9 DEF svcCreateThread, EndTurn, ThreadsTypeOK, loopVars

(* Resuming arbitrated threads leaves a table of threads.                  *)
LEMMA ArbitrateFreeTypes ==
  ASSUME IInv, NEW h, NEW addr, NEW n, svcArbitrateFree(h, addr, n)
  PROVE  threads' \in [Slot -> Thread]
<1>1. threads \in [Slot -> Thread]
  BY DEF IInv, KernelTypeOK, ThreadsTypeOK
<1>2. ASSUME NEW k \in Slot
      PROVE  [threads[k] EXCEPT !.state = "RUNNING", !.arb_handle = NoHandle,
                                !.arb_addr = 0] \in Thread
  <2>1. threads[k] \in Thread
    BY <1>1
  <2>2. 0 \in Int /\ NoHandle \in Handle \cup {NoHandle}
    OBVIOUS
  <2>3. QED
    BY <2>1, <2>2 DEF Thread
<1>3. QED
  BY <1>1, <1>2 DEF svcArbitrateFree

(* Suspending the caller on an address leaves a table of threads, and the  *)
(* decremented word among the values.                                      *)
LEMMA ArbitrateAcquireTypes ==
  ASSUME IInv, pc = "run", NEW h \in Existing, NEW addr \in Addresses, NEW d \in BOOLEAN,
         NEW v \in Values, svcArbitrateAcquire(h, addr, d, v)
  PROVE  threads' \in [Slot -> Thread] /\ mem' \in [Addresses -> Values]
<1>1. threads \in [Slot -> Thread] /\ current_thread \in Slot
  BY TurnFacts DEF IInv, KernelTypeOK, ThreadsTypeOK
<1>2. threads[current_thread] \in Thread
  BY <1>1
<1>3. h \in Handle /\ addr \in Int
  BY ValuesAssumption, MaxHandlesAssumption
  DEF Existing, Handle, IInv, KernelTypeOK, HandlesTypeOK
<1> DEFINE th == [threads[current_thread] EXCEPT !.state = "WAITING_ARB",
                    !.arb_addr = addr, !.arb_handle = h]
<1>4. th \in Thread
  BY <1>2, <1>3 DEF Thread
<1>5. threads' = [threads EXCEPT ![current_thread] = th] \/ threads' = threads
  BY <1>1, <1>2 DEF svcArbitrateAcquire, Thread
<1>6. threads' \in [Slot -> Thread]
  <2> HIDE DEF th
  <2>1. QED
    BY <1>1, <1>4, <1>5
<1>7. mem' \in [Addresses -> Values]
  <2>1. mem \in [Addresses -> Values]
    BY DEF IInv, KernelTypeOK
  <2>2. mem'[addr] \in Values
    BY DEF svcArbitrateAcquire
  <2>3. mem' = [mem EXCEPT ![addr] = mem[addr] - 1] \/ mem' = mem
    BY DEF svcArbitrateAcquire
  <2>4. QED
    BY <2>1, <2>2, <2>3
<1>8. QED
  BY <1>6, <1>7

(* Every system call keeps the threads' types.                             *)
LEMMA CallTypes ==
  ASSUME IInv, GuestCall
  PROVE  ThreadsTypeOK'
<1> USE DEF IInv, KernelTypeOK
<1>a. pc = "run" /\ current_thread \in Slot /\ CurrentHandle \in Handle
  BY TurnFacts DEF GuestCall, MakesCall, CurrentHandle
<1>b. /\ threads \in [Slot -> Thread] /\ num_threads \in 0 .. MaxThreads
      /\ registered \in [Interrupter -> Handle \cup {NoHandle}]
      /\ held \in [Handle -> SUBSET Handle] /\ told \in [Handle -> SUBSET Handle]
      /\ Other \in Register1
  BY DEF ThreadsTypeOK, Register1
<1>1. ASSUME NEW p \in Priorities, svcCreateThread(p) PROVE ThreadsTypeOK'
  BY <1>a, <1>1, CreateThreadTypes
<1>2. CASE svcExitThread
  BY <1>2, <1>a, <1>b, StateTypes, PlainCallTypes DEF svcExitThread
<1>3. CASE svcSleepThread
  BY <1>3, <1>a, <1>b, PlainCallTypes DEF svcSleepThread, ThreadsUnchanged
<1>4. ASSUME NEW h, NEW p \in Priorities, svcSetThreadPriority(h, p) PROVE ThreadsTypeOK'
  <2>a. PICK id : /\ id = threads_FindIdByHandle(h)
                  /\ threads' = IF id = NoThread THEN threads
                                ELSE [threads EXCEPT ![id].priority = p]
    BY <1>4, Zenon DEF svcSetThreadPriority
  <2>b. id # NoThread => id \in Slot
    BY <2>a, FindThread
  <2>1. \/ threads' = threads
        \/ /\ id \in Slot
           /\ threads' = [threads EXCEPT ![id] = [threads[id] EXCEPT !.priority = p]]
    BY <2>a, <2>b
  <2>2. ASSUME NEW k \in Slot PROVE [threads[k] EXCEPT !.priority = p] \in Thread
    <3>1. threads[k] \in Thread /\ p \in Int
      BY <1>b, PrioritiesAssumption
    <3>2. QED
      BY <3>1 DEF Thread
  <2>3. threads' \in [Slot -> Thread]
    BY <2>1, <2>2, <1>b
  <2>4. QED
    BY <1>4, <1>a, <1>b, <2>3, PlainCallTypes DEF svcSetThreadPriority
<1>5. ASSUME NEW h, svcCloseHandle(h) PROVE ThreadsTypeOK'
  <2>1. threads' \in [Slot -> Thread]
    <3>1. ASSUME NEW id \in Slot
          PROVE  [threads EXCEPT ![id].state = "STOPPED"] \in [Slot -> Thread]
      BY StateTypes
    <3>2. \/ threads' = threads
          \/ /\ threads_FindIdByHandle(h) \in Slot
             /\ threads' = [threads EXCEPT ![threads_FindIdByHandle(h)].state = "STOPPED"]
      BY <1>5, FindThread, Zenon DEF svcCloseHandle
    <3>3. QED
      BY <1>b, <3>1, <3>2, Zenon
  <2>2. KeepTurn \/ EndTurn
    BY <1>5 DEF svcCloseHandle
  <2>3. QED
    BY <1>5, <1>a, <1>b, <2>1, <2>2, PlainCallTypes DEF svcCloseHandle
<1>6. ASSUME NEW h, svcDuplicateHandle(h) PROVE ThreadsTypeOK'
  BY <1>6, <1>a, <1>b, PlainCallTypes DEF svcDuplicateHandle, ThreadsUnchanged
<1>7. ASSUME NEW b \in BOOLEAN, svcCreateMutex(b) PROVE ThreadsTypeOK'
  <2>1. NextHandle \in Handle
    BY <1>7, MaxHandlesAssumption
    DEF svcCreateMutex, handle_New, HandlesTypeOK, NextHandle, Handle
  <2>2. held' \in [Handle -> SUBSET Handle] /\ told' \in [Handle -> SUBSET Handle]
    BY <1>7, <1>a, <1>b, <2>1 DEF svcCreateMutex
  <2>3. QED
    BY <1>7, <1>a, <1>b, <2>2, PlainCallTypes DEF svcCreateMutex, ThreadsUnchanged
<1>8. ASSUME NEW h, svcReleaseMutex(h) PROVE ThreadsTypeOK'
  <2>1. held' \in [Handle -> SUBSET Handle] /\ told' \in [Handle -> SUBSET Handle]
    <3>1. CASE UNCHANGED <<held, told>>
      BY <1>b, <3>1
    <3>2. ASSUME NEW o, held' = [held EXCEPT ![CurrentHandle] = @ \ {o}],
                 told' = [told EXCEPT ![CurrentHandle] = @ \ {o}]
          PROVE  held' \in [Handle -> SUBSET Handle] /\ told' \in [Handle -> SUBSET Handle]
      BY <1>a, <1>b, <3>2
    <3>3. QED
      BY <1>8, <3>1, <3>2 DEF svcReleaseMutex
  <2>2. QED
    BY <1>8, <1>a, <1>b, <2>1, PlainCallTypes DEF svcReleaseMutex, ThreadsUnchanged
<1>9. ASSUME NEW n, NEW m, svcCreateSemaphore(n, m) PROVE ThreadsTypeOK'
  BY <1>9, <1>a, <1>b, PlainCallTypes DEF svcCreateSemaphore, ThreadsUnchanged
<1>10. ASSUME NEW h, NEW n, svcReleaseSemaphore(h, n) PROVE ThreadsTypeOK'
  <2>1. held' \in [Handle -> SUBSET Handle] /\ told' \in [Handle -> SUBSET Handle]
    BY <1>10, <1>a, <1>b DEF svcReleaseSemaphore
  <2>2. QED
    BY <1>10, <1>a, <1>b, <2>1, PlainCallTypes DEF svcReleaseSemaphore, ThreadsUnchanged
<1>11. ASSUME NEW l, svcCreateEvent(l) PROVE ThreadsTypeOK'
  BY <1>11, <1>a, <1>b, PlainCallTypes DEF svcCreateEvent, ThreadsUnchanged
<1>12. ASSUME NEW h, svcSignalEvent(h) PROVE ThreadsTypeOK'
  BY <1>12, <1>a, <1>b, PlainCallTypes DEF svcSignalEvent, ThreadsUnchanged
<1>13. ASSUME NEW h, svcClearEvent(h) PROVE ThreadsTypeOK'
  BY <1>13, <1>a, <1>b, PlainCallTypes DEF svcClearEvent, ThreadsUnchanged
<1>14. ASSUME NEW h \in OfType("event"),
              GPURegisterInterruptRelayQueue(h) \/ RegisterInterruptEvents(h)
       PROVE  ThreadsTypeOK'
  <2>1. RegistersEvent(h)
    BY <1>14 DEF GPURegisterInterruptRelayQueue, RegisterInterruptEvents, RegistersEvent, Interrupter
  <2>2. registered' \in [Interrupter -> Handle \cup {NoHandle}]
    BY <2>1, RegisterTypes
  <2>3. QED
    BY <1>14, <1>a, <1>b, <2>2, PlainCallTypes
    DEF GPURegisterInterruptRelayQueue, RegisterInterruptEvents, ThreadsUnchanged
<1>15. CASE svcCreateAddressArbiter
  BY <1>15, <1>a, <1>b, PlainCallTypes DEF svcCreateAddressArbiter, ThreadsUnchanged
<1>16. ASSUME NEW h, NEW a, NEW n, svcArbitrateFree(h, a, n) PROVE ThreadsTypeOK'
  <2>1. threads' \in [Slot -> Thread]
    BY <1>16, ArbitrateFreeTypes
  <2>2. QED
    BY <1>16, <1>a, <1>b, <2>1, PlainCallTypes DEF svcArbitrateFree
<1>17. ASSUME NEW h \in Existing, NEW a \in Addresses, NEW d \in BOOLEAN, NEW v \in Values,
              svcArbitrateAcquire(h, a, d, v)
       PROVE  ThreadsTypeOK'
  <2>1. threads' \in [Slot -> Thread]
    BY <1>17, <1>a, ArbitrateAcquireTypes
  <2>2. KeepTurn \/ EndTurn
    BY <1>17 DEF svcArbitrateAcquire
  <2>3. QED
    BY <1>17, <1>a, <1>b, <2>1, <2>2, PlainCallTypes DEF svcArbitrateAcquire
<1>18. ASSUME NEW a, NEW v, Store(a, v) PROVE ThreadsTypeOK'
  BY <1>18, <1>a, <1>b, PlainCallTypes DEF Store, ThreadsUnchanged
<1>19. ASSUME NEW h \in Existing, svcWaitSynchronization1(h) PROVE ThreadsTypeOK'
  <2>1. CASE UNCHANGED <<handles, threads, held, told>>
    BY <1>19, <1>a, <1>b, <2>1, PlainCallTypes DEF svcWaitSynchronization1
  <2>2. CASE handle_Get(h) # NoHandle /\ HasWaitCallback(handles[handle_Get(h)])
    <3>1. handle_Get(h) \in Handle /\ h \in Handle
      BY <2>2, GetEntry, MaxHandlesAssumption DEF Existing, Handle, HandlesTypeOK
    <3>2. held' \in [Handle -> SUBSET Handle]
      BY <1>19, <1>a, <2>2, <3>1, AcquireTypes DEF svcWaitSynchronization1
    <3>3. told' \in [Handle -> SUBSET Handle]
      BY <1>19, <1>a, <2>2, <3>1, <3>2, ReportTypes DEF svcWaitSynchronization1
    <3>4. <<h>> \in Seq(Handle)
      BY <3>1
    <3>5. threads' \in [Slot -> Thread]
      BY <1>19, <1>a, <1>b, <2>2, <3>4, SuspendTypes DEF svcWaitSynchronization1
    <3>6. QED
      BY <1>19, <1>a, <1>b, <3>2, <3>3, <3>5, PlainCallTypes DEF svcWaitSynchronization1
  <2>3. QED
    BY <1>19, <2>1, <2>2 DEF svcWaitSynchronization1
<1>20. ASSUME NEW l, NEW all, svcWaitSynchronizationN(l, all) PROVE ThreadsTypeOK'
  <2>1. /\ s' \in [of : Handle \cup {NoHandle}, r1 : Register1, servaddr : Buffer]
        /\ answer' \in [Handle -> Register1]
    BY <1>20, <1>a, <1>b, SetR1Types DEF svcWaitSynchronizationN
  <2>2. QED
    BY <1>20, <2>1 DEF svcWaitSynchronizationN, ThreadsTypeOK
<1>21. CASE TriggerCmdReqQueue
  BY <1>21, <1>a, <1>b, PlainCallTypes DEF TriggerCmdReqQueue, ThreadsUnchanged
<1>22. QED
  BY <1>1, <1>2, <1>3, <1>4, <1>5, <1>6, <1>7, <1>8, <1>9, <1>10, <1>11, <1>12, <1>13,
     <1>14, <1>15, <1>16, <1>17, <1>18, <1>19, <1>20, <1>21 DEF GuestCall

(* Every pass of wrapWaitSynchronizationN keeps the threads' types.        *)
LEMMA WaitNTypes ==
  ASSUME IInv, WaitNSteps
  PROVE  ThreadsTypeOK'
<1> USE DEF IInv, KernelTypeOK, loopVars
<1>a. pc = "waitn" /\ current_thread \in Slot /\ CurrentHandle \in Handle
  BY TurnFacts DEF WaitNSteps, WaitNBadHandle, WaitNHandle, WaitNDone, InWaitN, CurrentHandle
<1>b. i \in Register1 /\ Len(call.list) \in Register1
  BY DEF ThreadsTypeOK, Register1
<1>1. CASE WaitNBadHandle
  <2>1. TurnTypesOK'
    BY <1>1, <1>a, <1>b, ReturnTypes DEF WaitNBadHandle, ReturnFromWaitN
  <2>2. QED
    BY <1>1, <2>1 DEF WaitNBadHandle, TurnTypesOK, ThreadsTypeOK
<1>2. CASE WaitNHandle
  <2> DEFINE o == handle_Get(call.list[i + 1])
  <2>1. o \in Handle
    BY <1>2, GetEntry DEF WaitNHandle
  <2>2. held' \in [Handle -> SUBSET Handle]
    BY <1>2, <1>a, <2>1, AcquireTypes DEF WaitNHandle
  <2>3. CASE ReturnFromWaitN(i) /\ Report(CurrentHandle, {o})
    <3>1. TurnTypesOK'
      BY <1>2, <2>3, <1>a, <1>b, ReturnTypes DEF WaitNHandle, ReturnFromWaitN
    <3>2. told' \in [Handle -> SUBSET Handle]
      BY <1>a, <2>2, <2>3, ReportTypes
    <3>3. QED
      BY <1>2, <2>2, <3>1, <3>2 DEF WaitNHandle, TurnTypesOK, ThreadsTypeOK
  <2>4. CASE i' = i + 1 /\ ret' = FALSE /\ UNCHANGED <<s, pc, t, told, answer>>
    <3>1. UNCHANGED <<threads, num_threads, current_thread, nothreadused, registered>>
      BY <1>2 DEF WaitNHandle
    <3>2. i + 1 \in Nat /\ FALSE \in BOOLEAN
      BY DEF ThreadsTypeOK
    <3>3. QED
      BY <2>2, <2>4, <3>1, <3>2 DEF ThreadsTypeOK
  <2>5. QED
    BY <1>2, <2>3, <2>4 DEF WaitNHandle
<1>3. CASE WaitNDone
  <2>1. t + 1 \in 0 .. MaxThreads
    BY <1>a, TurnFacts, LiveSlots DEF Live
  <2>2. CASE SetR1(Len(call.list)) /\ threads' = threads
    <3>1. /\ s' \in [of : Handle \cup {NoHandle}, r1 : Register1, servaddr : Buffer]
          /\ answer' \in [Handle -> Register1]
      BY <1>a, <1>b, <2>2, SetR1Types
    <3>2. QED
      BY <1>3, <2>1, <2>2, <3>1 DEF WaitNDone, EndTurn, ThreadsTypeOK
  <2>3. CASE Suspend(call.list, call.all) /\ UNCHANGED <<s, answer>>
    <3>1. threads' \in [Slot -> Thread]
      BY <1>a, <2>3, SuspendTypes
    <3>2. QED
      BY <1>3, <2>1, <2>3, <3>1 DEF WaitNDone, EndTurn, ThreadsTypeOK
  <2>4. QED
    BY <1>3, <2>2, <2>3 DEF WaitNDone
<1>4. QED
  BY <1>1, <1>2, <1>3 DEF WaitNSteps

(* Every step keeps the types.                                             *)
LEMMA TypeStep ==
  ASSUME IInv, [Next]_vars
  PROVE  KernelTypeOK'
<1>1. HandlesTypeOK'
  BY HandlesStep DEF Grown
<1>2. ThreadsTypeOK'
  <2>1. CASE UNCHANGED vars
    BY <2>1 DEF vars, IInv, KernelTypeOK, ThreadsTypeOK
  <2>2. QED
    BY <2>1, SchedulerTypes, WaitNTypes, CallTypes DEF Next
<1>3. mem' \in [Addresses -> Values] /\ call' \in [list : Seq(Handle), all : BOOLEAN]
  <2>1. /\ mem \in [Addresses -> Values]
        /\ call \in [list : Seq(Handle), all : BOOLEAN]
    BY DEF IInv, KernelTypeOK
  <2>2. CASE GuestCall
    <3>1. pc = "run"
      BY <2>2 DEF GuestCall, MakesCall
    <3>2. ASSUME NEW h \in Existing, NEW a \in Addresses, NEW d \in BOOLEAN, NEW v \in Values,
                 svcArbitrateAcquire(h, a, d, v)
          PROVE  mem' \in [Addresses -> Values] /\ call' = call
      BY <3>1, <3>2, ArbitrateAcquireTypes DEF svcArbitrateAcquire, Returns
    <3>3. ASSUME NEW a \in Addresses, NEW v \in Values, Store(a, v)
          PROVE  mem' \in [Addresses -> Values] /\ call' = call
      BY <2>1, <3>3 DEF Store, Returns
    <3>4. ASSUME NEW l \in WaitLists, NEW all \in BOOLEAN, svcWaitSynchronizationN(l, all)
          PROVE  call' \in [list : Seq(Handle), all : BOOLEAN] /\ mem' = mem
      BY <3>4, WaitListsAssumption DEF svcWaitSynchronizationN
    <3>5. QED
      BY <2>1, <2>2, <3>2, <3>3, <3>4
      DEF GuestCall, Returns, svcCreateThread, svcExitThread, svcSleepThread,
          svcSetThreadPriority, svcCloseHandle, svcDuplicateHandle, svcCreateMutex,
          svcReleaseMutex, svcCreateSemaphore, svcReleaseSemaphore, svcCreateEvent,
          svcSignalEvent, svcClearEvent, GPURegisterInterruptRelayQueue,
          RegisterInterruptEvents, TriggerCmdReqQueue,
          svcCreateAddressArbiter, svcArbitrateFree, svcWaitSynchronization1
  <2>3. CASE WaitNSteps
    BY <2>1, <2>3 DEF WaitNSteps, WaitNBadHandle, WaitNHandle, WaitNDone
  <2>4. QED
    BY <2>1, <2>2, <2>3 DEF Next, vars
<1>4. QED
  BY <1>1, <1>2, <1>3 DEF KernelTypeOK

-----------------------------------------------------------------------------
(* A system call leaves the CPU's registers with the thread that makes it, *)
(* and only one that ends the turn changes that thread's state.            *)
TurnGoesOn == /\ UNCHANGED <<t, num_threads>>
              /\ pc' \in {"run", "waitn"}
              /\ threads'[t].state = threads[t].state

(* A call adds at most one thread, never changes which slot is current,    *)
(* and either ends the turn or leaves its thread running.                  *)
LEMMA CallTurn ==
  ASSUME IInv, GuestCall
  PROVE  /\ UNCHANGED current_thread
         /\ num_threads' \in {num_threads, num_threads + 1}
         /\ EndTurn \/ TurnGoesOn
<1> USE DEF Returns, ThreadsUnchanged, KeepTurn
<1>a. pc = "run" /\ t \in Live /\ t \in Slot /\ threads \in [Slot -> Thread]
  BY TurnFacts DEF GuestCall, MakesCall, IInv, KernelTypeOK, ThreadsTypeOK
<1>1. ASSUME NEW h, NEW p, svcSetThreadPriority(h, p)
      PROVE  TurnGoesOn /\ UNCHANGED <<current_thread, num_threads>>
  <2>1. PICK id : threads' = IF id = NoThread THEN threads
                             ELSE [threads EXCEPT ![id].priority = p]
    BY <1>1, Zenon DEF svcSetThreadPriority
  <2>2. threads[t] \in Thread
    BY <1>a
  <2>3. [threads[t] EXCEPT !.priority = p].state = threads[t].state
    BY <2>2 DEF Thread
  <2>4. threads'[t].state = threads[t].state
    BY <1>a, <2>1, <2>3
  <2>5. QED
    BY <1>1, <1>a, <2>4 DEF svcSetThreadPriority, TurnGoesOn
<1>2. ASSUME NEW h, NEW a, NEW n, svcArbitrateFree(h, a, n)
      PROVE  TurnGoesOn /\ UNCHANGED <<current_thread, num_threads>>
  <2>1. threads[t].state = "RUNNING"
    BY <1>a DEF IInv, SweepInv
  <2>2. t \notin Resumed(h, a, n)
    BY <2>1 DEF Resumed, Arbitrated
  <2>3. threads'[t] = threads[t]
    BY <1>2, <1>a, <2>2 DEF svcArbitrateFree
  <2>4. QED
    BY <1>2, <1>a, <2>3 DEF svcArbitrateFree, TurnGoesOn
<1>3. ASSUME NEW h, svcCloseHandle(h)
      PROVE  /\ UNCHANGED <<current_thread, num_threads>>
             /\ EndTurn \/ TurnGoesOn
  BY <1>3, <1>a DEF svcCloseHandle, TurnGoesOn
<1>4. ASSUME NEW h, NEW a, NEW d, NEW v, svcArbitrateAcquire(h, a, d, v)
      PROVE  /\ UNCHANGED <<current_thread, num_threads>>
             /\ EndTurn \/ TurnGoesOn
  BY <1>4, <1>a DEF svcArbitrateAcquire, TurnGoesOn
<1>5. ASSUME NEW p, svcCreateThread(p)
      PROVE  EndTurn /\ UNCHANGED current_thread /\ num_threads' = num_threads + 1
  BY <1>5 DEF svcCreateThread
<1>6. CASE UNCHANGED <<threads, num_threads, current_thread>> /\ KeepTurn
  BY <1>6, <1>a DEF TurnGoesOn
<1>7. QED
  BY <1>a, <1>1, <1>2, <1>3, <1>4, <1>5, <1>6
  DEF GuestCall, TurnGoesOn, svcExitThread, svcSleepThread,
      svcDuplicateHandle, svcCreateMutex, svcReleaseMutex, svcCreateSemaphore,
      svcReleaseSemaphore, svcCreateEvent, svcSignalEvent, svcClearEvent,
      GPURegisterInterruptRelayQueue, RegisterInterruptEvents, TriggerCmdReqQueue,
      svcCreateAddressArbiter, Store,
      svcWaitSynchronization1, svcWaitSynchronizationN

(* What the calls that only change states, priorities and arbitration do   *)
(* not change.                                                             *)
SameThread(k) == /\ threads'[k].handle = threads[k].handle
                 /\ threads'[k].regs = threads[k].regs
                 /\ threads'[k].servaddr = threads[k].servaddr

SameWait(k) == /\ threads'[k].wait_list = threads[k].wait_list
               /\ threads'[k].state = "WAITING_SYNC" => threads[k].state = "WAITING_SYNC"

(* Stopping a thread changes nothing else of it, and puts no thread in a   *)
(* wait.                                                                   *)
LEMMA StateFrame ==
  ASSUME IInv, NEW id \in Slot, threads' = [threads EXCEPT ![id].state = "STOPPED"]
  PROVE  \A k \in Slot : SameThread(k) /\ SameWait(k)
<1>1. threads \in [Slot -> Thread] /\ threads[id] \in Thread
  BY DEF IInv, KernelTypeOK, ThreadsTypeOK
<1> DEFINE th == [threads[id] EXCEPT !.state = "STOPPED"]
<1>2. /\ th.handle = threads[id].handle /\ th.regs = threads[id].regs
      /\ th.servaddr = threads[id].servaddr /\ th.wait_list = threads[id].wait_list
      /\ th.state = "STOPPED"
  BY <1>1 DEF Thread
<1>3. threads' = [threads EXCEPT ![id] = th]
  OBVIOUS
<1> HIDE DEF th
<1>4. QED
  BY <1>1, <1>2, <1>3 DEF SameThread, SameWait

(* svcSetThreadPriority changes nothing but a priority.                    *)
LEMMA PriorityFrame ==
  ASSUME IInv, NEW h, NEW p, svcSetThreadPriority(h, p)
  PROVE  \A k \in Slot : SameThread(k) /\ SameWait(k)
<1>1. threads \in [Slot -> Thread]
  BY DEF IInv, KernelTypeOK, ThreadsTypeOK
<1>2. PICK id : threads' = IF id = NoThread THEN threads
                           ELSE [threads EXCEPT ![id].priority = p]
  BY Zenon DEF svcSetThreadPriority
<1>3. CASE threads' = threads
  BY <1>3 DEF SameThread, SameWait
<1>4. CASE threads' = [threads EXCEPT ![id].priority = p]
  <2> DEFINE th(k) == [threads[k] EXCEPT !.priority = p]
  <2>1. ASSUME NEW k \in Slot
        PROVE  /\ th(k).handle = threads[k].handle /\ th(k).regs = threads[k].regs
               /\ th(k).servaddr = threads[k].servaddr
               /\ th(k).wait_list = threads[k].wait_list /\ th(k).state = threads[k].state
    <3>1. threads[k] \in Thread
      BY <1>1
    <3>2. QED
      BY <3>1 DEF Thread
  <2>2. threads' = [threads EXCEPT ![id] = th(id)]
    BY <1>4
  <2> HIDE DEF th
  <2>3. \A k \in Slot : threads'[k] \in {threads[k], th(k)}
    BY <1>1, <2>2
  <2>4. QED
    BY <2>1, <2>3 DEF SameThread, SameWait
<1>5. QED
  BY <1>2, <1>3, <1>4

(* svcArbitrateAddress type 0 only resumes, and never into a wait.         *)
LEMMA ArbitrateFreeFrame ==
  ASSUME IInv, NEW h, NEW a, NEW n, svcArbitrateFree(h, a, n)
  PROVE  \A k \in Slot : SameThread(k) /\ SameWait(k)
<1>1. threads \in [Slot -> Thread]
  BY DEF IInv, KernelTypeOK, ThreadsTypeOK
<1> DEFINE th(k) == [threads[k] EXCEPT !.state = "RUNNING", !.arb_handle = NoHandle,
                                       !.arb_addr = 0]
<1>2. ASSUME NEW k \in Slot
      PROVE  /\ th(k).handle = threads[k].handle /\ th(k).regs = threads[k].regs
             /\ th(k).servaddr = threads[k].servaddr
             /\ th(k).wait_list = threads[k].wait_list /\ th(k).state = "RUNNING"
  <2>1. threads[k] \in Thread
    BY <1>1
  <2>2. QED
    BY <2>1 DEF Thread
<1>3. \A k \in Slot : threads'[k] \in {threads[k], th(k)}
  BY <1>1 DEF svcArbitrateFree
<1> HIDE DEF th
<1>4. QED
  BY <1>2, <1>3 DEF SameThread, SameWait

(* svcArbitrateAddress types 1 to 4 suspend the caller on an address,      *)
(* which is no wait list.                                                  *)
LEMMA ArbitrateAcquireFrame ==
  ASSUME IInv, NEW h, NEW a, NEW d, NEW v, svcArbitrateAcquire(h, a, d, v), pc = "run"
  PROVE  \A k \in Slot : SameThread(k) /\ SameWait(k)
<1>1. threads \in [Slot -> Thread] /\ current_thread \in Slot
  BY TurnFacts DEF IInv, KernelTypeOK, ThreadsTypeOK
<1>2. threads[current_thread] \in Thread
  BY <1>1
<1> DEFINE th == [threads[current_thread] EXCEPT !.state = "WAITING_ARB",
                    !.arb_addr = a, !.arb_handle = h]
<1>3. /\ th.handle = threads[current_thread].handle
      /\ th.regs = threads[current_thread].regs
      /\ th.servaddr = threads[current_thread].servaddr
      /\ th.wait_list = threads[current_thread].wait_list /\ th.state = "WAITING_ARB"
  BY <1>2 DEF Thread
<1>4. threads' = [threads EXCEPT ![current_thread] = th] \/ threads' = threads
  BY <1>1, <1>2 DEF svcArbitrateAcquire, Thread
<1> HIDE DEF th
<1>5. QED
  BY <1>1, <1>3, <1>4 DEF SameThread, SameWait

(* A thread that starts to wait stays the thread it was.                   *)
LEMMA SuspendFrame ==
  ASSUME IInv, current_thread \in Slot, NEW list, NEW all, Suspend(list, all)
  PROVE  \A k \in Slot : SameThread(k)
<1>1. threads \in [Slot -> Thread] /\ threads[current_thread] \in Thread
  BY DEF IInv, KernelTypeOK, ThreadsTypeOK
<1> DEFINE th == [threads[current_thread] EXCEPT !.state = "WAITING_SYNC",
                                                 !.wait_list = list, !.wait_all = all]
<1>2. /\ th.handle = threads[current_thread].handle
      /\ th.regs = threads[current_thread].regs
      /\ th.servaddr = threads[current_thread].servaddr
  BY <1>1 DEF Thread
<1>3. threads' = [threads EXCEPT ![current_thread] = th]
  BY <1>1 DEF Suspend, Thread
<1> HIDE DEF th
<1>4. QED
  BY <1>1, <1>2, <1>3 DEF SameThread

(* svcCloseHandle at most stops a thread.                                  *)
LEMMA CloseFrame ==
  ASSUME IInv, NEW h, svcCloseHandle(h)
  PROVE  \A k \in Slot : SameThread(k) /\ SameWait(k)
<1>1. \/ threads' = threads
      \/ /\ threads_FindIdByHandle(h) \in Slot
         /\ threads' = [threads EXCEPT ![threads_FindIdByHandle(h)].state = "STOPPED"]
  BY FindThread, Zenon DEF svcCloseHandle
<1>2. CASE threads' = threads
  BY <1>2 DEF SameThread, SameWait
<1>3. QED
  BY <1>1, <1>2, StateFrame

(* Where the sweep is, action by action.                                   *)
LEMMA SweepStep ==
  ASSUME IInv, [Next]_vars
  PROVE  SweepInv'
<1> USE DEF threadVars, loopVars, history
<1>a. /\ num_threads \in Nat /\ num_threads' \in Nat /\ t \in Nat /\ t' \in Nat
  BY TypeStep DEF IInv, KernelTypeOK, ThreadsTypeOK
<1>1. CASE SkipSlot
  BY <1>1, <1>a DEF SkipSlot, AtSlot, IInv, SweepInv, Live
<1>2. CASE RunSlot
  BY <1>2, <1>a DEF RunSlot, AtSlot, IInv, SweepInv, Live
<1>3. CASE StartPoll
  BY <1>3, <1>a DEF StartPoll, InitialResult, AtSlot, IInv, SweepInv, Live
<1>4. CASE PollHandle
  <2>1. /\ pc = "poll" /\ pc' = "poll" /\ t' = t /\ t \in Live /\ t \in Slot
        /\ num_threads' = num_threads /\ current_thread' = current_thread
        /\ i \in Register1 /\ threads \in [Slot -> Thread]
    BY <1>4, TurnFacts
    DEF PollHandle, Wake, IInv, KernelTypeOK, ThreadsTypeOK, Register1
  <2>2. CASE Wake(t, i)
    BY <1>4, <2>1, <2>2, WakeEffect DEF IInv, SweepInv, Live
  <2>3. CASE ~ Wake(t, i)
    <3>1. UNCHANGED threads
      BY <1>4, <2>3 DEF PollHandle
    <3>2. ret' => ret
      BY <1>4, <2>3, Zenon DEF PollHandle
    <3>3. QED
      BY <1>4, <2>1, <3>1, <3>2 DEF IInv, SweepInv, Live
  <2>4. QED
    BY <2>2, <2>3
<1>5. CASE PollDone
  <2>1. /\ pc = "poll" /\ t \in Live /\ t \in Slot
        /\ num_threads' = num_threads /\ current_thread' = current_thread
        /\ threads[t] \in Thread
    BY <1>5, TurnFacts DEF PollDone, Wake
  <2>2. CASE ret /\ threads[t].wait_all
    <3>1. Len(threads[t].wait_list) \in Register1
      BY <2>1 DEF Thread, Register1
    <3>2. threads'[t].state = "RUNNING"
      BY <1>5, <2>1, <2>2, <3>1, WakeEffect DEF PollDone
    <3>3. QED
      BY <1>5, <1>a, <2>1, <2>2, <3>2 DEF PollDone, IInv, SweepInv, Live
  <2>3. CASE ~ (ret /\ threads[t].wait_all)
    BY <1>5, <1>a, <2>1, <2>3 DEF PollDone, IInv, SweepInv, Live
  <2>4. QED
    BY <2>2, <2>3
<1>6. CASE threads_Switch
  <2>1. t \in Live /\ t \in Slot /\ (current_thread = NoThread \/ current_thread \in Slot)
    BY <1>6, TurnFacts DEF threads_Switch, IInv, KernelTypeOK, ThreadsTypeOK
  <2>2. threads'[t].state = threads[t].state
    BY <1>6, <2>1, SaveContextEffect DEF threads_Switch
  <2>3. QED
    BY <1>6, <1>a, <2>1, <2>2 DEF threads_Switch, IInv, SweepInv, Live
<1>7. CASE EndSweep
  BY <1>7, <1>a DEF EndSweep, IInv, SweepInv, Live
<1>8. CASE RemoveZombie
  BY <1>8, <1>a DEF RemoveZombie, sweepVars, IInv, SweepInv, Live
<1>9. CASE NextSweep
  BY <1>9, <1>a DEF NextSweep, IInv, SweepInv, Live
<1>10. CASE Scheduler
  BY <1>1, <1>2, <1>3, <1>4, <1>5, <1>6, <1>7, <1>8, <1>9, <1>10 DEF Scheduler
<1>11. CASE GuestCall
  <2>1. /\ pc = "run" /\ t \in Live /\ threads[t].state = "RUNNING" /\ current_thread = t
    BY <1>11 DEF GuestCall, MakesCall, IInv, SweepInv
  <2>2. /\ current_thread' = t /\ t \in Live'
        /\ EndTurn \/ TurnGoesOn
    BY <1>a, <1>11, <2>1, CallTurn DEF Live
  <2>3. CASE EndTurn
    BY <2>2, <2>3 DEF EndTurn, SweepInv
  <2>4. CASE TurnGoesOn
    BY <2>1, <2>2, <2>4 DEF TurnGoesOn, SweepInv
  <2>5. QED
    BY <2>2, <2>3, <2>4
<1>12. CASE WaitNSteps
  <2>1. /\ pc = "waitn" /\ num_threads' = num_threads /\ current_thread' = current_thread
        /\ EndTurn \/ UNCHANGED <<pc, t, threads>>
    BY <1>12 DEF WaitNSteps, WaitNBadHandle, WaitNHandle, WaitNDone, InWaitN, ReturnFromWaitN
  <2>2. QED
    BY <1>a, <2>1 DEF EndTurn, IInv, SweepInv, Live
<1>13. CASE UNCHANGED vars
  BY <1>13 DEF vars, IInv, SweepInv, Live
<1>14. QED
  BY <1>10, <1>11, <1>12, <1>13 DEF Next

-----------------------------------------------------------------------------
(* Locks.  While nobody takes anything, it is enough that mutexes stay     *)
(* locked.                                                                 *)
LEMMA LocksKept ==
  ASSUME IInv, Grown, MutexesKept,
         \A h \in Handle : told'[h] \subseteq held'[h] /\ held'[h] \subseteq held[h]
  PROVE  LockInv'
<1>1. Len(handles) \in Nat /\ Len(handles') \in Nat /\ Len(handles) <= Len(handles')
  BY DEF Grown, HandlesTypeOK, IInv, KernelTypeOK
<1>2. \A h \in Handle : held[h] \subseteq 1 .. Len(handles)
  BY DEF IInv, LockInv
<1>3. MutualExclusion'
  <2> SUFFICES ASSUME NEW o \in 1 .. Len(handles'), NEW a \in Handle,
                      handles'[o].type = "mutex", o \in held'[a]
               PROVE  handles'[o].locked /\ \A b \in Handle : o \in held'[b] => a = b
    BY DEF MutualExclusion
  <2>1. o \in 1 .. Len(handles) /\ handles[o].type = "mutex" /\ o \in held[a]
    BY <1>2 DEF Grown
  <2>2. handles[o].locked /\ \A b \in Handle : o \in held[b] => a = b
    BY <2>1 DEF IInv, LockInv, MutualExclusion
  <2>3. QED
    BY <2>1, <2>2 DEF MutexesKept
<1>4. QED
  BY <1>1, <1>2, <1>3 DEF LockInv

(* A wait callback takes a mutex only if nobody has it.                    *)
LEMMA AcquireKeepsLocks ==
  ASSUME IInv, NEW th \in Handle, NEW o \in 1 .. Len(handles), fnWaitSynchronization(o),
         Acquire(th, o), \A h \in Handle : told'[h] \subseteq held'[h]
  PROVE  LockInv'
<1>1. /\ Grown /\ MutexesKept
      /\ handles[o].type = "mutex" => handles'[o].locked
  BY WaitGrows DEF IInv, KernelTypeOK
<1>2. CASE UNCHANGED held
  BY <1>1, <1>2, LocksKept
<1>3. CASE ~ UNCHANGED held
  <2>1. Takes(o) /\ held' = [held EXCEPT ![th] = @ \cup {o}]
    BY <1>3 DEF Acquire
  <2>2. held \in [Handle -> SUBSET Handle]
    BY DEF IInv, KernelTypeOK, ThreadsTypeOK
  <2>3. Len(handles) \in Nat /\ Len(handles') \in Nat /\ Len(handles) <= Len(handles')
    BY <1>1 DEF Grown, HandlesTypeOK, IInv, KernelTypeOK
  <2>4. \A h \in Handle : held'[h] \subseteq held[h] \cup {o} /\ (h # th => held'[h] = held[h])
    BY <2>1, <2>2
  <2>5. \A h \in Handle : held[h] \subseteq 1 .. Len(handles)
    BY DEF IInv, LockInv
  <2>6. \A h \in Handle : held'[h] \subseteq 1 .. Len(handles)
    BY <2>4, <2>5
  <2>7. ASSUME NEW p \in 1 .. Len(handles'), NEW a \in Handle,
               handles'[p].type = "mutex", p \in held'[a]
        PROVE  handles'[p].locked /\ \A b \in Handle : p \in held'[b] => a = b
    <3>1. p \in 1 .. Len(handles) /\ handles[p].type = "mutex"
      BY <1>1, <2>6, <2>7 DEF Grown
    <3>2. CASE p = o
      <4>1. ~ handles[o].locked
        BY <2>1, <3>1, <3>2 DEF Takes, IsWaiting
      <4>2. \A b \in Handle : o \notin held[b]
        BY <3>1, <3>2, <4>1 DEF IInv, LockInv, MutualExclusion
      <4>3. QED
        BY <1>1, <2>4, <2>7, <3>1, <3>2, <4>2
    <3>3. CASE p # o
      <4>1. p \in held[a] /\ \A b \in Handle : p \in held'[b] => p \in held[b]
        BY <2>4, <2>7, <3>3
      <4>2. handles[p].locked /\ \A b \in Handle : p \in held[b] => a = b
        BY <3>1, <4>1 DEF IInv, LockInv, MutualExclusion
      <4>3. QED
        BY <1>1, <3>1, <4>1, <4>2 DEF MutexesKept
    <3>4. QED
      BY <3>2, <3>3
  <2>8. MutualExclusion'
    BY <2>7 DEF MutualExclusion
  <2>9. QED
    BY <2>3, <2>6, <2>8 DEF LockInv
<1>4. QED
  BY <1>2, <1>3

(* Nor does it harm that a thread holds the mutex it has just created.     *)
LEMMA NewMutexKeepsLocks ==
  ASSUME IInv, Grown, MutexesKept, NEW th \in Handle, NEW o \in 1 .. Len(handles'),
         o \notin 1 .. Len(handles), handles'[o].locked,
         held' = [held EXCEPT ![th] = @ \cup {o}],
         told' = [told EXCEPT ![th] = @ \cup {o}]
  PROVE  LockInv'
<1>1. /\ held \in [Handle -> SUBSET Handle] /\ told \in [Handle -> SUBSET Handle]
      /\ Len(handles) \in Nat /\ Len(handles') \in Nat /\ Len(handles) <= Len(handles')
  BY DEF Grown, HandlesTypeOK, IInv, KernelTypeOK, ThreadsTypeOK
<1>2. \A h \in Handle : told[h] \subseteq held[h] /\ held[h] \subseteq 1 .. Len(handles)
  BY DEF IInv, LockInv
<1>3. /\ \A h \in Handle : o \notin held[h]
      /\ \A h \in Handle : o \in held'[h] => h = th
      /\ \A h \in Handle : held'[h] \subseteq held[h] \cup {o}
      /\ \A h \in Handle : told'[h] \subseteq held'[h]
  BY <1>1, <1>2
<1>4. \A h \in Handle : held'[h] \subseteq 1 .. Len(handles')
  BY <1>1, <1>2, <1>3
<1>5. ASSUME NEW p \in 1 .. Len(handles'), NEW a \in Handle,
             handles'[p].type = "mutex", p \in held'[a]
      PROVE  handles'[p].locked /\ \A b \in Handle : p \in held'[b] => a = b
  <2>1. CASE p = o
    BY <1>3, <1>5, <2>1
  <2>2. CASE p # o
    <3>1. p \in held[a] /\ \A b \in Handle : p \in held'[b] => p \in held[b]
      BY <1>3, <1>5, <2>2
    <3>2. p \in 1 .. Len(handles) /\ handles[p].type = "mutex"
      BY <1>2, <1>5, <3>1 DEF Grown
    <3>3. handles[p].locked /\ \A b \in Handle : p \in held[b] => a = b
      BY <3>1, <3>2 DEF IInv, LockInv, MutualExclusion
    <3>4. QED
      BY <3>1, <3>2, <3>3 DEF MutexesKept
  <2>3. QED
    BY <2>1, <2>2
<1>6. MutualExclusion'
  BY <1>5 DEF MutualExclusion
<1>7. QED
  BY <1>3, <1>4, <1>6 DEF LockInv

(* A report tells a thread of nothing that it does not hold.               *)
LEMMA ReportedIsHeld ==
  ASSUME IInv, NEW th \in Handle, NEW objects, Report(th, objects),
         held' \in [Handle -> SUBSET Handle], \A h \in Handle : held[h] \subseteq held'[h]
  PROVE  \A h \in Handle : told'[h] \subseteq held'[h]
<1>1. told \in [Handle -> SUBSET Handle]
  BY DEF IInv, KernelTypeOK, ThreadsTypeOK
<1>2. \A h \in Handle : told[h] \subseteq held[h]
  BY DEF IInv, LockInv
<1>3. QED
  BY <1>1, <1>2 DEF Report

(* A wait callback never takes a thread's objects away.                    *)
LEMMA AcquireGrowsHeld ==
  ASSUME IInv, NEW th \in Handle, NEW o, Acquire(th, o)
  PROVE  \A h \in Handle : held[h] \subseteq held'[h]
<1>1. held \in [Handle -> SUBSET Handle]
  BY DEF IInv, KernelTypeOK, ThreadsTypeOK
<1>2. QED
  BY <1>1 DEF Acquire

(* No step lets two threads hold one mutex, or unlocks one that is held: a *)
(* callback takes a mutex only when it is free, svcCreateMutex makes a new *)
(* one, and a release comes from the thread that was told it holds it.     *)
LEMMA LockStep ==
  ASSUME IInv, [Next]_vars
  PROVE  LockInv'
<1>a. Grown /\ (MutexesKept \/ ReleasesHeldMutex)
  BY HandlesStep
<1>b. /\ held \in [Handle -> SUBSET Handle] /\ held' \in [Handle -> SUBSET Handle]
      /\ told \in [Handle -> SUBSET Handle]
  BY TypeStep DEF IInv, KernelTypeOK, ThreadsTypeOK
<1>c. \A h \in Handle : told[h] \subseteq held[h] /\ held[h] \subseteq 1 .. Len(handles)
  BY DEF IInv, LockInv
<1>1. CASE UNCHANGED <<held, told>> /\ MutexesKept
  BY <1>1, <1>a, <1>c, LocksKept
<1>2. CASE PollHandle
  <2> DEFINE o == handle_Get(threads[t].wait_list[i + 1])
  <2>1. o \in 1 .. Len(handles) /\ threads[t].handle \in Handle
    BY <1>2, PolledEntry, TurnFacts DEF PollHandle
  <2>2. fnWaitSynchronization(o) /\ Acquire(threads[t].handle, o)
    BY <1>2 DEF PollHandle
  <2>3. told' = told \/ Report(threads[t].handle, {o})
    BY <1>2 DEF PollHandle
  <2>4. \A h \in Handle : held[h] \subseteq held'[h]
    BY <2>1, <2>2, AcquireGrowsHeld
  <2> HIDE DEF o
  <2>5. \A h \in Handle : told'[h] \subseteq held'[h]
    BY <1>b, <1>c, <2>1, <2>3, <2>4, ReportedIsHeld
  <2>6. QED
    BY <2>1, <2>2, <2>5, AcquireKeepsLocks
<1>3. CASE PollDone
  <2>1. /\ threads[t].handle \in Handle /\ held' = held
        /\ told' = told \/ \E objects : Report(threads[t].handle, objects)
    BY <1>3, TurnFacts DEF PollDone
  <2>2. \A h \in Handle : told'[h] \subseteq held'[h]
    BY <1>b, <1>c, <2>1, ReportedIsHeld
  <2>3. MutexesKept
    BY <1>3, InterruptGrows DEF PollDone, IInv, KernelTypeOK, TableInv
  <2>4. QED
    BY <1>a, <2>1, <2>2, <2>3, LocksKept
<1>4. ASSUME NEW h \in Existing, svcWaitSynchronization1(h), pc = "run"
      PROVE  LockInv'
  <2> DEFINE o == handle_Get(h)
  <2>1. CASE UNCHANGED <<handles, threads, held, told>>
    <3>1. MutexesKept
      BY <2>1, InterruptGrows DEF IInv, KernelTypeOK, TableInv
    <3>2. QED
      BY <1>1, <2>1, <3>1
  <2>2. CASE o # NoHandle /\ fnWaitSynchronization(o) /\ Acquire(CurrentHandle, o)
             /\ Report(CurrentHandle, {o})
    <3>1. o \in 1 .. Len(handles) /\ CurrentHandle \in Handle
      BY <1>4, <2>2, GetEntry, TurnFacts DEF CurrentHandle, IInv, KernelTypeOK
    <3> HIDE DEF o
    <3>2. \A k \in Handle : held[k] \subseteq held'[k]
      BY <2>2, <3>1, AcquireGrowsHeld
    <3>3. \A k \in Handle : told'[k] \subseteq held'[k]
      BY <1>b, <2>2, <3>1, <3>2, ReportedIsHeld
    <3>4. QED
      BY <2>2, <3>1, <3>3, AcquireKeepsLocks
  <2>3. QED
    BY <1>4, <2>1, <2>2 DEF svcWaitSynchronization1
<1>5. CASE WaitNHandle
  <2> DEFINE o == handle_Get(call.list[i + 1])
  <2>1. /\ o # NoHandle /\ fnWaitSynchronization(o) /\ Acquire(CurrentHandle, o)
        /\ told' = told \/ Report(CurrentHandle, {o})
    BY <1>5 DEF WaitNHandle
  <2>2. o \in 1 .. Len(handles) /\ CurrentHandle \in Handle
    BY <1>5, <2>1, GetEntry, TurnFacts
    DEF CurrentHandle, IInv, KernelTypeOK, WaitNHandle, InWaitN
  <2> HIDE DEF o
  <2>3. \A k \in Handle : held[k] \subseteq held'[k]
    BY <2>1, <2>2, AcquireGrowsHeld
  <2>4. \A k \in Handle : told'[k] \subseteq held'[k]
    BY <1>b, <1>c, <2>1, <2>2, <2>3, ReportedIsHeld
  <2>5. QED
    BY <2>1, <2>2, <2>4, AcquireKeepsLocks
<1>6. ASSUME NEW b \in BOOLEAN, svcCreateMutex(b), pc = "run"
      PROVE  LockInv'
  <2> DEFINE info == [NewInfo("mutex") EXCEPT !.locked = b]
  <2>1. handle_New(info) /\ Len(handles) < MaxHandles /\ CurrentHandle \in Handle
    BY <1>6, TurnFacts DEF svcCreateMutex, handle_New, CurrentHandle
  <2>2. /\ info \in HandleInfo /\ info.type # "redir" /\ info.root = NextHandle
        /\ info.locked = b
    BY <2>1, NewObject, LockField DEF ObjectType, IInv, KernelTypeOK
  <2> HIDE DEF info
  <2>3. /\ Grown /\ MutexesKept
        /\ NextHandle \in Handle /\ NextHandle \notin 1 .. Len(handles)
        /\ Len(handles') = NextHandle /\ handles'[NextHandle].locked = b
    BY <2>1, <2>2, AddGrows DEF IInv, KernelTypeOK
  <2>4. CASE ~b
    BY <1>1, <1>6, <2>3, <2>4 DEF svcCreateMutex
  <2>5. CASE b
    <3>1. NextHandle \in 1 .. Len(handles')
      BY <2>3 DEF NextHandle, IInv, KernelTypeOK, HandlesTypeOK
    <3>2. /\ held' = [held EXCEPT ![CurrentHandle] = @ \cup {NextHandle}]
          /\ told' = [told EXCEPT ![CurrentHandle] = @ \cup {NextHandle}]
      BY <1>6, <2>5 DEF svcCreateMutex
    <3>3. QED
      BY <2>1, <2>3, <2>5, <3>1, <3>2, NewMutexKeepsLocks
  <2>6. QED
    BY <2>4, <2>5
<1>7. ASSUME NEW h, handle_Get(h) \in told[CurrentHandle], svcReleaseMutex(h), pc = "run"
      PROVE  LockInv'
  <2> DEFINE o == handle_Get(h)
  <2>1. CurrentHandle \in Handle
    BY <1>7, TurnFacts DEF CurrentHandle
  <2>2. CASE UNCHANGED <<handles, held, told>>
    <3>1. MutexesKept
      BY <2>2, InterruptGrows DEF IInv, KernelTypeOK, TableInv
    <3>2. QED
      BY <1>1, <2>2, <3>1
  <2>3. CASE /\ o # NoHandle /\ handles[o].type = "mutex" /\ SetLocked(o, FALSE)
             /\ held' = [held EXCEPT ![CurrentHandle] = @ \ {o}]
             /\ told' = [told EXCEPT ![CurrentHandle] = @ \ {o}]
    <3>1. o \in 1 .. Len(handles) /\ o \in held[CurrentHandle]
      BY <1>7, <1>c, <2>1, <2>3, GetEntry DEF IInv, KernelTypeOK
    <3>2. \A k \in Handle : o \in held[k] => k = CurrentHandle
      BY <2>1, <2>3, <3>1 DEF IInv, LockInv, MutualExclusion
    <3>3. \A k \in 1 .. Len(handles) : k # o => handles'[k] = handles[k]
      BY <2>3 DEF SetLocked, IInv, KernelTypeOK, HandlesTypeOK
    <3>4. Len(handles') = Len(handles)
      BY <2>3 DEF SetLocked, IInv, KernelTypeOK, HandlesTypeOK
    <3> HIDE DEF o
    <3>5. \A k \in Handle : /\ held'[k] \subseteq held[k] /\ told'[k] \subseteq held'[k]
                           /\ o \notin held'[k]
      BY <1>b, <1>c, <2>1, <2>3, <3>2
    <3>6. ASSUME NEW p \in 1 .. Len(handles'), NEW a \in Handle,
                 handles'[p].type = "mutex", p \in held'[a]
          PROVE  handles'[p].locked /\ \A c \in Handle : p \in held'[c] => a = c
      <4>1. p # o /\ p \in held[a] /\ handles'[p] = handles[p]
        BY <3>3, <3>4, <3>5, <3>6
      <4>2. QED
        BY <3>4, <3>5, <3>6, <4>1 DEF IInv, LockInv, MutualExclusion
    <3>7. QED
      BY <1>c, <3>4, <3>5, <3>6 DEF LockInv, MutualExclusion
  <2>4. QED
    BY <1>7, <2>2, <2>3 DEF svcReleaseMutex
<1>8. ASSUME NEW h \in OfType("semaphore"), NEW n \in 1 .. 2, svcReleaseSemaphore(h, n), pc = "run"
      PROVE  LockInv'
  <2>1. MutexesKept
    BY <1>8, HandlesStep, SemaphoreGrows
  <2>2. CurrentHandle \in Handle
    BY <1>8, TurnFacts DEF CurrentHandle
  <2>3. \A k \in Handle : told'[k] \subseteq held'[k] /\ held'[k] \subseteq held[k]
    BY <1>8, <1>b, <1>c, <2>2 DEF svcReleaseSemaphore
  <2>4. QED
    BY <1>a, <2>1, <2>3, LocksKept
<1>9. CASE UNCHANGED <<held, told>>
  <2>1. CASE ReleasesHeldMutex
    BY <1>7, <2>1 DEF ReleasesHeldMutex
  <2>2. QED
    BY <1>1, <1>9, <1>a, <2>1
<1>10. CASE Scheduler
  BY <1>2, <1>3, <1>9, <1>10
  DEF Scheduler, history, SkipSlot, RunSlot, StartPoll, threads_Switch, EndSweep, RemoveZombie,
      NextSweep
<1>11. CASE WaitNSteps
  BY <1>5, <1>9, <1>11 DEF WaitNSteps, WaitNBadHandle, WaitNDone
<1>12. CASE GuestCall
  BY <1>4, <1>6, <1>7, <1>8, <1>9, <1>12
  DEF GuestCall, MakesCall, svcCreateThread, svcExitThread, svcSleepThread,
      svcSetThreadPriority, svcCloseHandle, svcDuplicateHandle, svcCreateSemaphore,
      svcCreateEvent, svcSignalEvent, svcClearEvent, GPURegisterInterruptRelayQueue,
      RegisterInterruptEvents, TriggerCmdReqQueue, svcCreateAddressArbiter, svcArbitrateFree, svcArbitrateAcquire, Store,
      svcWaitSynchronizationN
<1>13. CASE UNCHANGED vars
  BY <1>9, <1>13 DEF vars
<1>14. QED
  BY <1>10, <1>11, <1>12, <1>13 DEF Next

-----------------------------------------------------------------------------
(* The tables.  A handle that can be polled stays one, and so do the       *)
(* handles stored for later use, unless a step stores others.              *)
LEMMA PollableKept ==
  ASSUME IInv, Grown, NEW h, Pollable(h)
  PROVE  h \in 1 .. Len(handles') /\ HasWaitCallback(handles'[handles'[h].root])
<1>1. /\ h \in 1 .. Len(handles) /\ Len(handles) \in Nat /\ Len(handles') \in Nat
      /\ Len(handles) <= Len(handles')
  BY DEF Pollable, Grown, HandlesTypeOK, IInv, KernelTypeOK
<1>2. handles'[h].root = handles[h].root /\ handles[h].root \in 1 .. Len(handles)
  BY <1>1 DEF Grown, HandlesTypeOK, IInv, KernelTypeOK
<1>3. handles'[handles'[h].root].type = handles[handles[h].root].type
  BY <1>2 DEF Grown
<1>4. QED
  BY <1>1, <1>3 DEF Pollable, HasWaitCallback

StillPollable(k) ==
  \/ /\ threads'[k].wait_list = threads[k].wait_list
     /\ threads[k].state = "WAITING_SYNC" \/ (pc = "poll" /\ k = t)
  \/ \A n \in 1 .. Len(threads'[k].wait_list) : Pollable(threads'[k].wait_list[n])

(* An event in the table stays one.                                        *)
LEMMA EventKept ==
  ASSUME IInv, Grown, NEW h, IsEvent(h)
  PROVE  h \in 1 .. Len(handles') /\ handles'[handles'[h].root].type = "event"
<1>1. Len(handles) \in Nat /\ Len(handles') \in Nat /\ Len(handles) <= Len(handles')
  BY DEF Grown, HandlesTypeOK, IInv, KernelTypeOK
<1>2. h \in 1 .. Len(handles) /\ handles[handles[h].root].type = "event"
  BY DEF IsEvent
<1>3. handles'[h].root = handles[h].root /\ handles[h].root \in 1 .. Len(handles)
  BY <1>1, <1>2 DEF Grown, HandlesTypeOK, IInv, KernelTypeOK
<1>4. QED
  BY <1>1, <1>2, <1>3 DEF Grown

(* A step that adds no thread and makes none wait on anything unchecked    *)
(* keeps TableInv.                                                         *)
LEMMA TableKept ==
  ASSUME IInv, Grown, num_threads' = num_threads,
         \A k \in Live : threads'[k].handle = threads[k].handle,
         \A k \in Live : threads'[k].state = "WAITING_SYNC" \/ (pc' = "poll" /\ k = t')
                         => StillPollable(k),
         \/ registered' = registered
         \/ \A e \in Interrupter : registered'[e] # NoHandle => IsEvent(registered'[e]),
         pc' = "waitn" => \A n \in 1 .. Len(call'.list) : n <= i' => Pollable(call'.list[n])
  PROVE  TableInv'
<1>1. Live' = Live /\ Len(handles) \in Nat /\ Len(handles') \in Nat /\ Len(handles) <= Len(handles')
  BY DEF Live, Grown, HandlesTypeOK, IInv, KernelTypeOK
<1>2. \A k \in Live' : threads'[k].handle \in 1 .. Len(handles')
  BY <1>1 DEF IInv, TableInv
<1>3. \A j, k \in Live' : threads'[j].handle = threads'[k].handle => j = k
  BY <1>1 DEF IInv, TableInv
<1>4. \A e \in Interrupter : registered'[e] # NoHandle =>
        /\ registered'[e] \in 1 .. Len(handles')
        /\ handles'[handles'[registered'[e]].root].type = "event"
  <2>1. \A e \in Interrupter : registered'[e] # NoHandle => IsEvent(registered'[e])
    BY DEF IInv, TableInv
  <2>2. QED
    BY <2>1, EventKept
<1>5. ASSUME NEW k \in Live', threads'[k].state = "WAITING_SYNC" \/ (pc' = "poll" /\ k = t'),
             NEW n \in 1 .. Len(threads'[k].wait_list)
      PROVE  /\ threads'[k].wait_list[n] \in 1 .. Len(handles')
             /\ HasWaitCallback(handles'[handles'[threads'[k].wait_list[n]].root])
  <2>1. Pollable(threads'[k].wait_list[n])
    BY <1>1, <1>5 DEF StillPollable, IInv, TableInv
  <2>2. QED
    BY <2>1, PollableKept
<1>6. ASSUME pc' = "waitn", NEW n \in 1 .. Len(call'.list), n <= i'
      PROVE  /\ call'.list[n] \in 1 .. Len(handles')
             /\ HasWaitCallback(handles'[handles'[call'.list[n]].root])
  BY <1>6, PollableKept
<1>7. QED
  BY <1>2, <1>3, <1>4, <1>5, <1>6 DEF TableInv, Pollable, IsEvent

(* A thread is suspended on handles that can be polled.                    *)
LEMMA SuspendKeepsTable ==
  ASSUME IInv, Grown, current_thread \in Live, NEW list, NEW all, Suspend(list, all),
         UNCHANGED <<num_threads, registered>>, pc' = "slot",
         \A n \in 1 .. Len(list) : Pollable(list[n])
  PROVE  TableInv'
<1>1. current_thread \in Slot /\ threads \in [Slot -> Thread] /\ Live \subseteq Slot
  BY LiveSlots DEF IInv, KernelTypeOK, ThreadsTypeOK
<1> DEFINE th == [threads[current_thread] EXCEPT !.state = "WAITING_SYNC",
                                                 !.wait_list = list, !.wait_all = all]
<1>2. th.handle = threads[current_thread].handle /\ th.wait_list = list
  BY <1>1 DEF Thread
<1>3. threads' = [threads EXCEPT ![current_thread] = th]
  BY <1>1 DEF Suspend, Thread
<1> HIDE DEF th
<1>4. /\ threads'[current_thread].handle = threads[current_thread].handle
      /\ threads'[current_thread].wait_list = list
      /\ \A k \in Live : k # current_thread => threads'[k] = threads[k]
  BY <1>1, <1>2, <1>3
<1>5. \A k \in Live : threads'[k].state = "WAITING_SYNC" => StillPollable(k)
  BY <1>4 DEF StillPollable
<1>6. QED
  BY <1>4, <1>5, TableKept

(* The handle of a new thread is in no other slot.                         *)
LEMMA CreateKeepsTable ==
  ASSUME IInv, Grown, NEW p, svcCreateThread(p), pc = "run"
  PROVE  TableInv'
<1>a. /\ num_threads \in Slot /\ threads \in [Slot -> Thread]
      /\ threads[num_threads] \in Thread
      /\ Live \subseteq Slot /\ num_threads \notin Live /\ Live' = Live \cup {num_threads}
      /\ Len(handles) \in Nat /\ Len(handles') \in Nat
      /\ Len(handles') = Len(handles) + 1 /\ NextHandle = Len(handles) + 1
  BY LiveSlots
  DEF svcCreateThread, handle_New, NextHandle, RoomForThread, Live, Slot, IInv, KernelTypeOK,
      ThreadsTypeOK, HandlesTypeOK
<1> DEFINE th == [threads[num_threads] EXCEPT !.handle = NextHandle, !.priority = p,
                    !.state = "RUNNING", !.wait_list = <<>>, !.regs.of = NextHandle]
<1>1. th.handle = NextHandle /\ th.wait_list = <<>>
  BY <1>a DEF Thread, Registers
<1>2. threads' = [threads EXCEPT ![num_threads] = th]
  BY <1>a DEF svcCreateThread, Thread, Registers
<1> HIDE DEF th
<1>3. /\ threads'[num_threads].handle = NextHandle
      /\ threads'[num_threads].wait_list = <<>>
      /\ \A k \in Live : threads'[k] = threads[k]
  BY <1>a, <1>1, <1>2
<1>4. \A k \in Live' : threads'[k].handle \in 1 .. Len(handles')
  BY <1>a, <1>3 DEF IInv, TableInv
<1>5. \A j, k \in Live' : threads'[j].handle = threads'[k].handle => j = k
  BY <1>a, <1>3 DEF IInv, TableInv
<1>6. \A e \in Interrupter : registered'[e] # NoHandle =>
        /\ registered'[e] \in 1 .. Len(handles')
        /\ handles'[handles'[registered'[e]].root].type = "event"
  <2>1. \A e \in Interrupter : registered[e] # NoHandle => IsEvent(registered[e])
    BY DEF IInv, TableInv
  <2>2. registered' = registered
    BY DEF svcCreateThread
  <2>3. QED
    BY <2>1, <2>2, EventKept
<1>7. ASSUME NEW k \in Live', threads'[k].state = "WAITING_SYNC",
             NEW n \in 1 .. Len(threads'[k].wait_list)
      PROVE  /\ threads'[k].wait_list[n] \in 1 .. Len(handles')
             /\ HasWaitCallback(handles'[handles'[threads'[k].wait_list[n]].root])
  <2>1. k \in Live
    BY <1>a, <1>3, <1>7
  <2>2. Pollable(threads'[k].wait_list[n])
    BY <1>3, <1>7, <2>1 DEF IInv, TableInv
  <2>3. QED
    BY <2>2, PollableKept
<1>8. pc' = "slot"
  BY DEF svcCreateThread, EndTurn
<1>9. QED
  BY <1>4, <1>5, <1>6, <1>7, <1>8 DEF TableInv, Pollable, IsEvent

(* RemoveZombie closes the gap at id: slot k then holds what slot From(id, *)
(* k) held.                                                                *)
From(id, k) == IF k >= id THEN k + 1 ELSE k

(* RemoveZombie drops one stopped thread and keeps all the others, in      *)
(* their order.                                                            *)
LEMMA RemoveShift ==
  ASSUME IInv, RemoveZombie
  PROVE  \E id \in Live :
           /\ threads[id].state = "STOPPED"
           /\ \A k \in Live' : From(id, k) \in Live /\ threads'[k] = threads[From(id, k)]
           /\ \A j, k \in Live' : From(id, j) = From(id, k) => j = k
           /\ \A k \in Live : k = id \/ \E j \in Live' : From(id, j) = k
<1>1. PICK id \in Stopped :
        threads' = [k \in Slot |-> IF k \in id .. num_threads - 1 THEN SlotAfter(k) ELSE threads[k]]
  BY DEF RemoveZombie
<1>2. /\ num_threads \in Nat /\ num_threads <= MaxThreads /\ MaxThreads \in Nat
      /\ Live = 0 .. num_threads - 1 /\ Live' = 0 .. num_threads - 2
      /\ Slot = 0 .. MaxThreads - 1
      /\ id \in Live /\ threads[id].state = "STOPPED"
  BY LiveSlots, <1>1 DEF RemoveZombie, Stopped, Live, Slot
<1>3. ASSUME NEW k \in Live'
      PROVE  From(id, k) \in Live /\ threads'[k] = threads[From(id, k)]
  <2>1. k \in 0 .. num_threads - 2 /\ k \in Slot /\ id \in Int
    BY <1>2
  <2>2. CASE k >= id
    <3>1. k \in id .. num_threads - 1 /\ k + 1 \in Slot /\ k + 1 \in Live
      BY <1>2, <2>1, <2>2
    <3>2. QED
      BY <1>1, <2>1, <2>2, <3>1 DEF SlotAfter, From
  <2>3. CASE ~ (k >= id)
    <3>1. k \notin id .. num_threads - 1 /\ k \in Live
      BY <1>2, <2>1, <2>3
    <3>2. QED
      BY <1>1, <2>1, <2>3, <3>1 DEF From
  <2>4. QED
    BY <2>2, <2>3
<1>4. \A j, k \in Live' : From(id, j) = From(id, k) => j = k
  BY <1>2 DEF From
<1>5. ASSUME NEW k \in Live, k # id
      PROVE  \E j \in Live' : From(id, j) = k
  <2>1. CASE k < id
    BY <1>2, <2>1 DEF From
  <2>2. CASE k > id
    <3>1. k - 1 \in Live' /\ From(id, k - 1) = k
      BY <1>2, <2>2 DEF From
    <3>2. QED
      BY <3>1
  <2>3. QED
    BY <1>2, <1>5, <2>1, <2>2
<1>6. QED
  BY <1>2, <1>3, <1>4, <1>5

(* Closing the gap of a stopped thread keeps TableInv.                     *)
LEMMA RemoveKeepsTable ==
  ASSUME IInv, RemoveZombie
  PROVE  TableInv'
<1>1. PICK id \in Live :
        /\ \A k \in Live' : From(id, k) \in Live /\ threads'[k] = threads[From(id, k)]
        /\ \A j, k \in Live' : From(id, j) = From(id, k) => j = k
  BY RemoveShift
<1>2. UNCHANGED <<handles, registered>> /\ pc' = "reap"
  BY DEF RemoveZombie, sweepVars
<1> DEFINE from(k) == From(id, k)
<1>3. \A k \in Live' : from(k) \in Live /\ threads'[k] = threads[from(k)]
  BY <1>1
<1>4. ASSUME NEW j \in Live', NEW k \in Live', from(j) = from(k)
      PROVE  j = k
  BY <1>1, <1>4
<1> HIDE DEF from
<1>5. \A k \in Live' : threads'[k].handle \in 1 .. Len(handles')
  BY <1>2, <1>3 DEF IInv, TableInv
<1>6. ASSUME NEW j \in Live', NEW k \in Live', threads'[j].handle = threads'[k].handle
      PROVE  j = k
  <2>1. from(j) \in Live /\ from(k) \in Live
    BY <1>3
  <2>2. threads[from(j)].handle = threads[from(k)].handle
    BY <1>3, <1>6
  <2>3. from(j) = from(k)
    BY <2>1, <2>2 DEF IInv, TableInv
  <2>4. QED
    BY <2>3, <1>4
<1>7. ASSUME NEW k \in Live', threads'[k].state = "WAITING_SYNC",
             NEW n \in 1 .. Len(threads'[k].wait_list)
      PROVE  /\ threads'[k].wait_list[n] \in 1 .. Len(handles')
             /\ HasWaitCallback(handles'[handles'[threads'[k].wait_list[n]].root])
  <2>1. Pollable(threads'[k].wait_list[n])
    BY <1>3, <1>7 DEF IInv, TableInv
  <2>2. QED
    BY <1>2, <2>1 DEF Pollable
<1>8. QED
  BY <1>2, <1>5, <1>6, <1>7 DEF TableInv, Pollable, IsEvent, IInv

(* Every step keeps the thread table and the handle table consistent.      *)
LEMMA TableStep ==
  ASSUME IInv, [Next]_vars
  PROVE  TableInv'
<1> USE DEF threadVars, loopVars, history
<1>a. /\ Grown /\ Live \subseteq Slot /\ threads \in [Slot -> Thread]
      /\ i \in Nat /\ t \in Nat /\ num_threads \in Nat
  BY HandlesStep, LiveSlots DEF IInv, KernelTypeOK, ThreadsTypeOK
<1>b. \A k \in Live : threads[k].state = "WAITING_SYNC" /\ threads'[k].wait_list = threads[k].wait_list
                     => StillPollable(k)
  BY DEF StillPollable
<1>1. CASE UNCHANGED <<threads, num_threads, registered>> /\ pc' \notin {"poll", "waitn"}
  BY <1>1, <1>a, <1>b, TableKept
<1>2. CASE StartPoll
  <2>1. \A k \in Live : threads'[k].state = "WAITING_SYNC" \/ (pc' = "poll" /\ k = t')
                         => StillPollable(k)
    BY <1>2, <1>b DEF StartPoll
  <2>2. QED
    BY <1>2, <1>a, <2>1, TableKept DEF StartPoll
<1>3. CASE PollHandle
  <2>1. t \in Live /\ pc = "poll" /\ pc' = "poll" /\ t' = t /\ i \in Register1
    BY <1>3, <1>a, TurnFacts DEF PollHandle, Register1
  <2>2. /\ num_threads' = num_threads
        /\ \A k \in Live : /\ threads'[k].handle = threads[k].handle
                           /\ threads'[k].wait_list = threads[k].wait_list
        /\ \A k \in Live : k # t => threads'[k] = threads[k]
    <3>1. CASE Wake(t, i)
      BY <1>a, <2>1, <3>1, WakeEffect DEF Wake
    <3>2. CASE ~ Wake(t, i)
      BY <1>3, <3>2 DEF PollHandle
    <3>3. QED
      BY <3>1, <3>2
  <2>3. \A k \in Live : threads'[k].state = "WAITING_SYNC" \/ (pc' = "poll" /\ k = t')
                         => StillPollable(k)
    BY <2>1, <2>2 DEF StillPollable
  <2>4. QED
    BY <1>3, <1>a, <2>1, <2>2, <2>3, TableKept DEF PollHandle
<1>4. CASE PollDone
  <2>1. t \in Live /\ pc = "poll" /\ pc' \in {"slot", "switch"} /\ threads[t] \in Thread
    BY <1>4, TurnFacts DEF PollDone
  <2>2. /\ num_threads' = num_threads
        /\ \A k \in Live : /\ threads'[k].handle = threads[k].handle
                           /\ threads'[k].wait_list = threads[k].wait_list
        /\ \A k \in Live : k # t => threads'[k] = threads[k]
    <3>1. CASE ret /\ threads[t].wait_all
      <4>1. Len(threads[t].wait_list) \in Register1
        BY <2>1 DEF Thread, Register1
      <4>2. Wake(t, Len(threads[t].wait_list))
        BY <1>4, <3>1 DEF PollDone
      <4>3. QED
        BY <1>a, <2>1, <4>1, <4>2, WakeEffect DEF Wake
    <3>2. CASE ~ (ret /\ threads[t].wait_all)
      BY <1>4, <3>2 DEF PollDone
    <3>3. QED
      BY <3>1, <3>2
  <2>3. \A k \in Live : threads'[k].state = "WAITING_SYNC" \/ (pc' = "poll" /\ k = t')
                         => StillPollable(k)
    BY <2>1, <2>2 DEF StillPollable
  <2>4. QED
    BY <1>4, <1>a, <2>1, <2>2, <2>3, TableKept DEF PollDone
<1>5. CASE threads_Switch \/ EndSweep
  <2>1. /\ num_threads' = num_threads /\ pc' \in {"run", "reap"} /\ registered' = registered
        /\ \/ threads' = threads
           \/ current_thread \in Slot /\ threads' = SaveContext(current_thread)
    BY <1>5 DEF threads_Switch, EndSweep, IInv, KernelTypeOK, ThreadsTypeOK
  <2>2. \A k \in Live : /\ threads'[k].handle = threads[k].handle
                       /\ threads'[k].state = threads[k].state
                       /\ threads'[k].wait_list = threads[k].wait_list
    BY <1>a, <2>1, SaveContextEffect
  <2>3. QED
    BY <1>a, <1>b, <2>1, <2>2, TableKept
<1>6. CASE Scheduler
  BY <1>1, <1>2, <1>3, <1>4, <1>5, <1>6, RemoveKeepsTable
  DEF Scheduler, SkipSlot, RunSlot, AtSlot, NextSweep
<1>7. CASE WaitNBadHandle
  BY <1>1, <1>7 DEF WaitNBadHandle, ReturnFromWaitN, EndTurn
<1>8. CASE WaitNHandle
  <2>1. CASE pc' # "waitn"
    BY <1>1, <1>8, <2>1 DEF WaitNHandle, InWaitN, ReturnFromWaitN, EndTurn
  <2>2. CASE pc' = "waitn"
    <3>1. /\ pc = "waitn" /\ i' = i + 1 /\ call' = call
          /\ UNCHANGED <<threads, num_threads, registered>>
      BY <1>8, <2>2 DEF WaitNHandle, InWaitN, ReturnFromWaitN, EndTurn
    <3>2. Pollable(call.list[i + 1])
      BY <1>8, GetEntry DEF WaitNHandle, Pollable, IInv, KernelTypeOK
    <3>3. \A n \in 1 .. Len(call'.list) : n <= i' => Pollable(call'.list[n])
      <4>1. \A n \in 1 .. Len(call.list) : n <= i => Pollable(call.list[n])
        BY <3>1 DEF IInv, TableInv
      <4>2. \A n \in 1 .. Len(call.list) : n <= i + 1 => n <= i \/ n = i + 1
        BY <1>a
      <4>3. QED
        BY <3>1, <3>2, <4>1, <4>2
    <3>4. QED
      BY <1>a, <1>b, <2>2, <3>1, <3>3, TableKept
  <2>3. QED
    BY <2>1, <2>2
<1>9. CASE WaitNDone
  <2>1. /\ pc = "waitn" /\ pc' = "slot" /\ current_thread = t /\ t \in Live
        /\ num_threads' = num_threads /\ registered' = registered
    BY <1>9, TurnFacts DEF WaitNDone, EndTurn
  <2>2. CASE threads' = threads
    BY <1>1, <2>1, <2>2
  <2>3. CASE Suspend(call.list, call.all)
    <3>1. \A n \in 1 .. Len(call.list) : Pollable(call.list[n])
      <4>1. i = Len(call.list)
        BY <1>9 DEF WaitNDone
      <4>2. QED
        BY <2>1, <4>1 DEF IInv, TableInv
    <3>2. QED
      BY <1>a, <2>1, <2>3, <3>1, SuspendKeepsTable
  <2>4. QED
    BY <1>9, <2>2, <2>3 DEF WaitNDone
<1>10. CASE WaitNSteps
  BY <1>7, <1>8, <1>9, <1>10 DEF WaitNSteps
<1>11. CASE GuestCall
  <2>a. pc = "run" /\ current_thread \in Live /\ current_thread \in Slot
    BY <1>11, TurnFacts DEF GuestCall, MakesCall
  <2>1. CASE /\ \A k \in Slot : SameThread(k) /\ SameWait(k)
             /\ UNCHANGED <<num_threads, registered>> /\ pc' \notin {"poll", "waitn"}
    BY <1>a, <1>b, <2>1, TableKept DEF SameThread, SameWait
  <2>2. ASSUME NEW p \in Priorities, svcCreateThread(p) PROVE TableInv'
    BY <1>a, <2>a, <2>2, CreateKeepsTable
  <2>3. CASE svcExitThread
    BY <2>a, <2>1, <2>3, StateFrame DEF svcExitThread, EndTurn
  <2>4. ASSUME NEW h, NEW p, svcSetThreadPriority(h, p) PROVE TableInv'
    BY <2>a, <2>1, <2>4, PriorityFrame DEF svcSetThreadPriority, KeepTurn
  <2>5. ASSUME NEW h, svcCloseHandle(h) PROVE TableInv'
    BY <2>a, <2>1, <2>5, CloseFrame DEF svcCloseHandle, KeepTurn, EndTurn
  <2>6. ASSUME NEW h, NEW a, NEW n, svcArbitrateFree(h, a, n) PROVE TableInv'
    BY <2>a, <2>1, <2>6, ArbitrateFreeFrame DEF svcArbitrateFree, KeepTurn
  <2>7. ASSUME NEW h, NEW a, NEW d, NEW v, svcArbitrateAcquire(h, a, d, v) PROVE TableInv'
    BY <2>a, <2>1, <2>7, ArbitrateAcquireFrame DEF svcArbitrateAcquire, KeepTurn, EndTurn
  <2>8. ASSUME NEW h \in OfType("event"),
               GPURegisterInterruptRelayQueue(h) \/ RegisterInterruptEvents(h)
        PROVE  TableInv'
    <3>1. UNCHANGED <<threads, num_threads>> /\ pc' = "slot" /\ RegistersEvent(h)
      BY <2>8 DEF GPURegisterInterruptRelayQueue, RegisterInterruptEvents, EndTurn,
                  ThreadsUnchanged, RegistersEvent, Interrupter
    <3>2. \A e \in Interrupter : registered'[e] # NoHandle => IsEvent(registered'[e])
      BY <3>1, RegisterTypes
    <3>3. QED
      BY <1>a, <1>b, <3>1, <3>2, TableKept
  <2>9. ASSUME NEW h \in Existing, svcWaitSynchronization1(h) PROVE TableInv'
    <3>1. UNCHANGED <<num_threads, registered>> /\ pc' = "slot"
      BY <2>9 DEF svcWaitSynchronization1, EndTurn
    <3>2. CASE threads' = threads
      BY <1>1, <3>1, <3>2
    <3>3. CASE /\ handle_Get(h) # NoHandle /\ HasWaitCallback(handles[handle_Get(h)])
               /\ Suspend(<<h>>, TRUE)
      <4>1. Pollable(h)
        BY <3>3, GetEntry DEF Pollable, IInv, KernelTypeOK
      <4>2. \A n \in 1 .. Len(<<h>>) : Pollable(<<h>>[n])
        BY <4>1
      <4>3. QED
        BY <1>a, <2>a, <3>1, <3>3, <4>2, SuspendKeepsTable
    <3>4. QED
      BY <2>9, <3>2, <3>3 DEF svcWaitSynchronization1
  <2>10. ASSUME NEW l, NEW all, svcWaitSynchronizationN(l, all) PROVE TableInv'
    <3>1. /\ UNCHANGED <<threads, num_threads, registered>> /\ pc' = "waitn" /\ i' = 0
      BY <2>10 DEF svcWaitSynchronizationN
    <3>2. \A n \in 1 .. Len(call'.list) : ~ (n <= 0)
      OBVIOUS
    <3>3. QED
      BY <1>a, <1>b, <3>1, <3>2, TableKept
  <2>11. QED
    BY <1>1, <1>11, <2>a, <2>2, <2>3, <2>4, <2>5, <2>6, <2>7, <2>8, <2>9, <2>10
    DEF GuestCall, KeepTurn, EndTurn, ThreadsUnchanged, svcSleepThread, svcDuplicateHandle,
        svcCreateMutex, svcReleaseMutex, svcCreateSemaphore, svcReleaseSemaphore,
        svcCreateEvent, svcSignalEvent, svcClearEvent, svcCreateAddressArbiter, Store,
        TriggerCmdReqQueue
<1>12. CASE UNCHANGED vars
  BY <1>12, <1>a, TableKept DEF vars, StillPollable, IInv, TableInv
<1>13. QED
  BY <1>6, <1>10, <1>11, <1>12 DEF Next

-----------------------------------------------------------------------------
(* The registers.  A call answers the thread that made it.                 *)
LEMMA AnswerKeepsRegisters ==
  ASSUME IInv, pc \in {"run", "waitn"}, NEW r1 \in Register1, SetR1(r1),
         UNCHANGED <<num_threads, current_thread>>, \A k \in Slot : SameThread(k)
  PROVE  OwnRegisters'
<1>1. /\ current_thread \in Live /\ Live \subseteq Slot /\ Live' = Live
      /\ CurrentHandle \in Handle /\ CurrentHandle = threads[current_thread].handle
      /\ \A k \in Live : threads[k].handle \in Handle
      /\ \A k \in Live : threads[k].handle = CurrentHandle => k = current_thread
  BY TurnFacts, LiveSlots DEF CurrentHandle, Live, IInv, TableInv
<1>2. /\ s'.of = s.of /\ s'.r1 = r1
      /\ answer' = [answer EXCEPT ![CurrentHandle] = r1]
      /\ answer \in [Handle -> Register1]
  BY DEF SetR1, IInv, KernelTypeOK, ThreadsTypeOK
<1>3. ASSUME NEW k \in Live
      PROVE  /\ RegistersOf(k)'.of = threads'[k].handle
             /\ RegistersOf(k)'.r1 = answer'[threads'[k].handle]
  <2>1. RegistersOf(k).of = threads[k].handle /\ RegistersOf(k).r1 = answer[threads[k].handle]
    BY DEF IInv, OwnRegisters
  <2>2. k \in Slot /\ threads'[k].handle = threads[k].handle /\ threads'[k].regs = threads[k].regs
    BY <1>1 DEF SameThread
  <2>3. CASE k = current_thread
    BY <1>1, <1>2, <2>1, <2>2, <2>3 DEF RegistersOf
  <2>4. CASE k # current_thread
    BY <1>1, <1>2, <2>1, <2>2, <2>4 DEF RegistersOf
  <2>5. QED
    BY <2>3, <2>4
<1>4. QED
  BY <1>1, <1>3 DEF OwnRegisters

(* So does a wake-up, which knows whether the thread's registers are in    *)
(* the CPU.                                                                *)
LEMMA WakeKeepsRegisters ==
  ASSUME IInv, NEW k \in Live, NEW r1 \in Register1, Wake(k, r1)
  PROVE  OwnRegisters'
<1>1. /\ k \in Slot /\ Live \subseteq Slot /\ Live' = Live
      /\ current_thread' = current_thread
      /\ \A j \in Live : threads[j].handle \in Handle
      /\ \A j \in Live : threads[j].handle = threads[k].handle => j = k
  BY LiveSlots DEF Wake, Live, IInv, TableInv
<1>2. /\ answer' = [answer EXCEPT ![threads[k].handle] = r1]
      /\ answer \in [Handle -> Register1]
      /\ s \in [of : Handle \cup {NoHandle}, r1 : Register1, servaddr : Buffer]
      /\ s' = IF current_thread = k THEN [s EXCEPT !.r1 = r1] ELSE s
      /\ threads[k].regs \in Registers
  BY <1>1, LiveSlots DEF Wake, IInv, KernelTypeOK, ThreadsTypeOK, Thread
<1>3. /\ threads'[k].handle = threads[k].handle
      /\ threads'[k].regs = IF current_thread = k THEN threads[k].regs
                            ELSE [threads[k].regs EXCEPT !.r1 = r1]
      /\ \A j \in Slot : j # k => threads'[j] = threads[j]
  BY WakeEffect
<1>4. /\ current_thread = k => s'.of = s.of /\ s'.r1 = r1
      /\ current_thread # k => s' = s
      /\ [threads[k].regs EXCEPT !.r1 = r1].of = threads[k].regs.of
      /\ [threads[k].regs EXCEPT !.r1 = r1].r1 = r1
  BY <1>2 DEF Registers
<1>5. ASSUME NEW j \in Live
      PROVE  /\ RegistersOf(j)'.of = threads'[j].handle
             /\ RegistersOf(j)'.r1 = answer'[threads'[j].handle]
  <2>1. RegistersOf(j).of = threads[j].handle /\ RegistersOf(j).r1 = answer[threads[j].handle]
    BY DEF IInv, OwnRegisters
  <2>2. CASE j = k
    BY <1>1, <1>2, <1>3, <1>4, <2>1, <2>2 DEF RegistersOf
  <2>3. CASE j # k
    BY <1>1, <1>2, <1>3, <1>4, <2>1, <2>3 DEF RegistersOf
  <2>4. QED
    BY <2>2, <2>3
<1>6. QED
  BY <1>1, <1>5 DEF OwnRegisters

(* threads_Switch saves the CPU's registers in the slot of the thread they *)
(* belong to, and loads those of the thread that runs next.                *)
LEMMA SwitchKeepsRegisters ==
  ASSUME IInv, threads_Switch
  PROVE  OwnRegisters'
<1>1. /\ t \in Live /\ Live \subseteq Slot /\ Live' = Live /\ t \in Slot
      /\ current_thread = NoThread \/ current_thread \in Live
  BY TurnFacts, LiveSlots DEF threads_Switch, threadVars, Live, IInv, SweepInv
<1>2. \A j \in Live : /\ RegistersOf(j).of = threads[j].handle
                     /\ RegistersOf(j).r1 = answer[threads[j].handle]
  BY DEF IInv, OwnRegisters
<1>3. CASE current_thread = t
  BY <1>1, <1>2, <1>3 DEF threads_Switch, threadVars, history, OwnRegisters, RegistersOf
<1>4. CASE current_thread # t
  <2>1. /\ s' = LoadContext(t) /\ current_thread' = t /\ answer' = answer
        /\ threads' = IF current_thread = NoThread THEN threads ELSE SaveContext(current_thread)
    BY <1>4 DEF threads_Switch, history
  <2>2. s'.of = threads[t].regs.of /\ s'.r1 = threads[t].regs.r1
    BY <2>1 DEF LoadContext
  <2>3. ASSUME NEW j \in Live
        PROVE  /\ RegistersOf(j)'.of = threads'[j].handle
               /\ RegistersOf(j)'.r1 = answer'[threads'[j].handle]
    <3>1. /\ threads'[j].handle = threads[j].handle
          /\ j # current_thread => threads'[j].regs = threads[j].regs
          /\ j = current_thread => threads'[j].regs = [of |-> s.of, r1 |-> s.r1]
      BY <1>1, <2>1, SaveContextEffect DEF NoThread, Live
    <3>2. CASE j = t
      BY <1>2, <1>4, <2>1, <2>2, <3>1, <3>2 DEF RegistersOf
    <3>3. CASE j # t
      BY <1>2, <2>1, <3>1, <3>3 DEF RegistersOf
    <3>4. QED
      BY <3>2, <3>3
  <2>4. QED
    BY <1>1, <2>3 DEF OwnRegisters
<1>5. QED
  BY <1>3, <1>4

(* threads_SaveContextCurrentThread saves the registers before             *)
(* current_thread is given up.                                             *)
LEMMA EndSweepKeepsRegisters ==
  ASSUME IInv, EndSweep
  PROVE  OwnRegisters'
<1>1. /\ Live \subseteq Slot /\ Live' = Live /\ answer' = answer /\ s' = s
      /\ current_thread = NoThread \/ current_thread \in Slot
      /\ num_threads \in Nat /\ NoThread \notin Live
  BY LiveSlots DEF EndSweep, history, Live, NoThread, IInv, KernelTypeOK, ThreadsTypeOK
<1>2. \A j \in Live : /\ RegistersOf(j).of = threads[j].handle
                     /\ RegistersOf(j).r1 = answer[threads[j].handle]
  BY DEF IInv, OwnRegisters
<1>3. CASE current_thread = NoThread
  BY <1>1, <1>2, <1>3 DEF EndSweep, OwnRegisters, RegistersOf
<1>4. CASE current_thread # NoThread
  <2>1. /\ threads' = SaveContext(current_thread)
        /\ current_thread' \in {NoThread, current_thread}
    BY <1>4 DEF EndSweep
  <2>2. ASSUME NEW j \in Live
        PROVE  /\ RegistersOf(j)'.of = threads'[j].handle
               /\ RegistersOf(j)'.r1 = answer'[threads'[j].handle]
    <3>1. /\ threads'[j].handle = threads[j].handle
          /\ j # current_thread => threads'[j].regs = threads[j].regs
          /\ j = current_thread => threads'[j].regs = [of |-> s.of, r1 |-> s.r1]
      BY <1>1, <1>4, <2>1, SaveContextEffect
    <3>2. QED
      BY <1>1, <1>2, <2>1, <3>1 DEF RegistersOf
  <2>3. QED
    BY <1>1, <2>2 DEF OwnRegisters
<1>5. QED
  BY <1>3, <1>4

(* threads_RemoveZombies moves slots only while no slot but the first is   *)
(* current, so that the CPU's registers keep their thread.                 *)
LEMMA RemoveKeepsRegisters ==
  ASSUME IInv, RemoveZombie
  PROVE  OwnRegisters'
<1>1. PICK id \in Live :
        \A k \in Live' : From(id, k) \in Live /\ threads'[k] = threads[From(id, k)]
  BY RemoveShift
<1>2. /\ pc = "reap" /\ current_thread' = current_thread /\ answer' = answer
      /\ num_threads \in Nat /\ NoThread \notin Live /\ NoThread \notin Live'
      /\ num_threads' = num_threads - 1
  BY LiveSlots DEF RemoveZombie, history, Live, NoThread
<1>3. CASE num_threads <= 1
  BY <1>2, <1>3 DEF OwnRegisters, Live
<1>4. CASE num_threads > 1
  <2>1. current_thread = NoThread
    BY <1>2, <1>4 DEF IInv, SweepInv
  <2>2. \A k \in Live : /\ threads[k].regs.of = threads[k].handle
                       /\ threads[k].regs.r1 = answer[threads[k].handle]
    BY <1>2, <2>1 DEF IInv, OwnRegisters, RegistersOf
  <2>3. \A k \in Live' : k # current_thread
    BY <1>2, <2>1
  <2>4. QED
    BY <1>1, <1>2, <2>2, <2>3 DEF OwnRegisters, RegistersOf
<1>5. QED
  BY <1>2, <1>3, <1>4

(* A new thread starts with its own registers; the others keep theirs.     *)
LEMMA CreateKeepsRegisters ==
  ASSUME IInv, NEW p, svcCreateThread(p), pc = "run"
  PROVE  OwnRegisters'
<1>1. /\ num_threads \in Slot /\ threads \in [Slot -> Thread]
      /\ threads[num_threads] \in Thread
      /\ Live \subseteq Slot /\ num_threads \notin Live /\ Live' = Live \cup {num_threads}
      /\ NextHandle \notin 1 .. Len(handles) /\ NextHandle \in Handle
      /\ CurrentHandle \in Handle /\ CurrentHandle = threads[current_thread].handle
      /\ current_thread \in Live
      /\ \A k \in Live : threads[k].handle \in 1 .. Len(handles) /\ threads[k].handle \in Handle
      /\ \A k \in Live : threads[k].handle = CurrentHandle => k = current_thread
  <2>1. /\ num_threads \in Slot /\ threads \in [Slot -> Thread]
        /\ threads[num_threads] \in Thread
        /\ Live \subseteq Slot /\ num_threads \notin Live /\ Live' = Live \cup {num_threads}
    BY LiveSlots
    DEF svcCreateThread, RoomForThread, Live, Slot, IInv, KernelTypeOK, ThreadsTypeOK
  <2>2. NextHandle \notin 1 .. Len(handles) /\ NextHandle \in Handle
    BY MaxHandlesAssumption
    DEF svcCreateThread, handle_New, NextHandle, Handle, IInv, KernelTypeOK, HandlesTypeOK
  <2>3. QED
    BY <2>1, <2>2, TurnFacts, LiveSlots DEF CurrentHandle, IInv, TableInv
<1> DEFINE th == [threads[num_threads] EXCEPT !.handle = NextHandle, !.priority = p,
                    !.state = "RUNNING", !.wait_list = <<>>, !.regs.of = NextHandle]
<1>2. /\ th.handle = NextHandle /\ th.regs.of = NextHandle
      /\ th.regs.r1 = threads[num_threads].regs.r1
  BY <1>1 DEF Thread, Registers
<1>3. threads' = [threads EXCEPT ![num_threads] = th]
  BY <1>1 DEF svcCreateThread, Thread, Registers
<1> HIDE DEF th
<1>4. /\ s'.of = s.of /\ s'.r1 = Other /\ current_thread' = current_thread
      /\ answer' = [answer EXCEPT ![CurrentHandle] = Other,
                                  ![NextHandle] = threads[num_threads].regs.r1]
      /\ answer \in [Handle -> Register1]
  BY DEF svcCreateThread, IInv, KernelTypeOK, ThreadsTypeOK
<1>5. ASSUME NEW k \in Live'
      PROVE  /\ RegistersOf(k)'.of = threads'[k].handle
             /\ RegistersOf(k)'.r1 = answer'[threads'[k].handle]
  <2>1. CASE k = num_threads
    BY <1>1, <1>2, <1>3, <1>4, <2>1 DEF RegistersOf
  <2>2. CASE k # num_threads
    <3>1. /\ k \in Live /\ threads'[k] = threads[k]
          /\ RegistersOf(k).of = threads[k].handle
          /\ RegistersOf(k).r1 = answer[threads[k].handle]
          /\ threads[k].handle # NextHandle
      BY <1>1, <1>3, <2>2 DEF IInv, OwnRegisters
    <3>2. CASE k = current_thread
      BY <1>1, <1>4, <3>1, <3>2 DEF RegistersOf
    <3>3. CASE k # current_thread
      BY <1>1, <1>4, <3>1, <3>3 DEF RegistersOf
    <3>4. QED
      BY <3>2, <3>3
  <2>3. QED
    BY <2>1, <2>2
<1>6. QED
  BY <1>5 DEF OwnRegisters

(* Every step leaves each thread its own registers, with the last answer   *)
(* it was given in r1.                                                     *)
LEMMA RegistersStep ==
  ASSUME IInv, [Next]_vars
  PROVE  OwnRegisters'
<1> USE DEF threadVars, history
<1>1. CASE UNCHANGED <<threads, num_threads, current_thread, s, answer>>
  BY <1>1 DEF IInv, OwnRegisters, RegistersOf, Live
<1>2. CASE PollHandle
  <2>1. t \in Live /\ i \in Register1
    BY <1>2, TurnFacts DEF PollHandle, Register1, IInv, KernelTypeOK, ThreadsTypeOK
  <2>2. QED
    BY <1>1, <1>2, <2>1, WakeKeepsRegisters DEF PollHandle
<1>3. CASE PollDone
  <2>1. t \in Live /\ threads[t] \in Thread
    BY <1>3, TurnFacts DEF PollDone
  <2>2. Len(threads[t].wait_list) \in Register1
    BY <2>1 DEF Thread, Register1
  <2>3. QED
    BY <1>1, <1>3, <2>1, <2>2, WakeKeepsRegisters DEF PollDone
<1>4. CASE Scheduler
  BY <1>1, <1>2, <1>3, <1>4, SwitchKeepsRegisters, EndSweepKeepsRegisters, RemoveKeepsRegisters
  DEF Scheduler, SkipSlot, RunSlot, StartPoll, NextSweep
<1>5. CASE WaitNSteps
  <2>1. /\ pc = "waitn" /\ current_thread \in Slot /\ i \in Register1
        /\ Len(call.list) \in Register1
    BY <1>5, TurnFacts
    DEF WaitNSteps, WaitNBadHandle, WaitNHandle, WaitNDone, InWaitN, Register1, IInv,
        KernelTypeOK, ThreadsTypeOK
  <2>2. UNCHANGED threads => \A k \in Slot : SameThread(k)
    BY DEF SameThread
  <2>3. CASE WaitNBadHandle
    BY <2>1, <2>2, <2>3, AnswerKeepsRegisters DEF WaitNBadHandle, ReturnFromWaitN
  <2>4. CASE WaitNHandle
    BY <1>1, <2>1, <2>2, <2>4, AnswerKeepsRegisters DEF WaitNHandle, ReturnFromWaitN
  <2>5. CASE WaitNDone /\ threads' = threads
    BY <1>1, <2>1, <2>2, <2>5, AnswerKeepsRegisters DEF WaitNDone
  <2>6. CASE WaitNDone /\ Suspend(call.list, call.all) /\ UNCHANGED <<s, answer>>
    <3>1. \A k \in Slot : SameThread(k)
      BY <2>1, <2>6, SuspendFrame
    <3>2. UNCHANGED <<num_threads, current_thread>> /\ Live \subseteq Slot
      BY <2>6, LiveSlots DEF WaitNDone
    <3>3. QED
      BY <2>6, <3>1, <3>2 DEF SameThread, IInv, OwnRegisters, RegistersOf, Live
  <2>7. QED
    BY <1>5, <2>3, <2>4, <2>5, <2>6 DEF WaitNSteps, WaitNDone
<1>6. CASE GuestCall
  <2>a. pc = "run" /\ current_thread \in Slot /\ Other \in Register1
    BY <1>6, TurnFacts DEF GuestCall, MakesCall, Register1
  <2>b. UNCHANGED threads => \A k \in Slot : SameThread(k)
    BY DEF SameThread
  <2>1. CASE (\A k \in Slot : SameThread(k)) /\ Returns /\ UNCHANGED num_threads
    BY <2>a, <2>1, AnswerKeepsRegisters DEF Returns
  <2>2. ASSUME NEW p \in Priorities, svcCreateThread(p) PROVE OwnRegisters'
    BY <2>a, <2>2, CreateKeepsRegisters
  <2>3. CASE svcExitThread
    BY <2>a, <2>1, <2>3, StateFrame DEF svcExitThread
  <2>4. ASSUME NEW h, NEW p, svcSetThreadPriority(h, p) PROVE OwnRegisters'
    BY <2>1, <2>4, PriorityFrame DEF svcSetThreadPriority
  <2>5. ASSUME NEW h, svcCloseHandle(h) PROVE OwnRegisters'
    BY <2>1, <2>5, CloseFrame DEF svcCloseHandle
  <2>6. ASSUME NEW h, NEW a, NEW n, svcArbitrateFree(h, a, n) PROVE OwnRegisters'
    BY <2>1, <2>6, ArbitrateFreeFrame DEF svcArbitrateFree
  <2>7. ASSUME NEW h, NEW a, NEW d, NEW v, svcArbitrateAcquire(h, a, d, v) PROVE OwnRegisters'
    BY <2>a, <2>1, <2>7, ArbitrateAcquireFrame DEF svcArbitrateAcquire
  <2>8. ASSUME NEW h \in Existing, svcWaitSynchronization1(h) PROVE OwnRegisters'
    <3>1. \A k \in Slot : SameThread(k)
      BY <2>a, <2>b, <2>8, SuspendFrame DEF svcWaitSynchronization1
    <3>2. QED
      BY <2>1, <2>8, <3>1 DEF svcWaitSynchronization1
  <2>9. ASSUME NEW l, NEW all, svcWaitSynchronizationN(l, all) PROVE OwnRegisters'
    BY <2>a, <2>b, <2>9, AnswerKeepsRegisters DEF svcWaitSynchronizationN
  <2>10. QED
    BY <1>6, <2>b, <2>1, <2>2, <2>3, <2>4, <2>5, <2>6, <2>7, <2>8, <2>9
    DEF GuestCall, ThreadsUnchanged, svcSleepThread, svcDuplicateHandle, svcCreateMutex,
        svcReleaseMutex, svcCreateSemaphore, svcReleaseSemaphore, svcCreateEvent,
        svcSignalEvent, svcClearEvent, GPURegisterInterruptRelayQueue,
        RegisterInterruptEvents, TriggerCmdReqQueue, svcCreateAddressArbiter, Store
<1>7. QED
  BY <1>1, <1>4, <1>5, <1>6 DEF Next, vars

-----------------------------------------------------------------------------
(* The emulator starts with one thread, which holds nothing.               *)
LEMMA InitInvariant == Init => IInv
<1> SUFFICES ASSUME Init PROVE IInv
  OBVIOUS
<1> USE MaxHandlesAssumption, MaxThreadsAssumption DEF Init, ThreadsInit
<1>1. 1 \in Handle /\ 2 \in Handle /\ 0 \in Slot /\ 0 \in Buffer /\ NoHandle \notin Handle
  BY DEF Handle, Slot, Buffer, NoHandle
<1>2. /\ Len(handles) = 2 /\ handles \in Seq(HandleInfo)
      /\ handles[1].type = "process" /\ handles[1].root = 1
      /\ handles[2].type = "thread" /\ handles[2].root = 2
  BY <1>1 DEF HandleInfo, ObjectType, LockType
<1>3. HandlesTypeOK
  BY <1>2 DEF HandlesTypeOK
<1>4. \A k \in Slot : UnusedThread(k) \in Thread
  BY DEF UnusedThread, Thread, Registers, Buffer, Slot, NoHandle, Register1, Other
<1>5. /\ threads \in [Slot -> Thread]
      /\ threads[0].handle = 2 /\ threads[0].state = "RUNNING"
  <2> DEFINE th == [UnusedThread(0) EXCEPT !.handle = 2, !.priority = DefaultPriority]
  <2>a. UnusedThread(0) \in Thread /\ DefaultPriority \in Int
    BY <1>1, <1>4 DEF DefaultPriority
  <2>b. th \in Thread
    BY <1>1, <2>a DEF Thread
  <2>1. th \in Thread /\ th.handle = 2 /\ th.state = "RUNNING"
    BY <2>b DEF UnusedThread
  <2>2. threads = [k \in Slot |-> IF k = 0 THEN th ELSE UnusedThread(k)]
    OBVIOUS
  <2> HIDE DEF th
  <2>3. QED
    <3>1. 0 \in Slot
      BY <1>1
    <3>2. threads[0] = th
      BY <2>2, <3>1
    <3>3. \A k \in Slot : (IF k = 0 THEN th ELSE UnusedThread(k)) \in Thread
      BY <1>4, <2>1
    <3>4. threads \in [Slot -> Thread]
      BY <2>2, <3>3
    <3>5. QED
      BY <2>1, <3>2, <3>4
<1>6. ThreadsTypeOK
  <2>1. /\ held \in [Handle -> SUBSET Handle] /\ told \in [Handle -> SUBSET Handle]
        /\ answer \in [Handle -> Register1]
    BY DEF Register1
  <2>2. s \in [of : Handle \cup {NoHandle}, r1 : Register1, servaddr : Buffer]
    BY <1>1 DEF Register1
  <2>3. num_threads \in 0 .. MaxThreads /\ t \in 0 .. MaxThreads /\ i \in Nat
    OBVIOUS
  <2>4. QED
    BY <1>1, <1>5, <2>1, <2>2, <2>3 DEF ThreadsTypeOK
<1>7. <<>> \in Seq(Handle) /\ KernelTypeOK
  BY <1>3, <1>6 DEF KernelTypeOK
<1>8. Live = {0}
  BY DEF Live
<1>9. SweepInv
  BY <1>8 DEF SweepInv
<1>10. TableInv
  BY <1>2, <1>5, <1>8 DEF TableInv, NoHandle
<1>11. LockInv
  BY DEF LockInv, MutualExclusion
<1>12. OwnRegisters
  BY <1>1, <1>5, <1>8 DEF OwnRegisters, RegistersOf
<1>13. QED
  BY <1>7, <1>9, <1>10, <1>11, <1>12 DEF IInv

(* IInv is an invariant of the kernel: the initial states have it, and     *)
(* every step of the scheduler and of a system call keeps each of its      *)
(* parts.                                                                  *)
THEOREM Invariance == Spec => []IInv
<1>1. Init => IInv
  BY InitInvariant
<1>2. IInv /\ [Next]_vars => IInv'
  BY TypeStep, SweepStep, TableStep, LockStep, RegistersStep DEF IInv
<1>3. QED
  BY <1>1, <1>2, PTL DEF Spec

(* The handle table, the thread table, the CPU and the arguments of calls  *)
(* keep their types, however long the guest runs.                          *)
THEOREM TypeCorrect == Spec => []KernelTypeOK
<1>1. IInv => KernelTypeOK
  BY DEF IInv
<1>2. QED
  BY <1>1, Invariance, PTL

(* A thread's registers are its own across every switch, every wake-up and *)
(* every shift of the table (arm11_SaveContext, arm11_LoadContext,         *)
(* threads_IsThreadActive, threads_RemoveZombies).                         *)
THEOREM RegistersStayOwn == Spec => []OwnRegisters
<1>1. IInv => OwnRegisters
  BY DEF IInv
<1>2. QED
  BY <1>1, Invariance, PTL

(* A mutex is taken for one thread at a time (mutex_WaitSynchronization,   *)
(* svcReleaseMutex), if only a thread that holds one releases it.          *)
THEOREM MutexesExclude == Spec => []MutualExclusion
<1>1. IInv => MutualExclusion
  BY DEF IInv, LockInv
<1>2. QED
  BY <1>1, Invariance, PTL

(* Every handle in the wait list of a waiting thread is in the table and   *)
(* has the callback that threads_IsThreadActive is going to call.          *)
THEOREM WaitsCanBePolled == Spec => []WaitListsPollable
<1>1. IInv => WaitListsPollable
  <2> SUFFICES ASSUME IInv, NEW k \in Live, threads[k].state = "WAITING_SYNC",
                      NEW n \in 1 .. Len(threads[k].wait_list)
               PROVE  LET o == handle_Get(threads[k].wait_list[n])
                      IN  o # NoHandle /\ handles[o].type \notin {"process", "arbiter", "sharedmem"}
    BY DEF WaitListsPollable
  <2>1. Pollable(threads[k].wait_list[n])
    BY DEF IInv, TableInv
  <2>2. handles[threads[k].wait_list[n]].root \in Nat \ {0}
    BY <2>1 DEF Pollable, IInv, KernelTypeOK, HandlesTypeOK
  <2>3. QED
    BY <2>1, <2>2 DEF Pollable, HasWaitCallback, handle_Get, NoHandle
<1>2. QED
  BY <1>1, Invariance, PTL

(* Whoever makes a system call is the current thread, is in the table and  *)
(* is RUNNING.                                                             *)
THEOREM OnlyRunningThreadsCall == Spec => []OnlyRunningRuns
<1>1. IInv => OnlyRunningRuns
  BY DEF IInv, SweepInv, OnlyRunningRuns
<1>2. QED
  BY <1>1, Invariance, PTL

-----------------------------------------------------------------------------
(* What becomes of a thread.  Its slot keeps its handle and its command    *)
(* buffer; it stays stopped once it is; and only a call of                 *)
(* svcArbitrateAddress type 0 ends an arbitration.                         *)
ResumedByCall(k) ==
  /\ pc = "run"
  /\ \E h, a, n : /\ svcArbitrateFree(h, a, n) /\ IsArbiter(h)
                  /\ n \in -1 .. 2 /\ k \in Resumed(h, a, n)

KeepsThread(k) ==
  /\ threads'[k].handle = threads[k].handle
  /\ threads'[k].servaddr = threads[k].servaddr
  /\ threads[k].state = "STOPPED" => threads'[k].state = "STOPPED"
  /\ threads[k].state = "WAITING_ARB" /\ threads'[k].state = "RUNNING" => ResumedByCall(k)

TableGrows == /\ num_threads' \in {num_threads, num_threads + 1}
              /\ \A k \in Live : KeepsThread(k)

(* A polled thread that wakes was waiting, and no other slot changes.      *)
LEMMA WakeKeepsThreads ==
  ASSUME IInv, pc = "poll", NEW r1 \in Register1, Wake(t, r1)
  PROVE  TableGrows
<1>1. /\ t \in Live /\ Live \subseteq Slot /\ threads[t].state \in {"WAITING_SYNC", "RUNNING"}
      /\ num_threads' = num_threads
  BY LiveSlots DEF IInv, SweepInv, Wake
<1>2. /\ threads'[t].handle = threads[t].handle /\ threads'[t].servaddr = threads[t].servaddr
      /\ \A j \in Slot : j # t => threads'[j] = threads[j]
  BY <1>1, WakeEffect
<1>3. QED
  BY <1>1, <1>2 DEF TableGrows, KeepsThread

(* Saving the CPU's registers changes registers only.                      *)
LEMMA SaveKeepsThreads ==
  ASSUME IInv, NEW k \in Slot, threads' = SaveContext(k), num_threads' = num_threads
  PROVE  TableGrows
<1>1. /\ Live \subseteq Slot
      /\ \A j \in Slot : /\ threads'[j].state = threads[j].state
                         /\ threads'[j].handle = threads[j].handle
                         /\ threads'[j].servaddr = threads[j].servaddr
  BY LiveSlots, SaveContextEffect
<1>2. QED
  BY <1>1 DEF TableGrows, KeepsThread

(* A step keeps the threads if it changes nothing but states, and only     *)
(* that of a running thread or to STOPPED.                                 *)
LEMMA StateKeepsThreads ==
  ASSUME IInv, num_threads' = num_threads, \A k \in Slot : SameThread(k),
         \A k \in Slot : \/ threads'[k].state = threads[k].state
                         \/ threads'[k].state = "STOPPED"
                         \/ threads[k].state = "RUNNING"
  PROVE  TableGrows
<1>1. Live \subseteq Slot
  BY LiveSlots
<1>2. QED
  BY <1>1 DEF TableGrows, KeepsThread, SameThread

(* Stopping a thread is such a step.                                       *)
LEMMA StoppingKeepsThreads ==
  ASSUME IInv, num_threads' = num_threads, NEW id \in Slot,
         threads' = [threads EXCEPT ![id].state = "STOPPED"]
  PROVE  TableGrows
<1>1. threads \in [Slot -> Thread] /\ threads[id] \in Thread
  BY DEF IInv, KernelTypeOK, ThreadsTypeOK
<1> DEFINE th == [threads[id] EXCEPT !.state = "STOPPED"]
<1>2. th.state = "STOPPED"
  BY <1>1 DEF Thread
<1>3. threads' = [threads EXCEPT ![id] = th]
  OBVIOUS
<1> HIDE DEF th
<1>4. \A k \in Slot : threads'[k].state \in {threads[k].state, "STOPPED"}
  BY <1>1, <1>2, <1>3
<1>5. QED
  BY <1>4, StateFrame, StateKeepsThreads

(* A change of priority is no change of state.                             *)
LEMMA PriorityKeepsThreads ==
  ASSUME IInv, NEW h, NEW p, svcSetThreadPriority(h, p)
  PROVE  TableGrows
<1>1. threads \in [Slot -> Thread] /\ num_threads' = num_threads
  BY DEF IInv, KernelTypeOK, ThreadsTypeOK, svcSetThreadPriority
<1>2. PICK id : threads' = IF id = NoThread THEN threads
                           ELSE [threads EXCEPT ![id].priority = p]
  BY Zenon DEF svcSetThreadPriority
<1> DEFINE th(k) == [threads[k] EXCEPT !.priority = p]
<1>3. ASSUME NEW k \in Slot PROVE th(k).state = threads[k].state
  <2>1. threads[k] \in Thread
    BY <1>1
  <2>2. QED
    BY <2>1 DEF Thread
<1>4. threads' = threads \/ threads' = [threads EXCEPT ![id] = th(id)]
  BY <1>2
<1> HIDE DEF th
<1>5. \A k \in Slot : threads'[k].state = threads[k].state
  BY <1>1, <1>3, <1>4
<1>6. QED
  BY <1>1, <1>5, PriorityFrame, StateKeepsThreads

(* The current thread, which is RUNNING, starts to wait or to arbitrate.   *)
LEMMA SuspendKeepsThreads ==
  ASSUME IInv, pc \in {"run", "waitn"}, num_threads' = num_threads, NEW th,
         threads' = [threads EXCEPT ![current_thread] = th], \A k \in Slot : SameThread(k)
  PROVE  TableGrows
<1>1. /\ current_thread \in Slot /\ threads[current_thread].state = "RUNNING"
      /\ threads \in [Slot -> Thread]
  BY TurnFacts DEF IInv, SweepInv, KernelTypeOK, ThreadsTypeOK
<1>2. \A k \in Slot : threads'[k].state = threads[k].state \/ threads[k].state = "RUNNING"
  BY <1>1
<1>3. QED
  BY <1>2, StateKeepsThreads

(* svcArbitrateAddress type 0 changes those that it resumes.               *)
LEMMA ArbitrateKeepsThreads ==
  ASSUME IInv, pc = "run", NEW h, NEW a, NEW n \in -1 .. 2, svcArbitrateFree(h, a, n)
  PROVE  TableGrows
<1>1. threads \in [Slot -> Thread] /\ num_threads' = num_threads /\ Live \subseteq Slot
  BY LiveSlots DEF IInv, KernelTypeOK, ThreadsTypeOK, svcArbitrateFree
<1>2. ASSUME NEW k \in Live, IsArbiter(h), k \in Resumed(h, a, n)
      PROVE  KeepsThread(k)
  <2>1. threads[k].state = "WAITING_ARB" /\ SameThread(k)
    BY <1>1, <1>2, ArbitrateFreeFrame DEF Resumed, Arbitrated
  <2>2. ResumedByCall(k)
    BY <1>2 DEF ResumedByCall
  <2>3. QED
    BY <2>1, <2>2 DEF KeepsThread, SameThread
<1>3. ASSUME NEW k \in Live, ~(IsArbiter(h) /\ k \in Resumed(h, a, n))
      PROVE  KeepsThread(k)
  <2>1. threads'[k] = threads[k]
    BY <1>1, <1>3 DEF svcArbitrateFree
  <2>2. QED
    BY <2>1 DEF KeepsThread
<1>4. QED
  BY <1>1, <1>2, <1>3 DEF TableGrows

(* A new thread gets a slot that no other one is in.                       *)
LEMMA CreateKeepsThreads ==
  ASSUME IInv, NEW p, svcCreateThread(p)
  PROVE  TableGrows
<1>1. /\ threads \in [Slot -> Thread] /\ num_threads' = num_threads + 1 /\ Live \subseteq Slot
      /\ num_threads \notin Live /\ num_threads \in Nat
  BY LiveSlots DEF IInv, KernelTypeOK, ThreadsTypeOK, svcCreateThread, Live
<1> DEFINE th == [threads[num_threads] EXCEPT !.handle = NextHandle, !.priority = p,
                    !.state = "RUNNING", !.wait_list = <<>>, !.regs.of = NextHandle]
<1>2. threads' = [threads EXCEPT ![num_threads] = th]
  <2>1. num_threads \in Slot /\ threads[num_threads] \in Thread
    BY LiveSlots DEF IInv, KernelTypeOK, ThreadsTypeOK, svcCreateThread, RoomForThread, Slot
  <2>2. QED
    BY <1>1, <2>1 DEF svcCreateThread, Thread, Registers
<1> HIDE DEF th
<1>3. \A k \in Live : threads'[k] = threads[k]
  BY <1>1, <1>2
<1>4. QED
  BY <1>1, <1>3 DEF TableGrows, KeepsThread

(* Every step but the removal of a stopped thread keeps all the threads in *)
(* their slots.                                                            *)
LEMMA ThreadsStep ==
  ASSUME IInv, [Next]_vars
  PROVE  TableGrows \/ RemoveZombie
<1> USE DEF threadVars
<1>1. ASSUME threads' = threads, num_threads' = num_threads
      PROVE  TableGrows
  BY <1>1 DEF TableGrows, KeepsThread
<1>2. CASE PollHandle
  <2>1. i \in Register1
    BY DEF Register1, IInv, KernelTypeOK, ThreadsTypeOK
  <2>2. QED
    BY <1>1, <1>2, <2>1, WakeKeepsThreads DEF PollHandle
<1>3. CASE PollDone
  <2>1. threads[t] \in Thread
    BY <1>3, TurnFacts DEF PollDone
  <2>2. Len(threads[t].wait_list) \in Register1
    BY <2>1 DEF Thread, Register1
  <2>3. QED
    BY <1>1, <1>3, <2>2, WakeKeepsThreads DEF PollDone
<1>4. CASE threads_Switch \/ EndSweep
  <2>1. current_thread \in Slot \cup {NoThread}
    BY DEF IInv, KernelTypeOK, ThreadsTypeOK
  <2>2. QED
    BY <1>1, <1>4, <2>1, SaveKeepsThreads DEF threads_Switch, EndSweep
<1>5. CASE Scheduler
  BY <1>1, <1>2, <1>3, <1>4, <1>5
  DEF Scheduler, SkipSlot, RunSlot, StartPoll, NextSweep
<1>6. CASE WaitNSteps
  <2>1. CASE WaitNDone /\ Suspend(call.list, call.all)
    <3>1. pc = "waitn" /\ current_thread \in Slot /\ num_threads' = num_threads
      BY <2>1, TurnFacts DEF WaitNDone
    <3>2. \A k \in Slot : SameThread(k)
      BY <2>1, <3>1, SuspendFrame
    <3>3. PICK th : threads' = [threads EXCEPT ![current_thread] = th]
      BY <2>1 DEF Suspend
    <3>4. QED
      BY <3>1, <3>2, <3>3, SuspendKeepsThreads
  <2>2. QED
    BY <1>1, <1>6, <2>1 DEF WaitNSteps, WaitNBadHandle, WaitNHandle, WaitNDone
<1>7. CASE GuestCall
  <2>a. pc = "run" /\ current_thread \in Slot
    BY <1>7, TurnFacts DEF GuestCall, MakesCall
  <2>1. ASSUME NEW p, svcCreateThread(p) PROVE TableGrows
    BY <2>1, CreateKeepsThreads
  <2>2. CASE svcExitThread
    BY <2>a, <2>2, StoppingKeepsThreads DEF svcExitThread
  <2>3. ASSUME NEW h, NEW p, svcSetThreadPriority(h, p) PROVE TableGrows
    BY <2>3, PriorityKeepsThreads
  <2>4. ASSUME NEW h, svcCloseHandle(h) PROVE TableGrows
    <3>1. num_threads' = num_threads
      BY <2>4 DEF svcCloseHandle
    <3>2. \/ threads' = threads
          \/ /\ threads_FindIdByHandle(h) \in Slot
             /\ threads' = [threads EXCEPT ![threads_FindIdByHandle(h)].state = "STOPPED"]
      BY <2>4, FindThread, Zenon DEF svcCloseHandle
    <3>3. CASE threads' = threads
      BY <1>1, <3>1, <3>3
    <3>4. QED
      BY <3>1, <3>2, <3>3, StoppingKeepsThreads
  <2>5. ASSUME NEW h, NEW a, NEW n \in -1 .. 2, svcArbitrateFree(h, a, n) PROVE TableGrows
    BY <2>a, <2>5, ArbitrateKeepsThreads
  <2>6. ASSUME NEW h, NEW a, NEW d, NEW v, svcArbitrateAcquire(h, a, d, v) PROVE TableGrows
    <3>1. num_threads' = num_threads /\ \A k \in Slot : SameThread(k)
      BY <2>a, <2>6, ArbitrateAcquireFrame DEF svcArbitrateAcquire
    <3>2. \/ threads' = threads
          \/ \E th : threads' = [threads EXCEPT ![current_thread] = th]
      <4>1. threads \in [Slot -> Thread] /\ threads[current_thread] \in Thread
        BY <2>a DEF IInv, KernelTypeOK, ThreadsTypeOK
      <4> DEFINE th == [threads[current_thread] EXCEPT !.state = "WAITING_ARB",
                          !.arb_addr = a, !.arb_handle = h]
      <4>2. threads' = threads \/ threads' = [threads EXCEPT ![current_thread] = th]
        BY <2>a, <2>6, <4>1 DEF svcArbitrateAcquire, Thread
      <4>3. QED
        BY <4>2
    <3>3. CASE threads' = threads
      BY <1>1, <3>1, <3>3
    <3>4. QED
      BY <2>a, <3>1, <3>2, <3>3, SuspendKeepsThreads
  <2>7. ASSUME NEW h, svcWaitSynchronization1(h) PROVE TableGrows
    <3>1. num_threads' = num_threads /\ (threads' = threads \/ Suspend(<<h>>, TRUE))
      BY <2>7 DEF svcWaitSynchronization1
    <3>2. CASE Suspend(<<h>>, TRUE)
      <4>1. \A k \in Slot : SameThread(k)
        BY <2>a, <3>2, SuspendFrame
      <4>2. PICK th : threads' = [threads EXCEPT ![current_thread] = th]
        BY <3>2 DEF Suspend
      <4>3. QED
        BY <2>a, <3>1, <4>1, <4>2, SuspendKeepsThreads
    <3>3. CASE threads' = threads
      BY <1>1, <3>1, <3>3
    <3>4. QED
      BY <3>1, <3>2, <3>3
  <2>8. QED
    BY <1>1, <1>7, <2>1, <2>2, <2>3, <2>4, <2>5, <2>6, <2>7
    DEF GuestCall, ThreadsUnchanged, svcSleepThread, svcDuplicateHandle, svcCreateMutex,
        svcReleaseMutex, svcCreateSemaphore, svcReleaseSemaphore, svcCreateEvent,
        svcSignalEvent, svcClearEvent, GPURegisterInterruptRelayQueue,
        RegisterInterruptEvents, TriggerCmdReqQueue, svcCreateAddressArbiter, Store,
        svcWaitSynchronizationN
<1>8. QED
  BY <1>1, <1>5, <1>6, <1>7 DEF Next, vars

(* A slot that still holds a thread after the step holds it under the same *)
(* handle, and no other slot does.                                         *)
LEMMA SameSlot ==
  ASSUME IInv, [Next]_vars, TableGrows, NEW k \in Live, NEW j \in Live',
         threads'[j].handle = threads[k].handle
  PROVE  j = k
<1>1. k \in Live'
  BY LiveSlots DEF TableGrows, Live
<1>2. threads'[k].handle = threads'[j].handle
  BY DEF TableGrows, KeepsThread
<1>3. TableInv'
  BY TableStep
<1>4. QED
  BY <1>1, <1>2, <1>3 DEF TableInv

(* A thread leaves the table only once it is stopped, stays stopped, and   *)
(* keeps its command buffer wherever threads_RemoveZombies moves it.       *)
THEOREM ThreadsLiveOn == Spec => ThreadLifecycle
<1>1. ASSUME IInv, [Next]_vars
      PROVE  ThreadStep
  <2> SUFFICES ASSUME NEW k \in Live
               PROVE  /\ threads[k].state # "STOPPED" =>
                           \E j \in Live' : threads'[j].handle = threads[k].handle
                      /\ \A j \in Live' : threads'[j].handle = threads[k].handle =>
                           /\ threads[k].state = "STOPPED" => threads'[j].state = "STOPPED"
                           /\ threads'[j].servaddr = threads[k].servaddr
    BY DEF ThreadStep, Live
  <2>1. CASE TableGrows
    <3>1. k \in Live' /\ KeepsThread(k)
      BY <1>1, <2>1, LiveSlots DEF TableGrows, Live
    <3>2. QED
      BY <1>1, <2>1, <3>1, SameSlot DEF KeepsThread
  <2>2. CASE RemoveZombie
    <3>1. PICK id \in Live :
            /\ threads[id].state = "STOPPED"
            /\ \A j \in Live' : From(id, j) \in Live /\ threads'[j] = threads[From(id, j)]
            /\ \A j \in Live : j = id \/ \E m \in Live' : From(id, m) = j
      BY <1>1, <2>2, RemoveShift
    <3>2. ASSUME NEW j \in Live', threads'[j].handle = threads[k].handle
          PROVE  threads'[j] = threads[k]
      <4> DEFINE m == From(id, j)
      <4>1. m \in Live /\ threads'[j] = threads[m]
        BY <3>1
      <4> HIDE DEF m
      <4>2. m = k
        BY <1>1, <3>2, <4>1 DEF IInv, TableInv
      <4>3. QED
        BY <4>1, <4>2
    <3>3. QED
      BY <3>1, <3>2
  <2>3. QED
    BY <1>1, <2>1, <2>2, ThreadsStep
<1>2. QED
  BY <1>1, Invariance, PTL DEF Spec, ThreadLifecycle

(* Of two threads that arbitrate on the same address, the one with the     *)
(* better priority has no more threads ahead of it: whatever resumes the   *)
(* other one resumes it too.                                               *)
LEMMA BetterIsResumed ==
  ASSUME IInv, NEW h, NEW a, NEW n \in -1 .. 2, NEW k \in Resumed(h, a, n),
         NEW m \in Arbitrated(h, a), threads[m].priority < threads[k].priority
  PROVE  m \in Resumed(h, a, n)
<1> DEFINE W == Arbitrated(h, a)
           before(j) == {l \in W : Ahead(l, j)}
<1>1. W \subseteq Live /\ k \in W /\ m \in W
  BY DEF Resumed, Arbitrated
<1>2. \A l \in W : threads[l].priority \in Int
  BY <1>1, LiveSlots DEF Thread
<1>3. before(m) \subseteq before(k)
  BY <1>1, <1>2 DEF Ahead
<1>4. IsFiniteSet(before(k))
  <2>1. IsFiniteSet(Live)
    BY LiveSlots, FS_Interval DEF Live
  <2>2. before(k) \subseteq Live
    BY <1>1
  <2> HIDE DEF before
  <2>3. QED
    BY <2>1, <2>2, FS_Subset
<1> HIDE DEF before
<1>5. /\ Cardinality(before(m)) \in Nat /\ Cardinality(before(k)) \in Nat
      /\ Cardinality(before(m)) <= Cardinality(before(k))
  <2>1. IsFiniteSet(before(m)) /\ Cardinality(before(m)) <= Cardinality(before(k))
    BY <1>3, <1>4, FS_Subset
  <2>2. QED
    BY <1>4, <2>1, FS_CardinalityType
<1>6. n < 0 \/ Cardinality(before(k)) < n
  BY DEF Resumed, before
<1>7. n < 0 \/ Cardinality(before(m)) < n
  BY <1>5, <1>6
<1>8. QED
  BY <1>1, <1>7 DEF Resumed, before

(* A thread suspended on an address is resumed only by another thread's    *)
(* svcArbitrateAddress type 0, and never before one with a better priority *)
(* that waits on the same address (threads_ArbitrateHighestPrioThread).    *)
THEOREM ResumesInOrder == Spec => ResumedInOrder
<1>1. ASSUME IInv, [Next]_vars
      PROVE  ArbitrationStep
  <2> SUFFICES ASSUME NEW k \in Live, threads[k].state = "WAITING_ARB",
                      NEW j \in Live', threads'[j].handle = threads[k].handle,
                      threads'[j].state = "RUNNING"
               PROVE  /\ pc = "run" /\ k # current_thread
                      /\ \A m \in Live : /\ threads[m].state = "WAITING_ARB"
                                         /\ threads[m].arb_handle = threads[k].arb_handle
                                         /\ threads[m].arb_addr = threads[k].arb_addr
                                         /\ threads[m].priority < threads[k].priority
                                         => \E l \in Live' : /\ threads'[l].handle = threads[m].handle
                                                             /\ threads'[l].state = "RUNNING"
    BY DEF ArbitrationStep, ResumedBy, Live
  <2>1. CASE TableGrows
    <3>1. j = k /\ KeepsThread(k)
      BY <1>1, <2>1, SameSlot DEF TableGrows
    <3>2. ResumedByCall(k)
      BY <3>1 DEF KeepsThread
    <3>3. PICK h, a, n : /\ svcArbitrateFree(h, a, n) /\ IsArbiter(h)
                         /\ n \in -1 .. 2 /\ k \in Resumed(h, a, n)
      BY <3>2, Zenon DEF ResumedByCall
    <3>4. pc = "run" /\ k # current_thread
      BY <1>1, <3>2 DEF ResumedByCall, IInv, SweepInv
    <3>5. ASSUME NEW m \in Live, threads[m].state = "WAITING_ARB",
                 threads[m].arb_handle = threads[k].arb_handle,
                 threads[m].arb_addr = threads[k].arb_addr,
                 threads[m].priority < threads[k].priority
          PROVE  /\ m \in Live' /\ threads'[m].handle = threads[m].handle
                 /\ threads'[m].state = "RUNNING"
      <4>1. m \in Arbitrated(h, a)
        <5>1. threads[m].priority \in Int /\ threads[k].priority \in Int
          BY <1>1, LiveSlots DEF Thread
        <5>2. QED
          BY <3>3, <3>5, <5>1 DEF Resumed, Arbitrated, LowestPriority
      <4>2. m \in Resumed(h, a, n)
        BY <1>1, <3>3, <3>5, <4>1, BetterIsResumed
      <4>3. m \in Slot /\ m \in Live' /\ threads'[m].handle = threads[m].handle
        BY <1>1, <2>1, LiveSlots DEF TableGrows, KeepsThread, Live
      <4>4. threads'[m] = [threads[m] EXCEPT !.state = "RUNNING",
                                             !.arb_handle = NoHandle, !.arb_addr = 0]
        BY <3>3, <4>2, <4>3 DEF svcArbitrateFree
      <4>5. threads[m] \in Thread
        BY <1>1, <4>3, LiveSlots
      <4>6. QED
        BY <4>3, <4>4, <4>5 DEF Thread
    <3>6. QED
      BY <3>4, <3>5
  <2>2. CASE RemoveZombie
    <3>1. PICK id \in Live :
            \A l \in Live' : From(id, l) \in Live /\ threads'[l] = threads[From(id, l)]
      BY <1>1, <2>2, RemoveShift
    <3> DEFINE m == From(id, j)
    <3>2. m \in Live /\ threads'[j] = threads[m]
      BY <3>1
    <3> HIDE DEF m
    <3>3. m = k
      BY <1>1, <3>2 DEF IInv, TableInv
    <3>4. QED
      BY <3>2, <3>3
  <2>3. QED
    BY <1>1, <2>1, <2>2, ThreadsStep
<1>2. QED
  BY <1>1, Invariance, PTL DEF Spec, ResumedInOrder

(* Every step but a switch leaves the buffer that the CPU has, and the     *)
(* current thread at most stops being one.                                 *)
LEMMA BufferFrame ==
  ASSUME IInv, [Next]_vars, ~ (threads_Switch /\ current_thread # t)
  PROVE  /\ s'.servaddr = s.servaddr
         /\ current_thread' \in {current_thread, NoThread}
         /\ num_threads' = num_threads + 1 => current_thread \in Live
<1> USE DEF threadVars
<1>1. ASSUME NEW r1, s' = [s EXCEPT !.r1 = r1] PROVE s'.servaddr = s.servaddr
  BY <1>1 DEF IInv, KernelTypeOK, ThreadsTypeOK
<1>2. num_threads \in Nat
  BY LiveSlots
<1>3. CASE Scheduler
  <2>1. UNCHANGED s \/ \E r1 : s' = [s EXCEPT !.r1 = r1]
    BY <1>3 DEF Scheduler, SkipSlot, RunSlot, StartPoll, NextSweep, PollHandle, PollDone, Wake,
                threads_Switch, EndSweep, RemoveZombie
  <2>2. current_thread' \in {current_thread, NoThread} /\ num_threads' # num_threads + 1
    BY <1>2, <1>3 DEF Scheduler, SkipSlot, RunSlot, StartPoll, NextSweep, PollHandle, PollDone,
                Wake, threads_Switch, EndSweep, RemoveZombie
  <2>3. QED
    BY <1>1, <2>1, <2>2
<1>4. CASE WaitNSteps
  <2>1. UNCHANGED s \/ \E r1 : s' = [s EXCEPT !.r1 = r1]
    BY <1>4 DEF WaitNSteps, WaitNBadHandle, WaitNHandle, WaitNDone, ReturnFromWaitN, SetR1
  <2>2. UNCHANGED <<current_thread, num_threads>>
    BY <1>4 DEF WaitNSteps, WaitNBadHandle, WaitNHandle, WaitNDone
  <2>3. QED
    BY <1>1, <1>2, <2>1, <2>2
<1>5. CASE GuestCall
  <2>1. \E r1 : s' = [s EXCEPT !.r1 = r1]
    BY <1>5
    DEF GuestCall, Returns, SetR1, svcCreateThread, svcExitThread, svcSleepThread,
        svcSetThreadPriority, svcCloseHandle, svcDuplicateHandle, svcCreateMutex,
        svcReleaseMutex, svcCreateSemaphore, svcReleaseSemaphore, svcCreateEvent,
        svcSignalEvent, svcClearEvent, GPURegisterInterruptRelayQueue,
        RegisterInterruptEvents, TriggerCmdReqQueue, svcCreateAddressArbiter,
        svcArbitrateFree, svcArbitrateAcquire, Store, svcWaitSynchronization1,
        svcWaitSynchronizationN
  <2>2. current_thread' = current_thread /\ current_thread \in Live
    BY <1>5, CallTurn, TurnFacts DEF GuestCall, MakesCall
  <2>3. QED
    BY <1>1, <2>1, <2>2
<1>6. CASE UNCHANGED vars
  BY <1>2, <1>6 DEF vars
<1>7. QED
  BY <1>3, <1>4, <1>5, <1>6 DEF Next

(* The buffer the CPU has is that of the slot whose registers it has: it   *)
(* is loaded with them, and no other step changes either of the two.       *)
LEMMA BufferStep ==
  ASSUME IInv, OwnBuffer, [Next]_vars
  PROVE  OwnBuffer'
<1>1. CASE RemoveZombie
  <2>1. PICK id \in Live :
          \A k \in Live' : From(id, k) \in Live /\ threads'[k] = threads[From(id, k)]
    BY <1>1, RemoveShift
  <2>2. current_thread' = current_thread /\ s' = s /\ num_threads' = num_threads - 1
    BY <1>1 DEF RemoveZombie
  <2>3. current_thread' \notin Live'
    <3>1. num_threads \in Nat /\ id \in Live
      BY LiveSlots
    <3>2. CASE num_threads > 1
      BY <1>1, <2>2, <3>2 DEF RemoveZombie, IInv, SweepInv, Live, NoThread
    <3>3. CASE ~ (num_threads > 1)
      BY <2>2, <3>1, <3>3 DEF Live
    <3>4. QED
      BY <3>2, <3>3
  <2>4. QED
    BY <2>3 DEF OwnBuffer
<1>2. CASE threads_Switch /\ current_thread # t
  <2>1. /\ t \in Live /\ t \in Slot /\ current_thread \in Slot \cup {NoThread}
        /\ threads[t] \in Thread
    BY <1>2, TurnFacts DEF threads_Switch, IInv, KernelTypeOK, ThreadsTypeOK
  <2>2. current_thread' = t /\ s'.servaddr = threads[t].servaddr
    BY <1>2 DEF threads_Switch, LoadContext
  <2>3. threads'[t].servaddr = threads[t].servaddr
    BY <1>2, <2>1, SaveContextEffect DEF threads_Switch
  <2>4. QED
    BY <2>2, <2>3 DEF OwnBuffer
<1>3. CASE TableGrows /\ ~ (threads_Switch /\ current_thread # t)
  <2>1. CASE current_thread' = current_thread /\ current_thread \in Live
    BY <1>3, <2>1, BufferFrame DEF OwnBuffer, TableGrows, KeepsThread
  <2>2. CASE current_thread' = current_thread /\ current_thread \notin Live
    <3>1. num_threads' = num_threads
      BY <1>3, <2>2, BufferFrame DEF TableGrows
    <3>2. QED
      BY <2>2, <3>1 DEF OwnBuffer, Live
  <2>3. CASE current_thread' = NoThread
    BY <2>3 DEF OwnBuffer, Live, NoThread
  <2>4. QED
    BY <1>3, <2>1, <2>2, <2>3, BufferFrame
<1>4. QED
  BY <1>1, <1>2, <1>3, ThreadsStep

(* A thread in its turn uses the command buffer of its own slot's entry    *)
(* (arm11_LoadContext, CommonMemSetup, threads_RemoveZombies).             *)
THEOREM BuffersStayOwn == Spec => []OwnBuffer
<1>1. Init => OwnBuffer
  <2> SUFFICES ASSUME Init PROVE s.servaddr = threads[0].servaddr
    BY DEF Init, ThreadsInit, OwnBuffer
  <2>1. 0 \in Slot
    BY MaxThreadsAssumption DEF Slot
  <2>2. QED
    BY <2>1 DEF Init, ThreadsInit, UnusedThread
<1>2. IInv /\ OwnBuffer /\ [Next]_vars => OwnBuffer'
  BY BufferStep
<1>3. QED
  BY <1>1, <1>2, Invariance, PTL DEF Spec
=============================================================================
