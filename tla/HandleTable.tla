---------------------------- MODULE HandleTable ----------------------------
(***************************************************************************)
(* The kernel handle table (src/handles.c) and the wait callbacks of the   *)
(* kernel objects a guest can block on: mutexes and semaphores             *)
(* (src/syscalls/syn.c), events (src/syscalls/events.c) and threads        *)
(* (src/arm11/threads.c).                                                  *)
(*                                                                         *)
(* Handle values are the table's indices: handle h stands for              *)
(* HANDLES_BASE + h - 1, and 0 for any value that is in no entry.  The     *)
(* table only grows: svcCloseHandle never clears "taken", and handle_New   *)
(* exits the emulator once MAX_NUM_HANDLES entries are in use.             *)
(***************************************************************************)
EXTENDS Naturals, Sequences

CONSTANT MaxHandles           \* MAX_NUM_HANDLES

\* main() itself takes the first two entries.
ASSUME MaxHandlesAssumption == MaxHandles \in Nat /\ MaxHandles >= 2

VARIABLE handles              \* the entries in use, handles[1 .. handles_num]

Handle == 1 .. MaxHandles
NoHandle == 0

ObjectType == {"process", "thread", "mutex", "event", "semaphore", "arbiter", "sharedmem"}
LockType == {"oneshot", "sticky", "pulse"}

(***************************************************************************)
(* A handleinfo.  "root" is the entry a handle_Get of this one ends at:    *)
(* the entry itself, or for a HANDLE_TYPE_REDIR the root of its subtype.   *)
(* handle_Get walks the chain at every call; no entry's type or subtype is *)
(* ever rewritten, so every walk ends where the first one did.             *)
(* A redirection's other fields are those handle_New gives it; nothing     *)
(* reads them.  users and limit are misc[0] and misc[1] of a semaphore.    *)
(***************************************************************************)
HandleInfo == [type     : ObjectType \cup {"redir"},
               root     : Handle,
               locked   : BOOLEAN,
               locktype : LockType,
               users    : Nat,
               limit    : Nat]

HandlesTypeOK == /\ handles \in Seq(HandleInfo)
                 /\ Len(handles) <= MaxHandles
                 /\ \A h \in 1 .. Len(handles) :
                      /\ handles[h].root \in 1 .. h
                      /\ handles[handles[h].root].type # "redir"
                      /\ handles[h].type # "redir" => handles[h].root = h

-----------------------------------------------------------------------------
(* The handle the next handle_New returns, and the entry it fills in. *)
NextHandle == Len(handles) + 1

NewInfo(type) == [type     |-> type,
                  root     |-> NextHandle,
                  locked   |-> FALSE,
                  locktype |-> "sticky",
                  users    |-> 0,
                  limit    |-> 0]

(* handle_New followed by its caller's initialisation of the entry.  With  *)
(* a full table the emulator exits: the step is not taken.                 *)
handle_New(info) == /\ Len(handles) < MaxHandles
                    /\ handles' = Append(handles, info)

(* The entry a handle stands for, NoHandle for NULL.                       *)
(* Mutant: a redirection is not followed.                                  *)
handle_GetEntry(h) == IF h \in 1 .. Len(handles) THEN h ELSE NoHandle

handle_Get(h) == IF h \in 1 .. Len(handles) THEN handles[h].root ELSE NoHandle

OfType(type) == {h \in 1 .. Len(handles) : handles[handles[h].root].type = type}

-----------------------------------------------------------------------------
(* The types whose row of handle_types has an fnWaitSynchronization.       *)
(* Mutant: the row's callback is not tested for NULL.                      *)
HasAnyCallback(info) == info.type # "redir"

HasWaitCallback(info) == info.type \in {"thread", "mutex", "event", "semaphore"}

(* What fnWaitSynchronization answers in *locked. *)
IsWaiting(info) ==
  IF info.type = "semaphore" THEN info.users >= info.limit ELSE info.locked

(* mutex_WaitSynchronization takes a free mutex, event_WaitSynchronization *)
(* consumes any event that is not sticky, semaphore_WaitSynchronization    *)
(* counts one more user if there is room, and thread_WaitSynchronization   *)
(* changes nothing.                                                        *)
(* Mutant: mutex_WaitSynchronization only looks at the lock.               *)
AfterWaitUntaken(info) ==
  CASE info.type = "event" /\ info.locktype # "sticky" -> [info EXCEPT !.locked = TRUE]
    [] info.type = "semaphore" /\ ~IsWaiting(info) -> [info EXCEPT !.users = @ + 1]
    [] OTHER -> info

AfterWait(info) ==
  CASE info.type = "mutex" -> [info EXCEPT !.locked = TRUE]
    [] info.type = "event" /\ info.locktype # "sticky" -> [info EXCEPT !.locked = TRUE]
    [] info.type = "semaphore" /\ ~IsWaiting(info) -> [info EXCEPT !.users = @ + 1]
    [] OTHER -> info

(* One call of fnWaitSynchronization on the entry o. *)
fnWaitSynchronization(o) == handles' = [handles EXCEPT ![o] = AfterWait(@)]

SetLocked(o, b) == handles' = [handles EXCEPT ![o].locked = b]

(* The table with all of the objects given unlocked. *)
Unlocked(objects) ==
  [h \in 1 .. Len(handles) |->
     IF h \in objects THEN [handles[h] EXCEPT !.locked = FALSE] ELSE handles[h]]
=============================================================================
