------------------------------ MODULE MCKernel ------------------------------
(***************************************************************************)
(* Instances of Kernel for TLC.  A run that is not about creating objects  *)
(* starts where the first thread has just created them and the others, at  *)
(* the beginning of a sweep.                                               *)
(***************************************************************************)
EXTENDS Kernel

CONSTANTS StartThreads,       \* threads in the table at the start, the first included
          StartObjects        \* the handle entries that follow theirs

Info(type, locked, locktype, users, limit) ==
  [type |-> type, root |-> 0, locked |-> locked, locktype |-> locktype,
   users |-> users, limit |-> limit]

Mutex     == Info("mutex", FALSE, "sticky", 0, 0)
Oneshot   == Info("event", TRUE, "oneshot", 0, 0)
Sticky    == Info("event", TRUE, "sticky", 0, 0)
Semaphore == Info("semaphore", FALSE, "sticky", 0, 1)
Arbiter   == Info("arbiter", FALSE, "sticky", 0, 0)
ThreadObj == Info("thread", FALSE, "sticky", 0, 0)

Entries == <<Info("process", FALSE, "sticky", 0, 0)>>
             \o [n \in 1 .. StartThreads |-> ThreadObj] \o StartObjects

PriorityOf(k) == CHOOSE p \in Priorities : \A q \in Priorities : (k % 2 = 0 => p <= q) /\ (k % 2 = 1 => p >= q)

StartInit ==
  /\ handles = [h \in 1 .. Len(Entries) |-> [Entries[h] EXCEPT !.root = h]]
  /\ threads = [k \in Slot |->
       IF k < StartThreads
         THEN [UnusedThread(k) EXCEPT !.handle = k + 2, !.priority = PriorityOf(k),
                                      !.regs = [of |-> k + 2, r1 |-> Other]]
         ELSE UnusedThread(k)]
  /\ num_threads = StartThreads
  /\ current_thread = NoThread
  /\ s = [of |-> 2, r1 |-> Other, servaddr |-> 0]
  /\ pc = "slot" /\ t = 0 /\ nothreadused = TRUE
  /\ i = 0 /\ ret = FALSE
  /\ registered = [e \in Interrupter |-> NoHandle]
  /\ held = [h \in Handle |-> {}]
  /\ told = [h \in Handle |-> {}]
  /\ answer = [h \in Handle |-> Other]
  /\ mem \in [Addresses -> Values]
  /\ call = [list |-> <<>>, all |-> FALSE]

StartSpec     == StartInit /\ [][Next]_vars
FairStartSpec == StartSpec /\ Fairness

(* The objects of each run: after the process and three or two threads. *)
NoObjects      == <<>>
SyncObjects    == <<Mutex, Oneshot, Semaphore>>
EventObjects   == <<Sticky, Mutex>>
OneArbiter     == <<Arbiter>>

(* The handle arrays: the first two objects after two threads, and a       *)
(* handle that nobody can wait on.                                         *)
NoLists        == {<<>>}
TwoThreadLists == {<<>>, <<4, 5>>, <<6, 4>>, <<5, 1>>}
=============================================================================
