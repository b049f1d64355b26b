----------------------------- MODULE BacnetTask -----------------------------
(***************************************************************************)
(* The BACnet task lock and the threads that share the stack's data: the   *)
(* main loop of the sample profiles and the shell threads.                 *)
(*                                                                         *)
(* bacnet_lock() is a Zephyr K_MUTEX: recursive, and handed to the first   *)
(* waiter by k_mutex_unlock().  A locked shell handler runs and prints     *)
(* inside the lock; dump, export and decode lock once per chunk and print  *)
(* between chunks, where a stalled terminal may hold them for ever.  The   *)
(* main loop leaves the lock before bacnet_port_init(), which may wait for *)
(* an IPv4 address that never comes.                                       *)
(*                                                                         *)
(* The stack's data are represented by its clock, which datetime_copy()    *)
(* stores and reads in two halves, the time first.                         *)
(***************************************************************************)
EXTENDS Naturals, Sequences

CONSTANTS Main,       \* the thread that runs main()
          Shells,     \* the shell backends' threads
          NoThread,   \* the owner of a free mutex
          Clocks,     \* date-and-time values
          Epoch       \* the clock's value at start-up

Threads == Shells \cup {Main}

ASSUME ThreadsAssumption ==
    /\ Main \notin Shells
    /\ NoThread \notin Threads
    /\ Epoch \in Clocks

VARIABLES owner,      \* bacnet_mutex: the owning thread
          lockCount,  \*   how often the owner has locked it
          waitq,      \*   the threads pended on it, first to be served first
          pc,         \* where each thread is
          time, date, \* the two halves of the shared clock
          arg,        \* the value each thread is storing or stores next
          tmp,        \* the time half a thread has copied out
          seen,       \* what each thread's last datetime_local() returned
          portUp      \* main()'s port_initialized

lockVars  == <<owner, lockCount, waitq>>
clockVars == <<time, date, arg, tmp, seen>>
vars      == <<lockVars, pc, clockVars, portUp>>

\* The places a thread reaches holding the lock, and those where it may stay long.
Locked  == {"basicInit", "readTime", "readDate", "port", "storeTime", "storeDate",
            "print", "unlock", "chunk"}
LongWait == {"sleep", "portInit", "idle", "stall"}
Places  == Locked \cup LongWait \cup {"boot"}

Pended(t) == \E i \in DOMAIN waitq : waitq[i] = t

-----------------------------------------------------------------------------
(***************************************************************************)
(* The mutex.  The main thread's priority is above the shell threads', so  *)
(* it pends before them; threads of one priority are served in order.      *)
(***************************************************************************)
EnqueueLifo(t) == <<t>> \o waitq
Enqueue(t) == IF t = Main THEN <<t>> \o waitq ELSE Append(waitq, t)

Lock(t) ==
    IF owner \in {NoThread, t}
    THEN /\ owner' = t
         /\ lockCount' = lockCount + 1
         /\ UNCHANGED waitq
    ELSE /\ waitq' = Enqueue(t)
         /\ UNCHANGED <<owner, lockCount>>

\* k_mutex_unlock() by a thread that is not the owner changes nothing.
UnlockForgotten(t) == UNCHANGED lockVars
Unlock(t) ==
    IF owner # t THEN UNCHANGED lockVars
    ELSE IF lockCount > 1
         THEN lockCount' = lockCount - 1 /\ UNCHANGED <<owner, waitq>>
         ELSE IF waitq = <<>>
              THEN owner' = NoThread /\ lockCount' = 0 /\ UNCHANGED waitq
              ELSE owner' = Head(waitq) /\ lockCount' = 1 /\ waitq' = Tail(waitq)

\* Thread t, not pended, is at `from` and goes to `to`.
Goto(t, from, to) == /\ pc[t] = from
                     /\ ~ Pended(t)
                     /\ pc' = [pc EXCEPT ![t] = to]

-----------------------------------------------------------------------------
(***************************************************************************)
(* The clock: datetime_timesync() and datetime_local().                    *)
(***************************************************************************)
StoreTime(t) ==
    /\ Goto(t, "storeTime", "storeDate")
    /\ time' = arg[t]
    /\ UNCHANGED <<lockVars, date, arg, tmp, seen, portUp>>

\* The shell's command goes on to read the clock back; the main thread is done.
StoreDate(t) ==
    /\ Goto(t, "storeDate", IF t = Main THEN "unlock" ELSE "readTime")
    /\ date' = arg[t]
    /\ arg' = [arg EXCEPT ![t] = Epoch]
    /\ UNCHANGED <<lockVars, time, tmp, seen, portUp>>

ReadTime(t) ==
    /\ Goto(t, "readTime", "readDate")
    /\ tmp' = [tmp EXCEPT ![t] = time]
    /\ UNCHANGED <<lockVars, time, date, arg, seen, portUp>>

AfterRead(t) == IF t # Main THEN "print" ELSE IF portUp THEN "port" ELSE "unlock"
ReadDate(t) ==
    /\ Goto(t, "readDate", AfterRead(t))
    /\ seen' = [seen EXCEPT ![t] = [time |-> tmp[t], date |-> date]]
    /\ tmp' = [tmp EXCEPT ![t] = Epoch]
    /\ UNCHANGED <<lockVars, time, date, arg, portUp>>

-----------------------------------------------------------------------------
(***************************************************************************)
(* main(): basic_init under the lock, then for ever sleep, lock, task,     *)
(* port task once the port is up, unlock, port init until it succeeds.     *)
(***************************************************************************)
MainBoot ==
    /\ Goto(Main, "boot", "basicInit")
    /\ Lock(Main)
    /\ UNCHANGED <<clockVars, portUp>>

MainBasicInit ==
    /\ Goto(Main, "basicInit", "sleep")
    /\ Unlock(Main)
    /\ UNCHANGED <<clockVars, portUp>>

\* k_sleep() ends, bacnet_lock(); bacnet_basic_task() starts by reading the clock.
MainWake ==
    /\ Goto(Main, "sleep", "readTime")
    /\ Lock(Main)
    /\ UNCHANGED <<clockVars, portUp>>

\* bacnet_port_task(): a TimeSynchronization arrives ...
MainTimeSync(c) ==
    /\ Goto(Main, "port", "storeTime")
    /\ arg' = [arg EXCEPT ![Main] = c]
    /\ UNCHANGED <<lockVars, time, date, tmp, seen, portUp>>

\* ... or nothing that touches the clock.
MainPortIdle ==
    /\ Goto(Main, "port", "unlock")
    /\ UNCHANGED <<lockVars, clockVars, portUp>>

MainUnlockAfterInit ==
    /\ Goto(Main, "unlock", IF portUp THEN "sleep" ELSE "portInit")
    /\ IF portUp THEN Unlock(Main) ELSE UNCHANGED lockVars
    /\ UNCHANGED <<clockVars, portUp>>
MainUnlock ==
    /\ Goto(Main, "unlock", IF portUp THEN "sleep" ELSE "portInit")
    /\ Unlock(Main)
    /\ UNCHANGED <<clockVars, portUp>>

\* bacnet_port_init() returns; until then the main thread waits here.
MainPortInit(ok) ==
    /\ Goto(Main, "portInit", "sleep")
    /\ portUp' = ok
    /\ UNCHANGED <<lockVars, clockVars>>

-----------------------------------------------------------------------------
(***************************************************************************)
(* The shell threads.  BACNET_SHELL_LOCK_HANDLER brackets a handler with   *)
(* the lock; `bacnet time` is the handler modelled, with a new value, with *)
(* none, and with arguments it rejects.                                    *)
(***************************************************************************)
EnterUnlocked(s) == UNCHANGED lockVars
Enter(s) == Lock(s)

ShellTimeSet(s, c) ==
    /\ Goto(s, "idle", "storeTime")
    /\ Enter(s)
    /\ arg' = [arg EXCEPT ![s] = c]
    /\ UNCHANGED <<time, date, tmp, seen, portUp>>

ShellTimeGet(s) ==
    /\ Goto(s, "idle", "readTime")
    /\ Enter(s)
    /\ UNCHANGED <<clockVars, portUp>>

ShellTimeInvalid(s) ==
    /\ Goto(s, "idle", "print")
    /\ Enter(s)
    /\ UNCHANGED <<clockVars, portUp>>

\* The handler's output is out and the wrapper unlocks.
ShellDone(s) ==
    /\ Goto(s, "print", "idle")
    /\ Unlock(s)
    /\ UNCHANGED <<clockVars, portUp>>

\* dump, export, decode: the lock for the snapshot and for each chunk.
ChunkBegin(s) ==
    /\ \/ Goto(s, "idle", "chunk")
       \/ Goto(s, "stall", "chunk")
    /\ Lock(s)
    /\ UNCHANGED <<clockVars, portUp>>

ChunkEndHolding(s) ==
    /\ Goto(s, "chunk", "stall")
    /\ UNCHANGED <<lockVars, clockVars, portUp>>
ChunkEnd(s) ==
    /\ Goto(s, "chunk", "stall")
    /\ Unlock(s)
    /\ UNCHANGED <<clockVars, portUp>>

\* The last output is out.
TransferEnd(s) ==
    /\ Goto(s, "stall", "idle")
    /\ UNCHANGED <<lockVars, clockVars, portUp>>

-----------------------------------------------------------------------------
Init ==
    /\ owner = NoThread
    /\ lockCount = 0
    /\ waitq = <<>>
    /\ pc = [t \in Threads |-> IF t = Main THEN "boot" ELSE "idle"]
    /\ time = Epoch
    /\ date = Epoch
    /\ arg = [t \in Threads |-> Epoch]
    /\ tmp = [t \in Threads |-> Epoch]
    /\ seen = [t \in Threads |-> [time |-> Epoch, date |-> Epoch]]
    /\ portUp = FALSE

ClockStep(t) == StoreTime(t) \/ StoreDate(t) \/ ReadTime(t) \/ ReadDate(t)

\* The steps of main() that only the lock can delay, and the one that may never come.
MainStep == \/ MainBoot \/ MainBasicInit \/ MainWake \/ MainPortIdle \/ MainUnlock
            \/ \E c \in Clocks : MainTimeSync(c)
            \/ ClockStep(Main)
MainPortInitReturns == \E ok \in BOOLEAN : MainPortInit(ok)

\* The steps of a shell thread inside a locked section, and those of its user
\* and its terminal.
ShellStep(s) == ShellDone(s) \/ ChunkEnd(s) \/ ClockStep(s)
ShellInput(s) == \/ ShellTimeGet(s) \/ ShellTimeInvalid(s)
                 \/ \E c \in Clocks : ShellTimeSet(s, c)
                 \/ ChunkBegin(s) \/ TransferEnd(s)

Next == \/ MainStep
        \/ MainPortInitReturns
        \/ \E s \in Shells : ShellStep(s) \/ ShellInput(s)

\* A thread that holds the lock runs on (its handler's output drains), and the
\* main loop runs on outside bacnet_port_init().  Nothing is assumed of the
\* address bacnet_port_init() waits for, of the shell's users, nor of the
\* terminal a transfer prints to.
Fairness == /\ WF_vars(MainStep)
            /\ \A s \in Shells : WF_vars(ShellStep(s))

Spec     == Init /\ [][Next]_vars
FairSpec == Spec /\ Fairness

-----------------------------------------------------------------------------
(***************************************************************************)
(* Properties.                                                             *)
(***************************************************************************)
\* The types of the variables; no code path locks a mutex it owns already.
TypeOK ==
    /\ owner \in Threads \cup {NoThread}
    /\ lockCount \in {0, 1}
    /\ waitq \in Seq(Threads)
    /\ pc \in [Threads -> Places]
    /\ time \in Clocks
    /\ date \in Clocks
    /\ arg \in [Threads -> Clocks]
    /\ tmp \in [Threads -> Clocks]
    /\ seen \in [Threads -> [time : Clocks, date : Clocks]]
    /\ portUp \in BOOLEAN

Inside(t) == pc[t] \in Locked /\ ~ Pended(t)

\* bacnet_lock.h: the stack's data are shared under the task lock.  Two threads
\* are never inside locked sections together.
StackExclusive == \A t, u \in Threads : Inside(t) /\ Inside(u) => t = u

\* bacnet_lock.h: "Do not hold it across a long wait such as DHCP"; file shell:
\* dump and export "must not hold the task lock across a chunk".
NoLongWaitUnderLock == owner \in Threads => pc[owner] \notin LongWait

\* datetime_local() returns two halves of one value, whoever stores meanwhile.
SeenWhole == \A t \in Threads : seen[t].time = seen[t].date

\* The two-step clock implements the atomic one: a store counts when its date is
\* written, a reading when its date is copied.
Abstract == INSTANCE AtomicClock WITH Readers <- Threads, clock <- date, seen <- seen
ClockIsAtomic == Abstract!Spec

\* Only a port init that never returns keeps the BACnet task from running again
\* and again: no shell command and no stalled terminal does.
TaskKeepsRunning == <>[](pc[Main] = "portInit") \/ []<>(pc[Main] = "readDate")

\* A shell thread pended on the lock gets it, also while the main thread waits
\* for an address and whatever the other shells do.
ShellServed == \A s \in Shells : Pended(s) ~> ~ Pended(s)
=============================================================================
