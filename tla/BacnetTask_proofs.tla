-------------------------- MODULE BacnetTask_proofs --------------------------
(***************************************************************************)
(* Proofs about BacnetTask for any number of shells and any clock values:  *)
(* the types, mutual exclusion of the locked sections, no long wait under  *)
(* the lock, whole clock readings, the turn of the waiters, and the        *)
(* refinement of AtomicClock.                                              *)
(***************************************************************************)
EXTENDS BacnetTask, SequenceTheorems, TLAPS

\* A thread pends only where a locked section begins.
Entry == {"basicInit", "readTime", "storeTime", "print", "chunk"}

\* The owner is the one thread inside a locked section; the waiters are distinct.
LockInv ==
    /\ owner = NoThread => lockCount = 0 /\ waitq = <<>>
    /\ owner # NoThread => lockCount = 1
    /\ \A t \in Threads : owner = t <=> Inside(t)
    /\ \A t \in Threads : Pended(t) => pc[t] \in Entry
    /\ \A i, j \in DOMAIN waitq : waitq[i] = waitq[j] => i = j

\* The halves of the clock differ only while a thread is between its two stores.
ClockInv ==
    /\ (\A t \in Threads : pc[t] # "storeDate") => time = date
    /\ \A t \in Threads : pc[t] = "storeDate" => time = arg[t]
    /\ \A t \in Threads : pc[t] = "readDate" => tmp[t] = time

IInv == TypeOK /\ LockInv /\ ClockInv /\ SeenWhole

-----------------------------------------------------------------------------
(* The wait queue.                                                         *)

\* Enqueue adds one distinct waiter and keeps the others.
LEMMA EnqueueAdds ==
    ASSUME waitq \in Seq(Threads), NEW t \in Threads, ~ Pended(t),
           \A i, j \in DOMAIN waitq : waitq[i] = waitq[j] => i = j,
           waitq' = Enqueue(t)
    PROVE  /\ waitq' \in Seq(Threads)
           /\ \A u \in Threads : Pended(u)' <=> Pended(u) \/ u = t
           /\ \A i, j \in DOMAIN waitq' : waitq'[i] = waitq'[j] => i = j
<1>1. CASE t = Main
  <2>1. waitq' = <<t>> \o waitq
    BY <1>1 DEF Enqueue
  <2>2. /\ waitq' \in Seq(Threads)
        /\ Len(waitq') = Len(waitq) + 1
        /\ waitq'[1] = t
        /\ \A i \in 1..Len(waitq) : waitq'[i + 1] = waitq[i]
    BY <2>1
  <2>3. \A i \in DOMAIN waitq' : i = 1 \/ (i - 1 \in DOMAIN waitq /\ waitq'[i] = waitq[i - 1])
    BY <2>2
  <2>4. ASSUME NEW u \in Threads PROVE Pended(u)' <=> Pended(u) \/ u = t
    <3>1. Pended(u)' => Pended(u) \/ u = t
      BY <2>2, <2>3 DEF Pended
    <3>2. Pended(u) => Pended(u)'
      <4>1. SUFFICES ASSUME NEW i \in DOMAIN waitq, waitq[i] = u PROVE Pended(u)'
        BY DEF Pended
      <4>2. i + 1 \in DOMAIN waitq' /\ waitq'[i + 1] = u
        BY <2>2, <4>1
      <4> QED
        BY <4>2 DEF Pended
    <3>3. u = t => Pended(u)'
      <4>1. 1 \in DOMAIN waitq'
        BY <2>2
      <4> QED
        BY <4>1, <2>2 DEF Pended
    <3> QED
      BY <3>1, <3>2, <3>3
  <2>5. ASSUME NEW i \in DOMAIN waitq', NEW j \in DOMAIN waitq', waitq'[i] = waitq'[j]
        PROVE  i = j
    <3>1. \A k \in DOMAIN waitq : waitq[k] # t
      BY DEF Pended
    <3> QED
      BY <2>2, <2>3, <2>5, <3>1
  <2> QED
    BY <2>2, <2>4, <2>5
<1>2. CASE t # Main
  <2>1. waitq' = Append(waitq, t)
    BY <1>2 DEF Enqueue
  <2>2. /\ waitq' \in Seq(Threads)
        /\ Len(waitq') = Len(waitq) + 1
        /\ waitq'[Len(waitq) + 1] = t
        /\ \A i \in 1..Len(waitq) : waitq'[i] = waitq[i]
    BY <2>1
  <2>3. \A i \in DOMAIN waitq' : i = Len(waitq) + 1 \/ (i \in DOMAIN waitq /\ waitq'[i] = waitq[i])
    BY <2>2
  <2>4. ASSUME NEW u \in Threads PROVE Pended(u)' <=> Pended(u) \/ u = t
    <3>1. Pended(u)' => Pended(u) \/ u = t
      BY <2>2, <2>3 DEF Pended
    <3>2. Pended(u) => Pended(u)'
      BY <2>2 DEF Pended
    <3>3. u = t => Pended(u)'
      <4>1. Len(waitq) + 1 \in DOMAIN waitq'
        BY <2>2
      <4> QED
        BY <4>1, <2>2 DEF Pended
    <3> QED
      BY <3>1, <3>2, <3>3
  <2>5. ASSUME NEW i \in DOMAIN waitq', NEW j \in DOMAIN waitq', waitq'[i] = waitq'[j]
        PROVE  i = j
    <3>1. \A k \in DOMAIN waitq : waitq[k] # t
      BY DEF Pended
    <3> QED
      BY <2>2, <2>3, <2>5, <3>1
  <2> QED
    BY <2>2, <2>4, <2>5
<1> QED
  BY <1>1, <1>2

\* Serving the first waiter leaves exactly the others pended.
LEMMA ServeRemoves ==
    ASSUME waitq \in Seq(Threads), waitq # <<>>,
           \A i, j \in DOMAIN waitq : waitq[i] = waitq[j] => i = j,
           waitq' = Tail(waitq)
    PROVE  /\ waitq' \in Seq(Threads)
           /\ Head(waitq) \in Threads
           /\ Pended(Head(waitq))
           /\ \A u \in Threads : Pended(u)' <=> Pended(u) /\ u # Head(waitq)
           /\ \A i, j \in DOMAIN waitq' : waitq'[i] = waitq'[j] => i = j
<1>1. /\ waitq' \in Seq(Threads)
      /\ Len(waitq') = Len(waitq) - 1
      /\ \A i \in 1..Len(waitq') : waitq'[i] = waitq[i + 1]
      /\ Len(waitq) > 0
      /\ Head(waitq) = waitq[1]
  BY HeadTailProperties
<1>2. 1 \in DOMAIN waitq /\ Head(waitq) \in Threads /\ Pended(Head(waitq))
  BY <1>1 DEF Pended
<1>3. \A i \in DOMAIN waitq' : i + 1 \in DOMAIN waitq /\ waitq'[i] = waitq[i + 1]
  BY <1>1
<1>4. ASSUME NEW u \in Threads PROVE Pended(u)' <=> Pended(u) /\ u # Head(waitq)
  <2>1. Pended(u)' => Pended(u)
    BY <1>3 DEF Pended
  <2>2. Pended(u)' => u # Head(waitq)
    <3>1. SUFFICES ASSUME NEW i \in DOMAIN waitq', waitq'[i] = waitq[1] PROVE FALSE
      BY <1>1 DEF Pended
    <3>2. i + 1 \in DOMAIN waitq /\ waitq[i + 1] = waitq[1] /\ i \in Nat \ {0}
      BY <1>1, <1>3, <3>1
    <3> QED
      BY <1>2, <3>2
  <2>3. Pended(u) /\ u # Head(waitq) => Pended(u)'
    <3>1. SUFFICES ASSUME NEW i \in DOMAIN waitq, waitq[i] = u, u # waitq[1]
                   PROVE  Pended(u)'
      BY <1>1 DEF Pended
    <3>2. i - 1 \in DOMAIN waitq' /\ waitq'[i - 1] = u
      BY <1>1, <3>1
    <3> QED
      BY <3>2 DEF Pended
  <2> QED
    BY <2>1, <2>2, <2>3
<1>5. ASSUME NEW i \in DOMAIN waitq', NEW j \in DOMAIN waitq', waitq'[i] = waitq'[j]
      PROVE  i = j
  <2>1. /\ i + 1 \in DOMAIN waitq /\ j + 1 \in DOMAIN waitq
        /\ waitq[i + 1] = waitq[j + 1]
    BY <1>3, <1>5
  <2>2. i + 1 = j + 1
    BY <2>1
  <2> QED
    BY <1>1, <2>2
<1> QED
  BY <1>1, <1>2, <1>4, <1>5

-----------------------------------------------------------------------------
(* The four ways a step moves a thread relative to the lock.               *)

Outside == Places \ Locked

\* bacnet_lock() at the start of a locked section.
LEMMA LockPreserves ==
    ASSUME TypeOK, LockInv, NEW t \in Threads, NEW from \in Outside, NEW to \in Entry,
           Goto(t, from, to), Lock(t)
    PROVE  /\ LockInv'
           /\ owner' \in Threads
           /\ lockCount' = 1
           /\ waitq' \in Seq(Threads)
<1> USE DEF TypeOK
<1>1. /\ owner # t
      /\ ~ Pended(t)
      /\ pc' = [pc EXCEPT ![t] = to]
      /\ to \in Locked
      /\ pc[t] \notin Locked
  BY DEF Goto, LockInv, Inside, Outside, Entry, Locked
<1>2. CASE owner = NoThread
  <2>1. owner' = t /\ lockCount' = 1 /\ waitq' = waitq /\ waitq = <<>>
    BY <1>2 DEF Lock, LockInv
  <2>2. \A u \in Threads : ~ Pended(u) /\ ~ Pended(u)'
    BY <2>1 DEF Pended
  <2>3. \A u \in Threads : owner' = u <=> Inside(u)'
    BY <1>1, <1>2, <2>1, <2>2, ThreadsAssumption DEF LockInv, Inside
  <2> QED
    BY <2>1, <2>2, <2>3, ThreadsAssumption DEF LockInv
<1>3. CASE owner # NoThread
  <2>1. owner' = owner /\ lockCount' = lockCount /\ waitq' = Enqueue(t) /\ lockCount = 1
    BY <1>1, <1>3 DEF Lock, LockInv
  <2>2. \A i, j \in DOMAIN waitq : waitq[i] = waitq[j] => i = j
    BY DEF LockInv
  <2>3. /\ waitq' \in Seq(Threads)
        /\ \A u \in Threads : Pended(u)' <=> Pended(u) \/ u = t
        /\ \A i, j \in DOMAIN waitq' : waitq'[i] = waitq'[j] => i = j
    BY <1>1, <2>1, <2>2, EnqueueAdds
  <2>4. \A u \in Threads : owner' = u <=> Inside(u)'
    BY <1>1, <2>1, <2>3 DEF LockInv, Inside
  <2>5. \A u \in Threads : Pended(u)' => pc'[u] \in Entry
    BY <1>1, <2>3 DEF LockInv
  <2> QED
    BY <1>3, <2>1, <2>3, <2>4, <2>5 DEF LockInv
<1> QED
  BY <1>2, <1>3

\* bacnet_unlock() at the end of a locked section: the lock is free or handed over.
LEMMA UnlockPreserves ==
    ASSUME TypeOK, LockInv, NEW t \in Threads, NEW from \in Locked, NEW to \in Outside,
           Goto(t, from, to), Unlock(t)
    PROVE  /\ LockInv'
           /\ owner' \in Threads \cup {NoThread}
           /\ lockCount' \in {0, 1}
           /\ waitq' \in Seq(Threads)
<1> USE DEF TypeOK
<1>1. /\ owner = t
      /\ lockCount = 1
      /\ ~ Pended(t)
      /\ pc' = [pc EXCEPT ![t] = to]
      /\ to \notin Locked
  BY ThreadsAssumption DEF Goto, LockInv, Inside, Outside
<1>2. CASE waitq = <<>>
  <2>1. owner' = NoThread /\ lockCount' = 0 /\ waitq' = waitq
    BY <1>1, <1>2 DEF Unlock
  <2>2. \A u \in Threads : ~ Pended(u)'
    BY <1>2, <2>1 DEF Pended
  <2>3. \A u \in Threads : owner' = u <=> Inside(u)'
    BY <1>1, <2>1, <2>2, <1>2, ThreadsAssumption DEF LockInv, Inside, Pended
  <2> QED
    BY <1>2, <2>1, <2>2, <2>3 DEF LockInv
<1>3. CASE waitq # <<>>
  <2>1. owner' = Head(waitq) /\ lockCount' = 1 /\ waitq' = Tail(waitq)
    BY <1>1, <1>3 DEF Unlock
  <2>2. \A i, j \in DOMAIN waitq : waitq[i] = waitq[j] => i = j
    BY DEF LockInv
  <2>3. /\ waitq' \in Seq(Threads)
        /\ Head(waitq) \in Threads
        /\ Pended(Head(waitq))
        /\ \A u \in Threads : Pended(u)' <=> Pended(u) /\ u # Head(waitq)
        /\ \A i, j \in DOMAIN waitq' : waitq'[i] = waitq'[j] => i = j
    BY <1>3, <2>1, <2>2, ServeRemoves
  <2>4. \A u \in Threads : Pended(u) => pc'[u] \in Entry /\ pc'[u] \in Locked
    BY <1>1 DEF LockInv, Entry, Locked
  <2>5. \A u \in Threads : owner' = u <=> Inside(u)'
    <3>1. ASSUME NEW u \in Threads, u = Head(waitq) PROVE Inside(u)'
      BY <2>3, <2>4, <3>1 DEF Inside
    <3>2. ASSUME NEW u \in Threads, u # Head(waitq) PROVE ~ Inside(u)'
      BY <1>1, <2>3, <3>2 DEF Inside, LockInv
    <3> QED
      BY <2>1, <3>1, <3>2
  <2> QED
    BY <2>1, <2>3, <2>4, <2>5, ThreadsAssumption DEF LockInv
<1> QED
  BY <1>2, <1>3

\* A step inside a locked section, or one outside, leaves the lock alone.
LEMMA StayPreserves ==
    ASSUME TypeOK, LockInv, NEW t \in Threads, NEW from \in Places, NEW to \in Places,
           from \in Locked <=> to \in Locked,
           Goto(t, from, to), UNCHANGED lockVars
    PROVE  LockInv'
<1> USE DEF TypeOK, lockVars
<1>1. /\ pc[t] = from
      /\ ~ Pended(t)
      /\ pc' = [pc EXCEPT ![t] = to]
  BY DEF Goto
<1>2. \A u \in Threads : Pended(u)' <=> Pended(u)
  BY DEF Pended
<1>3. \A u \in Threads : Inside(u)' <=> Inside(u)
  BY <1>1, <1>2 DEF Inside
<1>4. \A u \in Threads : Pended(u)' => pc'[u] \in Entry
  BY <1>1, <1>2 DEF LockInv
<1> QED
  BY <1>3, <1>4 DEF LockInv

-----------------------------------------------------------------------------
(* The clock.                                                              *)

Mid == {"storeDate", "readDate"}

\* A thread in the middle of a store or a reading is inside alone.
LEMMA MidAlone ==
    ASSUME TypeOK, LockInv, NEW t \in Threads, NEW u \in Threads,
           pc[t] \in Locked, ~ Pended(t), pc[u] \in Mid
    PROVE  u = t
<1>1. ~ Pended(u) /\ pc[u] \in Locked
  BY DEF LockInv, Entry, Mid, Locked
<1>2. owner = t /\ owner = u
  BY <1>1 DEF LockInv, Inside
<1> QED
  BY <1>2

\* A step that neither starts nor ends the middle of a store or reading, and
\* changes no more than its own thread's argument.
LEMMA QuietPreserves ==
    ASSUME TypeOK, ClockInv, NEW t \in Threads, NEW from, NEW to,
           from \notin Mid, to \notin Mid, Goto(t, from, to),
           UNCHANGED <<time, date, tmp>>,
           \A u \in Threads \ {t} : arg'[u] = arg[u]
    PROVE  ClockInv'
<1>1. /\ \A u \in Threads \ {t} : pc'[u] = pc[u]
      /\ pc[t] = from /\ pc'[t] = to
  BY DEF Goto, TypeOK
<1> QED
  BY <1>1 DEF ClockInv, Mid

-----------------------------------------------------------------------------
(* The invariant.                                                          *)

LEMMA InitIInv == Init => IInv
<1> SUFFICES ASSUME Init PROVE IInv
  OBVIOUS
<1>1. TypeOK
  <2>1. owner \in Threads \cup {NoThread} /\ lockCount \in {0, 1} /\ portUp \in BOOLEAN
    BY DEF Init
  <2>2. waitq \in Seq(Threads)
    BY EmptySeq DEF Init
  <2>3. pc \in [Threads -> Places]
    BY DEF Init, Places, Locked, LongWait
  <2>4. /\ time \in Clocks /\ date \in Clocks
        /\ arg \in [Threads -> Clocks] /\ tmp \in [Threads -> Clocks]
    BY ThreadsAssumption DEF Init
  <2>5. seen \in [Threads -> [time : Clocks, date : Clocks]]
    BY ThreadsAssumption DEF Init
  <2> QED
    BY <2>1, <2>2, <2>3, <2>4, <2>5 DEF TypeOK
<1>2. \A t \in Threads : ~ Inside(t) /\ ~ Pended(t)
  BY DEF Init, Inside, Pended, Locked
<1>3. LockInv
  BY <1>2, ThreadsAssumption DEF Init, LockInv
<1>4. ClockInv /\ SeenWhole
  BY DEF Init, ClockInv, SeenWhole
<1> QED
  BY <1>1, <1>3, <1>4 DEF IInv

\* The steps on the clock, by any thread inside a locked section.
LEMMA ClockStepPreserves ==
    ASSUME IInv, NEW t \in Threads, ClockStep(t)
    PROVE  IInv'
<1> USE DEF IInv
<1>0. Main \in Threads
  BY DEF Threads
<1>1. CASE StoreTime(t)
  <2>1. Goto(t, "storeTime", "storeDate") /\ UNCHANGED lockVars
    BY <1>1 DEF StoreTime
  <2>2. TypeOK'
    BY <1>1, <2>1 DEF StoreTime, TypeOK, lockVars, Goto, Places, Locked
  <2>3. LockInv'
    BY <2>1, StayPreserves DEF Places, Locked
  <2>4. \A u \in Threads \ {t} : pc'[u] \notin Mid
    BY <2>1, MidAlone DEF Goto, Locked, TypeOK
  <2>5. ClockInv'
    BY <1>1, <2>1, <2>4 DEF StoreTime, ClockInv, Goto, TypeOK, Mid
  <2> QED
    BY <1>1, <2>2, <2>3, <2>5 DEF StoreTime, SeenWhole
<1>2. CASE StoreDate(t)
  <2>1. PICK to \in {"unlock", "readTime"} : Goto(t, "storeDate", to)
    BY <1>2 DEF StoreDate
  <2>2. TypeOK'
    BY <1>2, <2>1, ThreadsAssumption DEF StoreDate, TypeOK, lockVars, Goto, Places, Locked
  <2>3. LockInv'
    BY <1>2, <2>1, StayPreserves DEF StoreDate, Places, Locked
  <2>4. \A u \in Threads \ {t} : pc'[u] \notin Mid
    BY <2>1, MidAlone DEF Goto, Locked, TypeOK
  <2>5. ClockInv'
    BY <1>2, <2>1, <2>4 DEF StoreDate, ClockInv, Goto, TypeOK, Mid
  <2> QED
    BY <1>2, <2>2, <2>3, <2>5 DEF StoreDate, SeenWhole
<1>3. CASE ReadTime(t)
  <2>1. Goto(t, "readTime", "readDate") /\ UNCHANGED lockVars
    BY <1>3 DEF ReadTime
  <2>2. TypeOK'
    BY <1>3, <2>1 DEF ReadTime, TypeOK, lockVars, Goto, Places, Locked
  <2>3. LockInv'
    BY <2>1, StayPreserves DEF Places, Locked
  <2>4. \A u \in Threads : pc[u] \notin Mid
    BY <2>1, MidAlone DEF Goto, Locked, Mid, TypeOK
  <2>5. ClockInv'
    BY <1>3, <2>1, <2>4 DEF ReadTime, ClockInv, Goto, TypeOK, Mid
  <2> QED
    BY <1>3, <2>2, <2>3, <2>5 DEF ReadTime, SeenWhole
<1>4. CASE ReadDate(t)
  <2>1. PICK to \in {"print", "port", "unlock"} : Goto(t, "readDate", to)
    BY <1>4 DEF ReadDate, AfterRead
  <2>2. TypeOK'
    BY <1>4, <2>1, ThreadsAssumption DEF ReadDate, TypeOK, lockVars, Goto, Places, Locked
  <2>3. LockInv'
    BY <1>4, <2>1, StayPreserves DEF ReadDate, Places, Locked
  <2>4. \A u \in Threads \ {t} : pc[u] \notin Mid /\ pc'[u] \notin Mid
    BY <2>1, MidAlone DEF Goto, Locked, TypeOK
  <2>5. ClockInv'
    BY <1>4, <2>1, <2>4 DEF ReadDate, ClockInv, Goto, TypeOK, Mid
  <2>6. tmp[t] = time /\ time = date
    BY <2>1, <2>4 DEF ClockInv, Goto, Mid
  <2>7. SeenWhole'
    BY <1>4, <2>6 DEF ReadDate, SeenWhole, TypeOK
  <2> QED
    BY <2>2, <2>3, <2>5, <2>7
<1> QED
  BY <1>1, <1>2, <1>3, <1>4 DEF ClockStep

\* A step that takes the lock, at the start of a locked section.
LEMMA EnterPreserves ==
    ASSUME IInv, NEW t \in Threads, NEW from \in Outside, NEW to \in Entry,
           Goto(t, from, to), Lock(t), UNCHANGED <<time, date, tmp, seen, portUp>>,
           arg' \in [Threads -> Clocks], \A u \in Threads \ {t} : arg'[u] = arg[u]
    PROVE  IInv'
<1> USE DEF IInv
<1>1. /\ LockInv' /\ owner' \in Threads /\ lockCount' = 1 /\ waitq' \in Seq(Threads)
  BY LockPreserves
<1>2. TypeOK'
  BY <1>1 DEF TypeOK, Goto, Entry, Places, Locked
<1>3. ClockInv'
  BY QuietPreserves DEF Mid, Entry, Outside, Places, Locked, LongWait
<1> QED
  BY <1>1, <1>2, <1>3 DEF SeenWhole

\* A step that gives the lock back, at the end of a locked section.
LEMMA LeavePreserves ==
    ASSUME IInv, NEW t \in Threads, NEW from \in Locked \ Mid, NEW to \in Outside,
           Goto(t, from, to), Unlock(t), UNCHANGED <<clockVars, portUp>>
    PROVE  IInv'
<1> USE DEF IInv
<1>1. /\ LockInv' /\ owner' \in Threads \cup {NoThread} /\ lockCount' \in {0, 1}
      /\ waitq' \in Seq(Threads)
  BY UnlockPreserves
<1>2. TypeOK'
  BY <1>1 DEF TypeOK, Goto, Outside, clockVars
<1>3. ClockInv'
  BY QuietPreserves DEF Mid, Outside, Locked, clockVars
<1> QED
  BY <1>1, <1>2, <1>3 DEF SeenWhole, clockVars

\* A step that leaves lock and clock alone.
LEMMA MovePreserves ==
    ASSUME IInv, NEW t \in Threads, NEW from \in Places \ Mid, NEW to \in Places \ Mid,
           from \in Locked <=> to \in Locked,
           Goto(t, from, to), UNCHANGED <<lockVars, time, date, tmp, seen>>,
           portUp' \in BOOLEAN,
           arg' \in [Threads -> Clocks], \A u \in Threads \ {t} : arg'[u] = arg[u]
    PROVE  IInv'
<1> USE DEF IInv
<1>1. LockInv'
  BY StayPreserves
<1>2. TypeOK'
  BY DEF TypeOK, Goto, lockVars
<1>3. ClockInv'
  BY QuietPreserves
<1> QED
  BY <1>1, <1>2, <1>3 DEF SeenWhole

LEMMA MainPreserves == IInv /\ (MainStep \/ MainPortInitReturns) => IInv'
<1> SUFFICES ASSUME IInv, MainStep \/ MainPortInitReturns PROVE IInv'
  OBVIOUS
<1> USE DEF Places, Locked, LongWait, Outside, Entry, Mid
<1>0. /\ Main \in Threads
      /\ arg \in [Threads -> Clocks]
      /\ portUp \in BOOLEAN
  BY DEF Threads, IInv, TypeOK
<1>1. CASE MainBoot
  BY <1>0, <1>1, EnterPreserves DEF MainBoot, clockVars
<1>2. CASE MainBasicInit
  BY <1>0, <1>2, LeavePreserves DEF MainBasicInit
<1>3. CASE MainWake
  BY <1>0, <1>3, EnterPreserves DEF MainWake, clockVars
<1>4. CASE MainPortIdle
  BY <1>0, <1>4, MovePreserves DEF MainPortIdle, clockVars
<1>5. CASE MainUnlock
  <2>1. PICK to \in {"sleep", "portInit"} : Goto(Main, "unlock", to)
    BY <1>5 DEF MainUnlock
  <2> QED
    BY <1>0, <1>5, <2>1, LeavePreserves DEF MainUnlock
<1>6. ASSUME NEW c \in Clocks, MainTimeSync(c) PROVE IInv'
  BY <1>0, <1>6, MovePreserves DEF MainTimeSync
<1>7. CASE ClockStep(Main)
  BY <1>0, <1>7, ClockStepPreserves
<1>8. ASSUME NEW ok \in BOOLEAN, MainPortInit(ok) PROVE IInv'
  BY <1>0, <1>8, MovePreserves DEF MainPortInit, clockVars
<1> QED
  BY <1>1, <1>2, <1>3, <1>4, <1>5, <1>6, <1>7, <1>8 DEF MainStep, MainPortInitReturns

LEMMA ShellPreserves ==
    ASSUME IInv, NEW s \in Shells, ShellStep(s) \/ ShellInput(s)
    PROVE  IInv'
<1> USE DEF Places, Locked, LongWait, Outside, Entry, Mid
<1>0. /\ s \in Threads
      /\ arg \in [Threads -> Clocks]
      /\ portUp \in BOOLEAN
  BY DEF Threads, IInv, TypeOK
<1>1. CASE ShellDone(s)
  BY <1>0, <1>1, LeavePreserves DEF ShellDone
<1>2. CASE ChunkEnd(s)
  BY <1>0, <1>2, LeavePreserves DEF ChunkEnd
<1>3. CASE ClockStep(s)
  BY <1>0, <1>3, ClockStepPreserves
<1>4. CASE ShellTimeGet(s)
  BY <1>0, <1>4, EnterPreserves DEF ShellTimeGet, Enter, clockVars
<1>5. CASE ShellTimeInvalid(s)
  BY <1>0, <1>5, EnterPreserves DEF ShellTimeInvalid, Enter, clockVars
<1>6. ASSUME NEW c \in Clocks, ShellTimeSet(s, c) PROVE IInv'
  BY <1>0, <1>6, EnterPreserves DEF ShellTimeSet, Enter
<1>7. CASE ChunkBegin(s)
  <2>1. PICK from \in {"idle", "stall"} : Goto(s, from, "chunk")
    BY <1>7 DEF ChunkBegin
  <2> QED
    BY <1>0, <1>7, <2>1, EnterPreserves DEF ChunkBegin, clockVars
<1>8. CASE TransferEnd(s)
  BY <1>0, <1>8, MovePreserves DEF TransferEnd, clockVars
<1> QED
  BY <1>1, <1>2, <1>3, <1>4, <1>5, <1>6, <1>7, <1>8 DEF ShellStep, ShellInput

LEMMA NextIInv == IInv /\ [Next]_vars => IInv'
<1> SUFFICES ASSUME IInv, [Next]_vars PROVE IInv'
  OBVIOUS
<1>1. CASE UNCHANGED vars
  <2>1. \A t \in Threads : (Pended(t)' <=> Pended(t)) /\ (Inside(t)' <=> Inside(t))
    BY <1>1 DEF vars, lockVars, Pended, Inside
  <2> QED
    BY <1>1, <2>1 DEF IInv, TypeOK, LockInv, ClockInv, SeenWhole, vars, lockVars, clockVars
<1>2. CASE Next
  BY <1>2, MainPreserves, ShellPreserves DEF Next
<1> QED
  BY <1>1, <1>2

THEOREM Invariance == Spec => []IInv
  BY InitIInv, NextIInv, PTL DEF Spec

\* For any number of shells: the variables keep their types and no thread takes
\* the lock twice.
THEOREM TypeCorrect == Spec => []TypeOK
  BY Invariance, PTL DEF IInv

\* Two threads are never inside locked sections together.
THEOREM MutualExclusion == Spec => []StackExclusive
<1>1. IInv => StackExclusive
  BY DEF IInv, LockInv, StackExclusive
<1> QED
  BY <1>1, Invariance, PTL

\* No thread sleeps, waits for an address or prints a transfer's chunk with the lock.
THEOREM NoLongWait == Spec => []NoLongWaitUnderLock
<1>1. IInv => NoLongWaitUnderLock
  BY DEF IInv, LockInv, Inside, NoLongWaitUnderLock, Locked, LongWait
<1> QED
  BY <1>1, Invariance, PTL

\* Every clock reading is whole.
THEOREM WholeReadings == Spec => []SeenWhole
  BY Invariance, PTL DEF IInv

-----------------------------------------------------------------------------
(* The turn: who waits for whom, and in which order they are served.       *)

\* u is to be served before t.
Before(u, t) == \E i, j \in DOMAIN waitq : i < j /\ waitq[i] = u /\ waitq[j] = t

\* The main thread's priority: where it waits, it is the next to be served.
MainFirst == Pended(Main) => waitq[1] = Main

\* Nobody waits for a free lock, nor for a thread that itself waits.
WaitsForInsider == waitq # <<>> => owner \in Threads /\ Inside(owner)

\* A waiter leaves the queue only as the lock's owner, with nobody before it, and
\* until then no shell thread gets before it.
InTurn ==
    /\ \A t, u \in Shells : Pended(t) /\ Pended(t)' /\ Before(u, t)' => Before(u, t)
    /\ \A t \in Threads : Pended(t) /\ ~ Pended(t)' =>
           owner' = t /\ \A u \in Threads : ~ Before(u, t)

\* What a step may do to the queue.
Arrives(t) == ~ Pended(t) /\ waitq' = Enqueue(t)
Served     == waitq # <<>> /\ waitq' = Tail(waitq) /\ owner' = Head(waitq)

LEMMA LockArrives ==
    ASSUME NEW t, ~ Pended(t), Lock(t)
    PROVE  waitq' = waitq \/ Arrives(t)
BY DEF Lock, Arrives

LEMMA UnlockServes ==
    ASSUME NEW t, Unlock(t)
    PROVE  waitq' = waitq \/ Served
BY DEF Unlock, Served, lockVars

\* Every step leaves the queue alone, adds a thread that is not in it, or serves
\* the first one.
LEMMA QueueStep ==
    ASSUME [Next]_vars
    PROVE  waitq' = waitq \/ Served \/ \E t \in Threads : Arrives(t)
<1>0. Main \in Threads /\ Shells \subseteq Threads
  BY DEF Threads
<1>1. CASE UNCHANGED vars
  BY <1>1 DEF vars, lockVars
<1>2. CASE MainBoot \/ MainWake
  BY <1>0, <1>2, LockArrives DEF MainBoot, MainWake, Goto
<1>3. CASE MainBasicInit \/ MainUnlock
  BY <1>3, UnlockServes DEF MainBasicInit, MainUnlock
<1>4. CASE MainPortIdle \/ MainPortInitReturns \/ \E c \in Clocks : MainTimeSync(c)
  BY <1>4 DEF MainPortIdle, MainPortInitReturns, MainPortInit, MainTimeSync, lockVars
<1>5. ASSUME NEW t \in Threads, ClockStep(t) PROVE waitq' = waitq
  BY <1>5 DEF ClockStep, StoreTime, StoreDate, ReadTime, ReadDate, lockVars
<1>6. ASSUME NEW s \in Shells, ShellDone(s) \/ ChunkEnd(s) PROVE waitq' = waitq \/ Served
  BY <1>6, UnlockServes DEF ShellDone, ChunkEnd
<1>7. ASSUME NEW s \in Shells, ShellInput(s)
      PROVE  waitq' = waitq \/ Arrives(s)
  <2>1. CASE TransferEnd(s)
    BY <2>1 DEF TransferEnd, lockVars
  <2>2. CASE ~ TransferEnd(s)
    <3>1. ~ Pended(s) /\ Lock(s)
      BY <1>7, <2>2
      DEF ShellInput, ShellTimeGet, ShellTimeInvalid, ShellTimeSet, ChunkBegin, Enter, Goto
    <3> QED
      BY <3>1, LockArrives
  <2> QED
    BY <2>1, <2>2
<1> QED
  BY <1>0, <1>1, <1>2, <1>3, <1>4, <1>5, <1>6, <1>7 DEF Next, MainStep, ShellStep

\* Behind a main thread or not, an arriving thread keeps the others in order.
LEMMA ArrivalKeepsOrder ==
    ASSUME waitq \in Seq(Threads), NEW t \in Threads, Arrives(t)
    PROVE  /\ \A u, v \in Shells : Pended(v) /\ Before(u, v)' => Before(u, v)
           /\ \A u \in Threads : Pended(u) => Pended(u)'
           /\ MainFirst => MainFirst'
<1>1. CASE t = Main
  <2>1. waitq' = <<t>> \o waitq
    BY <1>1 DEF Arrives, Enqueue
  <2>2. /\ Len(waitq) \in Nat
        /\ DOMAIN waitq = 1..Len(waitq) /\ DOMAIN waitq' = 1..(Len(waitq) + 1)
        /\ waitq'[1] = t
        /\ \A i \in 1..Len(waitq) : waitq'[i + 1] = waitq[i]
    BY <2>1
  <2>3. \A i \in DOMAIN waitq' : i = 1 \/ (i - 1 \in DOMAIN waitq /\ waitq'[i] = waitq[i - 1])
    BY <2>2
  <2>4. ASSUME NEW u \in Shells, NEW v \in Shells, Before(u, v)' PROVE Before(u, v)
    <3>1. PICK i, j \in DOMAIN waitq' : i < j /\ waitq'[i] = u /\ waitq'[j] = v
      BY <2>4 DEF Before
    <3>2. i # 1 /\ j # 1
      BY <1>1, <2>2, <3>1, ThreadsAssumption
    <3>3. /\ i - 1 \in DOMAIN waitq /\ waitq[i - 1] = u
          /\ j - 1 \in DOMAIN waitq /\ waitq[j - 1] = v
      BY <2>3, <3>1, <3>2
    <3>4. i - 1 < j - 1
      BY <2>2, <3>1
    <3> QED
      BY <3>3, <3>4 DEF Before
  <2>5. ASSUME NEW u \in Threads, Pended(u) PROVE Pended(u)'
    <3>1. PICK i \in DOMAIN waitq : waitq[i] = u
      BY <2>5 DEF Pended
    <3>2. i + 1 \in DOMAIN waitq' /\ waitq'[i + 1] = u
      BY <2>2, <3>1
    <3> QED
      BY <3>2 DEF Pended
  <2> QED
    BY <1>1, <2>2, <2>4, <2>5 DEF MainFirst
<1>2. CASE t # Main
  <2>1. waitq' = Append(waitq, t)
    BY <1>2 DEF Arrives, Enqueue
  <2>2. /\ Len(waitq) \in Nat
        /\ DOMAIN waitq = 1..Len(waitq) /\ DOMAIN waitq' = 1..(Len(waitq) + 1)
        /\ waitq'[Len(waitq) + 1] = t
        /\ \A i \in 1..Len(waitq) : waitq'[i] = waitq[i]
    BY <2>1
  <2>3. ASSUME NEW u \in Shells, NEW v \in Shells, Pended(v), Before(u, v)'
        PROVE  Before(u, v)
    <3>1. PICK i, j \in DOMAIN waitq' : i < j /\ waitq'[i] = u /\ waitq'[j] = v
      BY <2>3 DEF Before
    <3>2. v # t
      BY <2>3 DEF Arrives
    <3>3. j \in DOMAIN waitq /\ i \in DOMAIN waitq
      BY <2>2, <3>1, <3>2
    <3> QED
      BY <2>2, <3>1, <3>3 DEF Before
  <2>4. \A u \in Threads : Pended(u) => Pended(u)'
    BY <2>2 DEF Pended
  <2>5. MainFirst => MainFirst'
    <3>1. SUFFICES ASSUME MainFirst, Pended(Main)' PROVE waitq'[1] = Main
      BY DEF MainFirst
    <3>2. PICK i \in DOMAIN waitq' : waitq'[i] = Main
      BY <3>1 DEF Pended
    <3>3. i \in DOMAIN waitq
      BY <1>2, <2>2, <3>2
    <3>4. Pended(Main) /\ 1 \in DOMAIN waitq
      BY <2>2, <3>2, <3>3 DEF Pended
    <3> QED
      BY <2>2, <3>1, <3>4 DEF MainFirst
  <2> QED
    BY <2>3, <2>4, <2>5
<1> QED
  BY <1>1, <1>2

\* Serving the first waiter moves the others up in order.
LEMMA ServiceKeepsOrder ==
    ASSUME waitq \in Seq(Threads), LockInv, Served
    PROVE  /\ \A u, v \in Shells : Before(u, v)' => Before(u, v)
           /\ \A t \in Threads : Pended(t) /\ ~ Pended(t)' =>
                  owner' = t /\ \A u \in Threads : ~ Before(u, t)
           /\ MainFirst => MainFirst'
<1> USE DEF Served
<1>1. \A i, j \in DOMAIN waitq : waitq[i] = waitq[j] => i = j
  BY DEF LockInv
<1>2. \A u \in Threads : Pended(u)' <=> Pended(u) /\ u # Head(waitq)
  BY <1>1, ServeRemoves
<1>3. /\ Len(waitq) \in Nat /\ Len(waitq) > 0
      /\ DOMAIN waitq = 1..Len(waitq) /\ DOMAIN waitq' = 1..(Len(waitq) - 1)
      /\ \A i \in 1..(Len(waitq) - 1) : waitq'[i] = waitq[i + 1]
      /\ Head(waitq) = waitq[1]
  BY HeadTailProperties
<1>4. ASSUME NEW u \in Shells, NEW v \in Shells, Before(u, v)' PROVE Before(u, v)
  <2>1. PICK i, j \in DOMAIN waitq' : i < j /\ waitq'[i] = u /\ waitq'[j] = v
    BY <1>4 DEF Before
  <2>2. /\ i + 1 \in DOMAIN waitq /\ waitq[i + 1] = u
        /\ j + 1 \in DOMAIN waitq /\ waitq[j + 1] = v
        /\ i + 1 < j + 1
    BY <1>3, <2>1
  <2> QED
    BY <2>2 DEF Before
<1>5. ASSUME NEW t \in Threads, Pended(t), ~ Pended(t)'
      PROVE  owner' = t /\ \A u \in Threads : ~ Before(u, t)
  <2>1. t = waitq[1] /\ owner' = t
    BY <1>2, <1>3, <1>5
  <2>2. ASSUME NEW i \in DOMAIN waitq, NEW j \in DOMAIN waitq, i < j PROVE waitq[j] # t
    <3>1. 1 \in DOMAIN waitq /\ j # 1
      BY <1>3, <2>2
    <3> QED
      BY <1>1, <2>1, <3>1
  <2> QED
    BY <2>1, <2>2 DEF Before
<1>6. MainFirst => MainFirst'
  <2>1. Main \in Threads
    BY DEF Threads
  <2>2. MainFirst => ~ Pended(Main)'
    BY <1>2, <1>3, <2>1 DEF MainFirst
  <2> QED
    BY <2>2 DEF MainFirst
<1> QED
  BY <1>4, <1>5, <1>6

LEMMA InTurnStep ==
    ASSUME IInv, [Next]_vars
    PROVE  InTurn /\ (MainFirst => MainFirst')
<1>0. waitq \in Seq(Threads) /\ LockInv
  BY DEF IInv, TypeOK
<1>1. CASE waitq' = waitq
  BY <1>1 DEF InTurn, MainFirst, Pended, Before
<1>2. CASE Served
  BY <1>0, <1>2, ServiceKeepsOrder DEF InTurn
<1>3. ASSUME NEW t \in Threads, Arrives(t) PROVE InTurn /\ (MainFirst => MainFirst')
  BY <1>0, <1>3, ArrivalKeepsOrder DEF InTurn
<1> QED
  BY <1>1, <1>2, <1>3, QueueStep

LEMMA InitMainFirst == Init => MainFirst
BY DEF Init, MainFirst, Pended

\* k_mutex_unlock() hands the lock to its first waiter: the threads pended on the
\* task lock are served in turn, a shell thread waits for the shell threads that
\* came before it and for the main loop, and every waiter for a thread that is
\* inside a locked section and does not wait itself.
THEOREM ServedInTurn == Spec => [](MainFirst /\ WaitsForInsider) /\ [][InTurn]_vars
<1>1. IInv => WaitsForInsider
  BY DEF IInv, TypeOK, LockInv, WaitsForInsider
<1>2. IInv /\ [Next]_vars => InTurn /\ (MainFirst => MainFirst')
  BY InTurnStep
<1>3. Init => MainFirst
  BY InitMainFirst
<1>4. IInv /\ [Next]_vars => [InTurn]_vars
  BY <1>2
<1>5. IInv /\ MainFirst /\ [Next]_vars => MainFirst'
  BY <1>2
<1> QED
  BY <1>1, <1>3, <1>4, <1>5, Invariance, PTL DEF Spec

-----------------------------------------------------------------------------
(* The refinement: every step is a Sync, a Local or a stutter.             *)

LEMMA InitRefines == Init => Abstract!Init
  BY DEF Init, Abstract!Init, Abstract!Whole

LEMMA ClockStepRefines ==
    ASSUME IInv, NEW t \in Threads, ClockStep(t)
    PROVE  [Abstract!Next]_<<date, seen>>
<1>1. CASE StoreDate(t)
  <2>1. arg[t] \in Clocks /\ Abstract!Sync(arg[t])
    BY <1>1 DEF StoreDate, Abstract!Sync, IInv, TypeOK
  <2> QED
    BY <2>1 DEF Abstract!Next
<1>2. CASE ReadDate(t)
  <2>1. pc[t] = "readDate" /\ ~ Pended(t)
    BY <1>2 DEF ReadDate, Goto
  <2>2. \A u \in Threads : pc[u] # "storeDate"
    BY <2>1, MidAlone DEF IInv, Mid, Locked
  <2>3. tmp[t] = date
    BY <2>1, <2>2 DEF IInv, ClockInv
  <2>4. Abstract!Local(t)
    BY <1>2, <2>3 DEF ReadDate, Abstract!Local, Abstract!Whole
  <2> QED
    BY <2>4 DEF Abstract!Next
<1>3. CASE StoreTime(t) \/ ReadTime(t)
  BY <1>3 DEF StoreTime, ReadTime
<1> QED
  BY <1>1, <1>2, <1>3 DEF ClockStep

LEMMA StepRefines == IInv /\ [Next]_vars => [Abstract!Next]_<<date, seen>>
<1> SUFFICES ASSUME IInv, [Next]_vars, ~ UNCHANGED <<date, seen>>
             PROVE  [Abstract!Next]_<<date, seen>>
  OBVIOUS
<1>1. \E t \in Threads : ClockStep(t)
  BY DEF vars, clockVars, Next, MainStep, MainPortInitReturns, ShellStep, ShellInput,
         MainBoot, MainBasicInit, MainWake, MainPortIdle, MainUnlock, MainTimeSync,
         MainPortInit, ShellDone, ChunkEnd, ShellTimeGet, ShellTimeInvalid, ShellTimeSet,
         ChunkBegin, TransferEnd, Threads
<1> QED
  BY <1>1, ClockStepRefines

\* The clock stored and read in two steps under the lock is an atomic clock.
THEOREM ClockRefinement == Spec => ClockIsAtomic
<1>1. Spec => Abstract!Spec
  BY InitRefines, StepRefines, Invariance, PTL DEF Spec, Abstract!Spec
<1> QED
  BY <1>1 DEF ClockIsAtomic
=============================================================================
