---------------------------- MODULE Reinit_proofs ----------------------------
(***************************************************************************)
(* Proofs about Reinit, for any delay, sleep and counter.  NotEarly needs  *)
(* an account of the timer: from a poll of the idle device that no wait    *)
(* follows, the time it shows is at most the sleep so far; from a request  *)
(* made then, at most the time since the request and one sleep.  A wrap of *)
(* the counter only makes it show less.                                    *)
(***************************************************************************)
EXTENDS Reinit, TLAPS

\* Only what was asked for is pending, and only once.
Pending == state \in RebootStates => owed /\ last = state

\* The time the timer shows.
CalmTimer == calm => main = "sleep" /\ state = "idle" /\ Elapsed <= slept
PromptTimer == prompt /\ state \in RebootStates => since = Delay \/ Elapsed <= since + Period

IInv == TypeOK /\ Pending /\ CalmTimer /\ PromptTimer

-----------------------------------------------------------------------------
LEMMA ElapsedBounds ==
    ASSUME TypeOK
    PROVE  /\ Elapsed \in Nat
           /\ clock = start => Elapsed = 0
BY ReinitAssumption DEF TypeOK, Elapsed

\* A tick advances the time shown by one, or wraps it.
LEMMA ElapsedTicks ==
    ASSUME TypeOK, clock' = (IF clock + 1 = TickWrap THEN 0 ELSE clock + 1), start' = start
    PROVE  Elapsed' <= Elapsed + 1
BY ReinitAssumption DEF TypeOK, Elapsed

LEMMA Zero == 0 \in 0..TickWrap-1 /\ 0 \in 0..Period /\ 0 \in 0..Delay
BY ReinitAssumption

LEMMA InitIInv == Init => IInv
<1>1. Init => TypeOK
  BY Zero DEF Init, TypeOK, States
<1>2. Init => Pending /\ CalmTimer /\ PromptTimer
  BY DEF Init, Pending, CalmTimer, PromptTimer, RebootStates
<1> QED
  BY <1>1, <1>2 DEF IInv

LEMMA StepIInv ==
    ASSUME IInv, [Next]_vars
    PROVE  IInv'
<1> USE ReinitAssumption
<1>t. TypeOK
  BY DEF IInv
<1>1. CASE Tick
  <2>1. TypeOK'
    BY <1>1, <1>t DEF Tick, TypeOK
  <2>2. Elapsed' <= Elapsed + 1 /\ Elapsed \in Nat /\ Elapsed' \in Nat
    BY <1>1, <1>t, <2>1, ElapsedTicks, ElapsedBounds DEF Tick, TypeOK, Elapsed
  <2>3. CalmTimer'
    BY <1>1, <1>t, <2>2 DEF Tick, IInv, CalmTimer, TypeOK
  <2>4. PromptTimer'
    BY <1>1, <1>t, <2>2 DEF Tick, IInv, PromptTimer, TypeOK
  <2> QED
    BY <1>1, <2>1, <2>3, <2>4 DEF Tick, IInv, Pending
<1>2. CASE BootInit
  <2>1. TypeOK' /\ Elapsed' = 0
    BY <1>2, <1>t DEF BootInit, TypeOK, Elapsed
  <2> QED
    BY <1>2, <1>t, <2>1 DEF BootInit, IInv, Pending, CalmTimer, PromptTimer, TypeOK
<1>3. CASE PollIdle
  <2>1. TypeOK' /\ Elapsed' = 0
    BY <1>3, <1>t DEF PollIdle, NextRound, RestartTimer, TypeOK, Elapsed
  <2> QED
    BY <1>3, <1>t, <2>1
    DEF PollIdle, NextRound, IInv, Pending, CalmTimer, PromptTimer, TypeOK, RebootStates
<1>4. CASE PollNothing
  <2>1. TypeOK'
    <3> HIDE ReinitAssumption
    <3> QED
      BY <1>4, <1>t, Zero DEF PollNothing, NextRound, TypeOK
  <2>2. Elapsed' = Elapsed
    BY <1>4 DEF PollNothing, Elapsed
  <2> QED
    BY <1>4, <2>1, <2>2 DEF PollNothing, IInv, Pending, CalmTimer, PromptTimer
<1>5. CASE PollReboots
  <2>1. settings' \in {"saved", "cleared"}
    BY <1>5, <1>t DEF PollReboots, ColdstartCallback, TypeOK
  <2>2. since' \in 0..Delay /\ last' \in RebootStates \cup {"none"} /\ prompt' \in BOOLEAN
        /\ canReboot' \in BOOLEAN
    BY <1>5, <1>t DEF PollReboots, TypeOK
  <2>3. TypeOK'
    BY <1>5, <2>1, <2>2, Zero DEF PollReboots, TypeOK, States
  <2> QED
    BY <1>5, <2>3 DEF PollReboots, IInv, Pending, CalmTimer, PromptTimer, RebootStates
<1>6. CASE PollRefuses
  <2>1. settings' \in {"saved", "cleared"}
    BY <1>6, <1>t DEF PollRefuses, ColdstartCallback, TypeOK
  <2>2. main' \in {"boot", "sleep", "wait"} /\ slept' \in 0..Period /\ start' \in 0..TickWrap-1
        /\ interval' = Delay
    BY <1>6, <1>t, Zero DEF PollRefuses, NextRound, RestartTimer, TypeOK
  <2>3. TypeOK'
    BY <1>6, <1>t, <2>1, <2>2 DEF PollRefuses, TypeOK, States
  <2> QED
    BY <1>6, <2>3 DEF PollRefuses, IInv, Pending, CalmTimer, PromptTimer, RebootStates
<1>7. ASSUME NEW ok \in BOOLEAN, PortInit(ok) PROVE IInv'
  <2>1. TypeOK'
    BY <1>7, <1>t DEF PortInit, TypeOK
  <2>2. Elapsed' = Elapsed
    BY <1>7 DEF PortInit, Elapsed
  <2> QED
    BY <1>7, <2>1, <2>2 DEF PortInit, IInv, Pending, CalmTimer, PromptTimer
<1>8. ASSUME NEW s \in RebootStates, Request(s) PROVE IInv'
  <2>1. TypeOK'
    BY <1>8, <1>t, Zero DEF Request, TypeOK, States
  <2>2. Elapsed' = Elapsed
    BY <1>8 DEF Request, Elapsed
  <2>3. calm => Elapsed <= Period
    BY <1>t, ElapsedBounds DEF IInv, CalmTimer, TypeOK
  <2> QED
    BY <1>8, <2>1, <2>2, <2>3, ElapsedBounds DEF Request, IInv, Pending, CalmTimer, PromptTimer
<1>9. CASE Backup \/ BackupOver
  <2>1. TypeOK'
    BY <1>9, <1>t DEF Backup, BackupOver, TypeOK, States
  <2> QED
    BY <1>9, <2>1
    DEF Backup, BackupOver, IInv, Pending, CalmTimer, PromptTimer, RebootStates
<1>10. CASE Save \/ UNCHANGED vars
  <2>1. TypeOK' /\ Elapsed' = Elapsed
    BY <1>10, <1>t DEF Save, vars, TypeOK, Elapsed
  <2> QED
    BY <1>10, <2>1 DEF Save, vars, IInv, Pending, CalmTimer, PromptTimer
<1> QED
  BY <1>1, <1>2, <1>3, <1>4, <1>5, <1>6, <1>7, <1>8, <1>9, <1>10 DEF Next, Poll, Honour

\* The inductive invariant.
THEOREM Invariance == Spec => []IInv
<1>1. Init => IInv
  BY InitIInv
<1>2. IInv /\ [Next]_vars => IInv'
  BY StepIInv
<1> QED
  BY <1>1, <1>2, PTL DEF Spec

\* The variables keep their types; in particular the timer is set in every round.
THEOREM TypeCorrect == Spec => []TypeOK
<1>1. IInv => TypeOK
  BY DEF IInv
<1> QED
  BY <1>1, Invariance, PTL

-----------------------------------------------------------------------------
\* bacnet_reinitialize_device_task() reboots, or refuses to, at most one sleep
\* early for a request made in calm, wherever k_uptime_get_32() wraps.
THEOREM NeverEarly == Spec => NotEarly
<1>1. ASSUME IInv, Honour, prompt PROVE since >= Delay - Period
  <2>1. state \in RebootStates /\ Elapsed >= Delay
    BY <1>1 DEF Honour, PollReboots, PollRefuses, Expired, IInv, TypeOK
  <2>2. since = Delay \/ Elapsed <= since + Period
    BY <1>1, <2>1 DEF IInv, PromptTimer
  <2> QED
    BY <1>1, <2>1, <2>2, ElapsedBounds, ReinitAssumption DEF IInv, TypeOK
<1>2. IInv /\ [Next]_vars => [Honour /\ prompt => since >= Delay - Period]_vars
  BY <1>1
<1> QED
  BY <1>2, Invariance, PTL DEF Spec, NotEarly

\* Each honoured request was made, and was not honoured before.
THEOREM OnceEach == Spec => HonouredOnce
<1>1. IInv /\ [Next]_vars => [Honour => owed]_vars
  BY DEF IInv, Pending, Honour, PollReboots, PollRefuses
<1> QED
  BY <1>1, Invariance, PTL DEF Spec, HonouredOnce

\* The settings are cleared only for a cold start that nothing has superseded.
THEOREM SettingsRetained == Spec => WarmstartRetains
<1>1. ASSUME IInv, Next, settings' = "cleared", settings = "saved"
      PROVE  last = "coldstart"
  <2>1. CASE Honour
    BY <1>1, <2>1
    DEF Honour, PollReboots, PollRefuses, ColdstartCallback, IInv, Pending
  <2>2. CASE ~Honour
    BY <1>1, <2>2
    DEF Next, Tick, BootInit, Poll, PollIdle, PollNothing, PortInit, Request, Backup, BackupOver,
        Save
  <2> QED
    BY <2>1, <2>2
<1>2. IInv /\ [Next]_vars =>
        [settings' = "cleared" /\ settings = "saved" => last = "coldstart"]_vars
  BY <1>1
<1> QED
  BY <1>2, Invariance, PTL DEF Spec, WarmstartRetains

-----------------------------------------------------------------------------
(* A pending request.                                                      *)

\* A sleep between two rounds that began with a timer that had not expired.  No such
\* sleep is so long that the counter comes round.
Fresh == main = "sleep" /\ port /\ Elapsed < Delay + slept

\* The ticks until the timer has expired.
Remaining == IF Elapsed >= Delay THEN 0 ELSE Delay - Elapsed

\* While a reboot is pending nothing starts the timer again, neither a poll nor another
\* request.  Once the port is up each poll that finds it still running begins a fresh
\* sleep, and from there on each tick brings the reboot nearer until it is due.
CountsDown ==
    state \in RebootStates /\ state' \in RebootStates /\ main # "boot" =>
        /\ UNCHANGED <<start, interval>>
        /\ Poll /\ port => Fresh'
        /\ Fresh => Fresh' /\ Remaining' <= Remaining
        /\ Fresh /\ Tick => Remaining = 0 \/ Remaining' = Remaining - 1
        /\ Fresh /\ Remaining = 0 => Expired

\* Below its wrap a tick adds one to the time shown.
LEMMA ElapsedGrows ==
    ASSUME TypeOK, Elapsed + 1 < TickWrap,
           clock' = (IF clock + 1 = TickWrap THEN 0 ELSE clock + 1), start' = start
    PROVE  Elapsed' = Elapsed + 1
BY ReinitAssumption DEF TypeOK, Elapsed

LEMMA StepCountsDown ==
    ASSUME IInv, [Next]_vars
    PROVE  CountsDown
<1> SUFFICES ASSUME state \in RebootStates, state' \in RebootStates, main # "boot"
             PROVE  /\ UNCHANGED <<start, interval>>
                    /\ Poll /\ port => Fresh'
                    /\ Fresh => Fresh' /\ Remaining' <= Remaining
                    /\ Fresh /\ Tick => Remaining = 0 \/ Remaining' = Remaining - 1
                    /\ Fresh /\ Remaining = 0 => Expired
  BY DEF CountsDown
<1> USE ReinitAssumption
<1>t. /\ TypeOK /\ interval = Delay /\ slept \in Nat /\ slept <= Period
      /\ Elapsed \in Nat /\ Remaining \in Nat
  <2>1. TypeOK /\ Elapsed \in Nat
    BY ElapsedBounds DEF IInv
  <2> QED
    BY <2>1 DEF TypeOK, Remaining
<1>e. Remaining = 0 => Expired
  BY <1>t DEF Remaining, Expired
<1>1. CASE Tick
  <2>1. UNCHANGED <<start, interval, main, port>> /\ ~Poll
    BY <1>1, <1>t DEF Tick, Poll, PollIdle, PollNothing, Honour, PollReboots, PollRefuses, NextRound,
                      RebootStates
  <2>2. ASSUME Fresh PROVE Elapsed' = Elapsed + 1 /\ slept' = slept + 1
    <3>1. slept < Period /\ slept' = slept + 1
      BY <1>1, <2>2 DEF Tick, Fresh
    <3>2. Elapsed + 1 < TickWrap
      BY <1>t, <2>2, <3>1 DEF Fresh
    <3> QED
      BY <1>1, <1>t, <3>1, <3>2, ElapsedGrows DEF Tick
  <2>3. ASSUME Fresh PROVE /\ Fresh' /\ Remaining' <= Remaining
                           /\ Remaining = 0 \/ Remaining' = Remaining - 1
    BY <1>t, <2>1, <2>2, <2>3 DEF Fresh, Remaining
  <2> QED
    BY <1>e, <2>1, <2>3
<1>2. CASE Poll
  <2>1. PollNothing
    BY <1>2 DEF Poll, PollIdle, Honour, PollReboots, PollRefuses, RebootStates
  <2>2. /\ UNCHANGED <<start, interval, clock, port>> /\ slept' = 0 /\ ~Expired
        /\ port => main' = "sleep"
    BY <2>1 DEF PollNothing, NextRound, RebootStates
  <2>3. Elapsed' = Elapsed /\ Elapsed < Delay
    BY <1>t, <2>2 DEF Elapsed, Expired
  <2>4. Remaining' = Remaining /\ (port => Fresh') /\ ~Tick
    BY <1>t, <2>1, <2>2, <2>3 DEF Remaining, Fresh, PollNothing, Tick, NextRound
  <2> QED
    BY <1>e, <1>t, <2>2, <2>4 DEF Fresh
<1>3. CASE UNCHANGED <<main, port, slept, clock, start, interval>>
  <2>1. Elapsed' = Elapsed
    BY <1>3 DEF Elapsed
  <2>2. (Fresh => Fresh') /\ Remaining' = Remaining /\ ~Tick
    BY <1>3, <1>t, <2>1 DEF Fresh, Remaining, Tick, TypeOK
  <2> QED
    BY <1>2, <1>3, <1>e, <1>t, <2>2
<1>4. CASE \E ok \in BOOLEAN : PortInit(ok)
  BY <1>4, <1>e
  DEF PortInit, Fresh, Tick, Poll, PollIdle, PollNothing, Honour, PollReboots, PollRefuses
<1> QED
  BY <1>1, <1>2, <1>3, <1>4 DEF Next, BootInit, Request, Backup, BackupOver, Save, vars

\* A request that is pending comes due: no poll and no further request puts it off.
THEOREM PendingComesDue == Spec => [][CountsDown]_vars
BY StepCountsDown, Invariance, PTL DEF Spec
=============================================================================
