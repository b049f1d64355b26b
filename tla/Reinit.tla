------------------------------- MODULE Reinit -------------------------------
(***************************************************************************)
(* ReinitializeDevice: a request, from the network or from the shell, sets *)
(* the device's reinitialised state; the task handler of the main loop     *)
(* polls it and reboots once a timer has expired, which every poll of the  *)
(* idle state restarts.  A cold start clears the saved settings first.     *)
(* Without CONFIG_REBOOT the device logs an error and goes on.             *)
(*                                                                         *)
(* The timer is a start and an interval on a 32-bit millisecond counter    *)
(* that wraps; its unit here is a tick.  Until the port is initialised     *)
(* each round of the main loop also waits for it, as long as it takes,     *)
(* outside the lock.  Requests come at any time in between (BacnetTask).   *)
(***************************************************************************)
EXTENDS Integers

CONSTANTS Delay,      \* CONFIG_BACNET_REINIT_REBOOT_DELAY
          Period,     \* the longest sleep between two rounds of the main loop
          TickWrap    \* 2^32: where k_uptime_get_32() wraps

ASSUME ReinitAssumption ==
    /\ Delay \in Nat \ {0} /\ Period \in Nat \ {0} /\ TickWrap \in Nat
    /\ Delay + Period <= TickWrap

RebootStates == {"coldstart", "warmstart"}
States == RebootStates \cup {"idle", "backup"}   \* "backup": all that are not polled for

VARIABLES canReboot,   \* was the firmware built with CONFIG_REBOOT
          main,        \* "boot", "sleep" or "wait", where the main loop is
          port,        \* port_initialized
          slept,       \* ticks of the current sleep
          state,       \* Device_Reinitialized_State()
          clock,       \* k_uptime_get_32()
          start, interval,   \* Reinitialize_Timer
          settings,    \* "saved" or "cleared"
          last,        \* history: the last reboot asked for, "none" before
          owed,        \* history: a reboot was asked for and not yet had
          since,       \* history: ticks since it was asked for, Delay at most
          calm,        \* history: the last poll found the device idle and no wait followed
          prompt       \* history: was it asked for in calm

vars == <<canReboot, main, port, slept, state, clock, start, interval, settings,
          last, owed, since, calm, prompt>>

-----------------------------------------------------------------------------
(***************************************************************************)
(* The millisecond timer.                                                  *)
(***************************************************************************)
Elapsed == IF clock >= start THEN clock - start ELSE clock - start + TickWrap

\* An interval of 0 disables the timer.
Expired == interval # 0 /\ Elapsed >= interval

Tick ==
    /\ \/ main = "sleep" /\ slept < Period
       \/ main = "wait"
    /\ clock' = IF clock + 1 = TickWrap THEN 0 ELSE clock + 1
    /\ slept' = IF main = "sleep" THEN slept + 1 ELSE slept
    /\ since' = IF since < Delay THEN since + 1 ELSE since
    /\ UNCHANGED <<canReboot, main, port, state, start, interval, settings,
                   last, owed, calm, prompt>>

-----------------------------------------------------------------------------
(***************************************************************************)
(* The main loop.                                                          *)
(***************************************************************************)
BootWithoutTimer ==
    /\ main = "boot"
    /\ main' = "sleep"
    /\ UNCHANGED <<canReboot, port, slept, state, clock, start, interval, settings,
                   last, owed, since, calm, prompt>>

\* bacnet_basic_init() calls the init handler, which sets the timer.
BootInit ==
    /\ main = "boot"
    /\ main' = "sleep"
    /\ start' = clock /\ interval' = Delay
    /\ UNCHANGED <<canReboot, port, slept, state, clock, settings, last, owed, since, calm, prompt>>

RestartTimer == start' = clock /\ UNCHANGED interval

AlwaysClear == settings' = "cleared"
ColdstartCallback == settings' = IF state = "coldstart" THEN "cleared" ELSE settings

\* After the task handler the loop sleeps again, or waits for the port.
NextRound ==
    /\ main' = IF port THEN "sleep" ELSE "wait"
    /\ slept' = 0

PollIdle ==
    /\ main = "sleep" /\ state = "idle"
    /\ NextRound
    /\ RestartTimer
    /\ calm' = port
    /\ UNCHANGED <<canReboot, port, state, clock, settings, last, owed, since, prompt>>

PollRestarts ==
    /\ main = "sleep"
    /\ state = "backup" \/ (state \in RebootStates /\ ~Expired)
    /\ NextRound
    /\ RestartTimer
    /\ calm' = FALSE
    /\ UNCHANGED <<canReboot, port, state, clock, settings, last, owed, since, prompt>>

\* No timer to look at, or one that has not expired.
PollNothing ==
    /\ main = "sleep"
    /\ state = "backup" \/ (state \in RebootStates /\ ~Expired)
    /\ NextRound
    /\ calm' = FALSE
    /\ UNCHANGED <<canReboot, port, state, clock, start, interval, settings, last, owed, since,
                   prompt>>

PollIgnoresTimer ==
    /\ main = "sleep" /\ state \in RebootStates
    /\ ColdstartCallback
    /\ canReboot
    /\ main' = "boot" /\ state' = "idle"
    /\ port' = FALSE /\ slept' = 0
    /\ clock' = 0 /\ start' = 0 /\ interval' = 0
    /\ owed' = FALSE /\ calm' = FALSE
    /\ UNCHANGED <<canReboot, last, since, prompt>>

\* sys_reboot(): RAM starts over, the settings stay.
PollReboots ==
    /\ main = "sleep" /\ state \in RebootStates /\ Expired
    /\ canReboot
    /\ ColdstartCallback
    /\ main' = "boot" /\ state' = "idle"
    /\ port' = FALSE /\ slept' = 0
    /\ clock' = 0 /\ start' = 0 /\ interval' = 0
    /\ owed' = FALSE /\ calm' = FALSE
    /\ UNCHANGED <<canReboot, last, since, prompt>>

RefuseKeepsState ==
    /\ main = "sleep" /\ state \in RebootStates /\ Expired
    /\ ~canReboot
    /\ ColdstartCallback
    /\ RestartTimer
    /\ NextRound
    /\ owed' = FALSE /\ calm' = FALSE
    /\ UNCHANGED <<canReboot, port, state, clock, last, since, prompt>>

\* "Reboot not supported on this platform", after the settings were cleared.
PollRefuses ==
    /\ main = "sleep" /\ state \in RebootStates /\ Expired
    /\ ~canReboot
    /\ ColdstartCallback
    /\ RestartTimer
    /\ state' = "idle"
    /\ NextRound
    /\ owed' = FALSE /\ calm' = FALSE
    /\ UNCHANGED <<canReboot, port, clock, last, since, prompt>>

\* bacnet_port_init() returns; if it failed the next round calls it again.
PortInit(ok) ==
    /\ main = "wait"
    /\ main' = "sleep"
    /\ port' = ok
    /\ UNCHANGED <<canReboot, slept, state, clock, start, interval, settings,
                   last, owed, since, calm, prompt>>

-----------------------------------------------------------------------------
(***************************************************************************)
(* The others.                                                             *)
(***************************************************************************)
\* Device_Reinitialize() accepts a reboot; one asked for before is superseded.
Request(s) ==
    /\ state' = s
    /\ last' = s /\ owed' = TRUE /\ since' = 0 /\ prompt' = calm /\ calm' = FALSE
    /\ UNCHANGED <<canReboot, main, port, slept, clock, start, interval, settings>>

\* It accepts the start of a backup or another state the task does not poll for.
Backup ==
    /\ state' = "backup"
    /\ owed' = FALSE /\ calm' = FALSE
    /\ UNCHANGED <<canReboot, main, port, slept, clock, start, interval, settings,
                   last, since, prompt>>

BackupOver ==
    /\ state = "backup"
    /\ state' = "idle"
    /\ UNCHANGED <<canReboot, main, port, slept, clock, start, interval, settings,
                   last, owed, since, calm, prompt>>

\* A property value is saved again.
Save ==
    /\ main # "boot"
    /\ settings' = "saved"
    /\ UNCHANGED <<canReboot, main, port, slept, state, clock, start, interval,
                   last, owed, since, calm, prompt>>

-----------------------------------------------------------------------------
Init ==
    /\ canReboot \in BOOLEAN
    /\ main = "boot" /\ port = FALSE /\ slept = 0
    /\ state = "idle"
    /\ clock = 0 /\ start = 0 /\ interval = 0
    /\ settings = "saved"
    /\ last = "none" /\ owed = FALSE /\ since = 0 /\ calm = FALSE /\ prompt = FALSE

Honour == PollReboots \/ PollRefuses
Poll == PollIdle \/ PollNothing \/ Honour

Next ==
    \/ Tick
    \/ BootInit
    \/ Poll
    \/ \E ok \in BOOLEAN : PortInit(ok)
    \/ \E s \in RebootStates : Request(s)
    \/ Backup
    \/ BackupOver
    \/ Save

\* Time passes, and the loop wakes up after its sleep.  Nothing says that the port
\* is ever initialised.
Spec == Init /\ [][Next]_vars /\ WF_vars(Tick) /\ WF_vars(BootInit) /\ WF_vars(Poll)

-----------------------------------------------------------------------------
(***************************************************************************)
(* Properties.                                                             *)
(***************************************************************************)
\* The types of the variables.
TypeOK ==
    /\ canReboot \in BOOLEAN /\ port \in BOOLEAN
    /\ main \in {"boot", "sleep", "wait"}
    /\ slept \in 0..Period
    /\ state \in States
    /\ clock \in 0..TickWrap-1 /\ start \in 0..TickWrap-1
    /\ interval \in {0, Delay} /\ (main # "boot" => interval = Delay)
    /\ settings \in {"saved", "cleared"}
    /\ last \in RebootStates \cup {"none"}
    /\ owed \in BOOLEAN /\ calm \in BOOLEAN /\ prompt \in BOOLEAN
    /\ since \in 0..Delay

\* A reboot asked for in calm comes no more than one sleep early: the timer then
\* runs from the poll before the request, wherever the counter wraps.
NotEarly == [][Honour /\ prompt => since >= Delay - Period]_vars

\* A request is honoured once, reboot or not: the state does not stay behind and
\* clear the settings again and again.
HonouredOnce == [][Honour => owed]_vars

\* "WARMSTART shall mean to reboot the device and start over, retaining all data":
\* the settings are cleared only when the last reboot asked for was a cold start.
WarmstartRetains == [][settings' = "cleared" /\ settings = "saved" => last = "coldstart"]_vars

\* Once the waits for the port are over, a reboot that was asked for comes, or a
\* backup is started instead; further requests do not postpone it.
RequestHonoured ==
    <>[](main # "wait") => (state \in RebootStates ~> state \notin RebootStates)

\* Kconfig: "Minimum reboot delay in milliseconds after receiving the BACnet
\* ReinitializeDevice service".
MinimumDelay == [][PollReboots => since >= Delay]_vars
=============================================================================
