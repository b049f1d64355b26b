---------------------------- MODULE AtomicClock ----------------------------
(***************************************************************************)
(* What the device promises about its clock: a synchronisation and a       *)
(* reading each happen at one instant, so nobody ever sees the new time    *)
(* beside the old date.  BacnetTask, where a store and a reading each take *)
(* two steps under the task lock, is checked and proved to implement it.   *)
(***************************************************************************)
CONSTANTS Readers,    \* the threads that read the clock
          Clocks,     \* the date-and-time values a synchronisation may carry
          Epoch       \* the value the clock starts from

VARIABLES clock,      \* the current date and time
          seen        \* the two halves each reader got last

Whole(c) == [time |-> c, date |-> c]

Init == /\ clock = Epoch
        /\ seen = [r \in Readers |-> Whole(Epoch)]

\* datetime_timesync(): the clock becomes c.
Sync(c) == /\ clock' = c
           /\ UNCHANGED seen

\* datetime_local(): r gets both halves of the clock.
Local(r) == /\ seen' = [seen EXCEPT ![r] = Whole(clock)]
            /\ UNCHANGED clock

Next == \/ \E c \in Clocks : Sync(c)
        \/ \E r \in Readers : Local(r)

Spec == Init /\ [][Next]_<<clock, seen>>
=============================================================================
