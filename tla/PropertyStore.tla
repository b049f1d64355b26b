--------------------------- MODULE PropertyStore ---------------------------
(***************************************************************************)
(* What the device promises about the property values clients write: a     *)
(* value that was saved is there again after a restart, whatever happened  *)
(* in between, until it is saved over or erased; a property nobody saved   *)
(* starts from its default.  Storage is checked and proved to implement    *)
(* it, for keys that are loaded at all.                                    *)
(***************************************************************************)
CONSTANTS Slots,      \* the places a value is written to: properties, elements, priorities
          Values,     \* the values
          Default,    \* the value a slot starts from
          Absent      \* nothing saved

VARIABLES up,         \* is the start-up over
          live,       \* the values in use
          durable     \* the saved values

vars == <<up, live, durable>>

Restored(saved) == [s \in Slots |-> IF saved[s] = Absent THEN Default ELSE saved[s]]

\* v in the slots S, the others as they were.
Put(f, S, v) == [s \in Slots |-> IF s \in S THEN v ELSE f[s]]

Init == up = FALSE /\ durable = [s \in Slots |-> Absent] /\ live = Restored(durable)

\* Until the start-up is over nobody writes: the values in use are the restored ones.
Resume      == ~up /\ up' = TRUE /\ UNCHANGED <<live, durable>>

Write       == up /\ live' \in [Slots -> Values] /\ UNCHANGED <<up, durable>>
Save(S, v)  == up /\ durable' = Put(durable, S, v) /\ UNCHANGED <<up, live>>
Erase(S)    == up /\ durable' = Put(durable, S, Absent) /\ UNCHANGED <<up, live>>

\* At any time.
Restart     == up' = FALSE /\ live' = Restored(durable) /\ UNCHANGED durable

Next == \/ \E S \in SUBSET Slots : Erase(S) \/ \E v \in Values : Save(S, v)
        \/ Write
        \/ Resume
        \/ Restart

Spec == Init /\ [][Next]_vars
=============================================================================
