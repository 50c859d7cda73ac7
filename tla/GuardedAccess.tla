---------------------------- MODULE GuardedAccess ----------------------------
(***************************************************************************)
(* What a fortress (internal/worker/fortress) promises to its guard and    *)
(* its guests, whatever happens to the calls in flight: guests are         *)
(* admitted only while the gate is open, and from the moment the guard     *)
(* knows that a Lockdown succeeded until it opens the gate again nobody is *)
(* inside.                                                                 *)
(***************************************************************************)
CONSTANT Tickets

VARIABLES open,    \* the gate lets new visits in
          guests,  \* the visits that have been admitted and have not left
          sealed   \* the guard was told that its Lockdown succeeded

vars == <<open, guests, sealed>>

Init == open = FALSE /\ guests = {} /\ sealed = FALSE

Admit(t) == open /\ guests' = guests \cup {t} /\ UNCHANGED <<open, sealed>>

Depart(t) == guests' = guests \ {t} /\ UNCHANGED <<open, sealed>>

Open == open' = TRUE /\ sealed' = FALSE /\ UNCHANGED guests

Close == open' = FALSE /\ UNCHANGED <<guests, sealed>>

\* The guard may be told of success only when the gate is shut and all left.
Seal == ~open /\ guests = {} /\ sealed' = TRUE /\ UNCHANGED <<open, guests>>

\* A new process starts with a shut gate and nobody inside.
Reset == open' = FALSE /\ guests' = {} /\ sealed' = FALSE

Next == \/ \E t \in Tickets : Admit(t) \/ Depart(t)
        \/ Open \/ Close \/ Seal \/ Reset

Spec == Init /\ [][Next]_vars
=============================================================================
