--------------------------- MODULE FortressProofs ---------------------------
(***************************************************************************)
(* The fortress implements GuardedAccess, for any number of tickets,       *)
(* occupiers and waiting goroutines.                                       *)
(***************************************************************************)
EXTENDS Fortress, TLAPS

\* What the guard was told still holds.
SealedEmpty == sealed => ~open /\ Active = {}

\* While a Lockdown is being completed the gate stays shut, and its done
\* channel is closed only when nobody is left.
PendingShut ==
  (guard = "completing" /\ op = "lock") => ~open /\ (closed => Active = {})

IInv == FortressTypeOK /\ SealedEmpty /\ PendingShut

\* The fortress starts with the gate shut, nobody inside and no call pending.
LEMMA InitIInv == Init => IInv
BY FortressAssumption DEF Init, IInv, FortressTypeOK, SealedEmpty, PendingShut, Active

\* Tickets keep their types, and a worker stays within its occupier's visit.
LEMMA GuestTyped ==
  ASSUME FortressTypeOK, NEW t \in Tickets, GuestStep(t)
  PROVE  FortressTypeOK'
<1> USE FortressAssumption DEF FortressTypeOK, gateVars, guestVars, guardVars, occVars
<1>1. CASE Visit(t)
  BY <1>1 DEF Visit
<1>2. CASE Cancel(t)
  BY <1>2 DEF Cancel
<1>3. CASE VisitGivesUp(t)
  BY <1>3 DEF VisitGivesUp
<1>4. CASE AdmitGuest(t)
  BY <1>4 DEF AdmitGuest
<1>5. CASE CompleteGuest(t)
  BY <1>5 DEF CompleteGuest
<1>6. CASE VisitReturns(t)
  BY <1>6 DEF VisitReturns
<1>7. CASE Finished(t)
  BY <1>7 DEF Finished
<1>8. CASE WorkerStarts(t)
  BY <1>8 DEF WorkerStarts
<1>9. CASE StartFails(t)
  BY <1>9 DEF StartFails
<1>10. CASE HandOver(t)
  BY <1>10 DEF HandOver
<1>11. CASE KillUnclaimed(t)
  BY <1>11 DEF KillUnclaimed
<1>12. CASE StartErrorEnds(t)
  BY <1>12 DEF StartErrorEnds
<1>13. CASE OwnerKills(t)
  BY <1>13 DEF OwnerKills
<1>14. CASE WorkerEnds(t)
  BY <1>14 DEF WorkerEnds
<1>15. CASE OccupyFails(t)
  BY <1>15 DEF OccupyFails
<1> QED
  BY <1>1, <1>2, <1>3, <1>4, <1>5, <1>6, <1>7, <1>8, <1>9, <1>10, <1>11, <1>12,
     <1>13, <1>14, <1>15 DEF GuestStep

\* A ticket enters the set of active visits only through an open gate, and no
\* other step of a guest adds to it.
LEMMA GuestActive ==
  ASSUME FortressTypeOK, NEW t \in Tickets, GuestStep(t)
  PROVE  /\ UNCHANGED <<open, sealed, guard, op, closed>>
         /\ \/ Active' = Active
            \/ Active' = Active \ {t}
            \/ open /\ Active' = Active \cup {t}
<1> USE DEF FortressTypeOK, gateVars, guestVars, guardVars, occVars, Active
<1>1. CASE Visit(t)
  BY <1>1 DEF Visit
<1>2. CASE Cancel(t)
  BY <1>2 DEF Cancel
<1>3. CASE VisitGivesUp(t)
  BY <1>3 DEF VisitGivesUp
<1>4. CASE AdmitGuest(t)
  BY <1>4 DEF AdmitGuest
<1>5. CASE CompleteGuest(t)
  BY <1>5 DEF CompleteGuest
<1>6. CASE VisitReturns(t)
  BY <1>6 DEF VisitReturns
<1>7. CASE Finished(t)
  BY <1>7 DEF Finished
<1>8. CASE WorkerStarts(t) \/ StartFails(t) \/ HandOver(t) \/ KillUnclaimed(t)
           \/ OwnerKills(t) \/ OccupyFails(t)
  BY <1>8 DEF WorkerStarts, StartFails, HandOver, KillUnclaimed, OwnerKills, OccupyFails
<1>9. CASE StartErrorEnds(t)
  BY <1>9 DEF StartErrorEnds
<1>10. CASE WorkerEnds(t)
  BY <1>10 DEF WorkerEnds
<1> QED
  BY <1>1, <1>2, <1>3, <1>4, <1>5, <1>6, <1>7, <1>8, <1>9, <1>10 DEF GuestStep

\* The steps of the guard, the waiters and the loop keep the types.
LEMMA GuardTyped ==
  ASSUME FortressTypeOK,
         GuardStep \/ Kill \/ LoopExits \/ \E w \in Waiters : WaitStarts(w) \/ WaitWakes(w)
  PROVE  FortressTypeOK'
<1> USE FortressAssumption DEF FortressTypeOK, gateVars, guestVars, guardVars, occVars
<1>1. CASE \E o \in {"unlock", "lock"} : GuardCalls(o)
  BY <1>1, ZenonT(60) DEF GuardCalls
<1>2. CASE CancelGuard \/ GuardShutdown \/ GuardReturns \/ GuardAborts
  BY <1>2, ZenonT(60) DEF CancelGuard, GuardShutdown, GuardReturns, GuardAborts
<1>3. CASE TakeUnlock
  BY <1>3 DEF TakeUnlock
<1>4. CASE TakeLockdown
  BY <1>4 DEF TakeLockdown
<1>5. CASE Kill \/ LoopExits
  BY <1>5, ZenonT(60) DEF Kill, LoopExits
<1>6. ASSUME NEW w \in Waiters, WaitStarts(w)
      PROVE  FortressTypeOK'
  BY <1>6 DEF WaitStarts
<1>7. ASSUME NEW w \in Waiters, WaitWakes(w)
      PROVE  FortressTypeOK'
  BY <1>7 DEF WaitWakes
<1> QED
  BY <1>1, <1>2, <1>3, <1>4, <1>5, <1>6, <1>7 DEF GuardStep

\* The invariant is inductive.
LEMMA NextIInv == IInv /\ [Next]_vars => IInv'
<1> SUFFICES ASSUME IInv, [Next]_vars
             PROVE  IInv'
  OBVIOUS
<1> USE DEF IInv
<1>1. CASE UNCHANGED vars
  BY <1>1 DEF vars, gateVars, guestVars, guardVars, occVars, FortressTypeOK,
              SealedEmpty, PendingShut, Active
<1>2. CASE Restart
  BY <1>2, FortressAssumption
     DEF Restart, FortressTypeOK, SealedEmpty, PendingShut, Active
<1>3. ASSUME NEW t \in Tickets, GuestStep(t)
      PROVE  IInv'
  BY <1>3, GuestTyped, GuestActive DEF SealedEmpty, PendingShut
<1>4. ASSUME NEW w \in Waiters, WaitStarts(w) \/ WaitWakes(w)
      PROVE  IInv'
  <2>1. FortressTypeOK'
    BY <1>4, GuardTyped
  <2>2. SealedEmpty' /\ PendingShut'
    BY <1>4 DEF WaitStarts, WaitWakes, gateVars, guestVars, guardVars, occVars,
                SealedEmpty, PendingShut, Active, FortressTypeOK
  <2> QED
    BY <2>1, <2>2
<1>5. CASE GuardStep \/ Kill \/ LoopExits
  <2>1. FortressTypeOK'
    BY <1>5, GuardTyped
  <2> USE DEF gateVars, guestVars, guardVars, occVars, SealedEmpty, PendingShut, Active
  <2>2. CASE \E o \in {"unlock", "lock"} : GuardCalls(o)
    BY <2>1, <2>2 DEF GuardCalls
  <2>3. CASE CancelGuard \/ GuardShutdown \/ Kill \/ LoopExits
    BY <2>1, <2>3 DEF CancelGuard, GuardShutdown, Kill, LoopExits
  <2>4. CASE TakeUnlock \/ TakeLockdown
    BY <2>1, <2>4 DEF TakeUnlock, TakeLockdown
  <2>5. CASE GuardReturns
    BY <2>1, <2>5 DEF GuardReturns, FortressTypeOK
  <2>6. CASE GuardAborts
    BY <2>1, <2>6 DEF GuardAborts
  <2> QED
    BY <1>5, <2>2, <2>3, <2>4, <2>5, <2>6 DEF GuardStep
<1> QED
  BY <1>1, <1>2, <1>3, <1>4, <1>5 DEF Next

\* The invariant holds in every reachable state.
LEMMA Invariant == Spec => []IInv
BY InitIInv, NextIInv, PTL DEF Spec

\* The variables keep their types for any number of tickets and waiters, and a
\* worker lives only inside its occupier's visit.
THEOREM FortressTypeCorrect == Spec => []FortressTypeOK
<1>1. IInv => FortressTypeOK
  BY DEF IInv
<1> QED
  BY Invariant, <1>1, PTL

\* Every step of the fortress is a step of GuardedAccess or invisible to it.
LEMMA StepImplements ==
  ASSUME IInv, [Next]_vars
  PROVE  [Access!Next]_(Access!vars)
<1> USE DEF Access!Next, Access!vars
<1>1. CASE UNCHANGED vars
  BY <1>1 DEF vars, gateVars, guestVars, guardVars, Active
<1>2. CASE Restart
  <2>1. Active' = {}
    BY <1>2 DEF Restart, Active
  <2> QED
    BY <1>2, <2>1 DEF Restart, Access!Reset
<1>3. ASSUME NEW t \in Tickets, GuestStep(t)
      PROVE  [Access!Next]_(Access!vars)
  BY <1>3, GuestActive DEF IInv, Access!Admit, Access!Depart
<1>4. ASSUME NEW w \in Waiters, WaitStarts(w) \/ WaitWakes(w)
      PROVE  [Access!Next]_(Access!vars)
  BY <1>4 DEF WaitStarts, WaitWakes, gateVars, guestVars, Active
<1>5. CASE GuardStep \/ Kill \/ LoopExits
  <2> USE DEF gateVars, guestVars, guardVars, Active
  <2>1. CASE \E o \in {"unlock", "lock"} : GuardCalls(o)
    BY <2>1 DEF GuardCalls
  <2>2. CASE CancelGuard \/ GuardShutdown \/ GuardAborts \/ Kill \/ LoopExits
    BY <2>2 DEF CancelGuard, GuardShutdown, GuardAborts, Kill, LoopExits
  <2>3. CASE TakeUnlock
    BY <2>3 DEF TakeUnlock, Access!Open
  <2>4. CASE TakeLockdown
    BY <2>4 DEF TakeLockdown, Access!Close
  <2>5. CASE GuardReturns
    <3>1. CASE op = "lock"
      BY <2>5, <3>1 DEF GuardReturns, IInv, PendingShut, Access!Seal
    <3>2. CASE op # "lock"
      BY <2>5, <3>2 DEF GuardReturns, IInv, FortressTypeOK
    <3> QED
      BY <3>1, <3>2
  <2> QED
    BY <1>5, <2>1, <2>2, <2>3, <2>4, <2>5 DEF GuardStep
<1> QED
  BY <1>1, <1>2, <1>3, <1>4, <1>5 DEF Next

\* The fortress implements its promise for any number of guests: a Lockdown
\* answered with nil means that no visit is inside, and none is admitted until
\* the guard opens the gate again.
THEOREM FortressImplementsAccess == Spec => ImplementsAccess
<1>1. Init => Access!Init
  BY DEF Init, Access!Init, Active
<1>2. IInv /\ [Next]_vars => [Access!Next]_(Access!vars)
  BY StepImplements
<1> QED
  BY <1>1, <1>2, Invariant, PTL DEF Spec, ImplementsAccess, Access!Spec
=============================================================================
