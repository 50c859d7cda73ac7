------------------------------ MODULE Fortress ------------------------------
(***************************************************************************)
(* The fortress worker (internal/worker/fortress): one guard opens and     *)
(* locks down a gate, guests run visits while it is open, and Occupy keeps *)
(* a visit open for the life of a worker.  A ticket is one call of Visit;  *)
(* the tickets in Occupiers are calls made by Occupy.  The WaitGroup that  *)
(* counts admitted visits is modelled with its own rule: a goroutine whose *)
(* Wait was released must be back before the next Add, or it panics.       *)
(***************************************************************************)
CONSTANTS Tickets,    \* calls of Visit that may be in flight
          Occupiers,  \* the ones made by Occupy
          Waiters,    \* goroutines that may be inside active.Wait for a Lockdown
          None

ASSUME FortressAssumption == Occupiers \subseteq Tickets /\ None \notin Waiters

VARIABLES
  loop,      \* "running" or "exited": the goroutine of fortress.loop
  dying,     \* the tomb is dying
  open,      \* the loop's guestTickets is not nil
  ticket,    \* where each Visit is
  ctxDone,   \* the context of each Visit is done
  guard,     \* the guard's call: "idle", "offering" or "completing"
  op,        \* what it asks for: "unlock" or "lock"
  guardDone, \* its context is done
  mine,      \* the waiter started for the guard's pending Lockdown
  closed,    \* the done channel of the guard's ticket is closed
  waiter,    \* the goroutines in active.Wait, those of aborted Lockdowns too
  sealed,    \* history: the guard was told nil by Lockdown, no Unlock since
  caller,    \* the Occupy call of each occupier
  occ,       \* the worker inside each occupying visit
  panicked   \* the process died of a WaitGroup panic

gateVars == <<loop, dying, open>>
guestVars == <<ticket, ctxDone>>
guardVars == <<guard, op, guardDone, mine, closed, sealed>>
occVars == <<caller, occ>>
vars == <<gateVars, guestVars, guardVars, waiter, occVars, panicked>>

\* The visits the WaitGroup counts: Add(1) at admission, Done when the
\* completing goroutine ends, after the visitor has its result.
Active == {t \in Tickets : ticket[t] \in {"accepted", "inside", "finishing"}}

Init ==
  /\ loop = "running" /\ dying = FALSE /\ open = FALSE
  /\ ticket = [t \in Tickets |-> "free"]
  /\ ctxDone = [t \in Tickets |-> FALSE]
  /\ guard = "idle" /\ op = "lock" /\ guardDone = FALSE
  /\ mine = None /\ closed = FALSE /\ sealed = FALSE
  /\ waiter = [w \in Waiters |-> "none"]
  /\ caller = [t \in Tickets |-> "none"]
  /\ occ = [t \in Tickets |-> "none"]
  /\ panicked = FALSE

----------------------------------------------------------------------------
(* Visit and Occupy, up to the admission of the ticket.                    *)

\* A call of Visit, made by a goroutine of Occupy for an occupier.
Visit(t) ==
  /\ ticket[t] = "free" /\ caller[t] # "waiting"
  /\ ticket' = [ticket EXCEPT ![t] = "offered"]
  /\ ctxDone' = [ctxDone EXCEPT ![t] = FALSE]
  /\ caller' = [caller EXCEPT ![t] = IF t \in Occupiers THEN "waiting" ELSE "none"]
  /\ UNCHANGED <<gateVars, guardVars, waiter, occ, panicked>>

Cancel(t) ==
  /\ ticket[t] # "free" /\ ~ctxDone[t]
  /\ ctxDone' = [ctxDone EXCEPT ![t] = TRUE]
  /\ UNCHANGED <<gateVars, ticket, guardVars, waiter, occVars, panicked>>

\* ErrShutdown or ErrAborted before the loop took the ticket.
VisitGivesUp(t) ==
  /\ ticket[t] = "offered" /\ (dying \/ ctxDone[t])
  /\ ticket' = [ticket EXCEPT ![t] = "free"]
  /\ UNCHANGED <<gateVars, ctxDone, guardVars, waiter, occVars, panicked>>

\* case ticket := <-guestTickets.
AdmitGuest(t) ==
  /\ loop = "running" /\ open /\ ticket[t] = "offered"
  /\ ticket' = [ticket EXCEPT ![t] = "accepted"]
  /\ UNCHANGED <<gateVars, ctxDone, guardVars, waiter, occVars, panicked>>

----------------------------------------------------------------------------
(* guestTicket.complete, on a goroutine of its own.                        *)

\* Mutant of CompleteGuest: the task starts whatever the context says.
CompleteGuestUnchecked(t) ==
  /\ ticket[t] = "accepted"
  /\ ticket' = [ticket EXCEPT ![t] = IF ctxDone[t] THEN "finishing" ELSE "inside"]
  /\ occ' = [occ EXCEPT ![t] = IF t \in Occupiers THEN "starting" ELSE "none"]
  /\ UNCHANGED <<gateVars, ctxDone, guardVars, waiter, caller, panicked>>

CompleteGuest(t) ==
  /\ ticket[t] = "accepted"
  /\ ticket' = [ticket EXCEPT ![t] = IF ctxDone[t] THEN "finishing" ELSE "inside"]
  /\ occ' = [occ EXCEPT ![t] =
               IF t \in Occupiers /\ ~ctxDone[t] THEN "starting" ELSE "none"]
  /\ UNCHANGED <<gateVars, ctxDone, guardVars, waiter, caller, panicked>>

\* A plain visit returns and its result is sent.
VisitReturns(t) ==
  /\ ticket[t] = "inside" /\ t \notin Occupiers
  /\ ticket' = [ticket EXCEPT ![t] = "finishing"]
  /\ UNCHANGED <<gateVars, ctxDone, guardVars, waiter, occVars, panicked>>

\* Mutant of Finished: Done is called without waking anybody.
FinishedSilently(t) ==
  /\ ticket[t] = "finishing"
  /\ ticket' = [ticket EXCEPT ![t] = "free"]
  /\ UNCHANGED <<gateVars, ctxDone, guardVars, waiter, occVars, panicked>>

\* The deferred active.Done: the last one releases every Wait.
Finished(t) ==
  /\ ticket[t] = "finishing"
  /\ ticket' = [ticket EXCEPT ![t] = "free"]
  /\ waiter' = IF Active = {t}
               THEN [w \in Waiters |-> IF waiter[w] = "waiting" THEN "released"
                                                                ELSE waiter[w]]
               ELSE waiter
  /\ UNCHANGED <<gateVars, ctxDone, guardVars, occVars, panicked>>

----------------------------------------------------------------------------
(* The task of Occupy, run as a visit, and the caller that waits for it.   *)

WorkerStarts(t) ==
  /\ occ[t] = "starting"
  /\ occ' = [occ EXCEPT ![t] = "up"]
  /\ UNCHANGED <<gateVars, guestVars, guardVars, waiter, caller, panicked>>

StartFails(t) ==
  /\ occ[t] = "starting"
  /\ occ' = [occ EXCEPT ![t] = "failed"]
  /\ UNCHANGED <<gateVars, guestVars, guardVars, waiter, caller, panicked>>

\* case started <- worker.
HandOver(t) ==
  /\ occ[t] = "up" /\ caller[t] = "waiting"
  /\ occ' = [occ EXCEPT ![t] = "owned"]
  /\ caller' = [caller EXCEPT ![t] = "worker"]
  /\ UNCHANGED <<gateVars, guestVars, guardVars, waiter, panicked>>

\* Mutant of KillUnclaimed: the task goes on to worker.Wait without the Kill.
KillUnclaimedNot(t) ==
  /\ occ[t] = "up" /\ ctxDone[t]
  /\ occ' = [occ EXCEPT ![t] = "owned"]
  /\ UNCHANGED <<gateVars, guestVars, guardVars, waiter, caller, panicked>>

\* case <-ctx.Done(): nobody will take the worker, so the task kills it.
KillUnclaimed(t) ==
  /\ occ[t] = "up" /\ ctxDone[t]
  /\ occ' = [occ EXCEPT ![t] = "killed"]
  /\ UNCHANGED <<gateVars, guestVars, guardVars, waiter, caller, panicked>>

\* The start error is handed to the caller, or dropped when ctx is done.
StartErrorEnds(t) ==
  /\ occ[t] = "failed"
  /\ \/ caller[t] = "waiting" /\ caller' = [caller EXCEPT ![t] = "error"]
     \/ ctxDone[t] /\ UNCHANGED caller
  /\ occ' = [occ EXCEPT ![t] = "none"]
  /\ ticket' = [ticket EXCEPT ![t] = "finishing"]
  /\ UNCHANGED <<gateVars, ctxDone, guardVars, waiter, panicked>>

\* Whoever was given the worker kills it.
OwnerKills(t) ==
  /\ occ[t] = "owned"
  /\ occ' = [occ EXCEPT ![t] = "killed"]
  /\ UNCHANGED <<gateVars, guestVars, guardVars, waiter, caller, panicked>>

\* worker.Wait returns, killed or by itself, and the visit with it.
WorkerEnds(t) ==
  /\ occ[t] \in {"owned", "killed"}
  /\ occ' = [occ EXCEPT ![t] = "none"]
  /\ ticket' = [ticket EXCEPT ![t] = "finishing"]
  /\ UNCHANGED <<gateVars, ctxDone, guardVars, waiter, caller, panicked>>

\* Occupy returns an error: its ctx is done, or Visit failed.
OccupyFails(t) ==
  /\ caller[t] = "waiting" /\ (ctxDone[t] \/ ticket[t] = "free")
  /\ caller' = [caller EXCEPT ![t] = "error"]
  /\ UNCHANGED <<gateVars, guestVars, guardVars, waiter, occ, panicked>>

----------------------------------------------------------------------------
(* Unlock and Lockdown.  There is one guard, which calls one at a time.    *)

\* Bound: a Lockdown is asked for only when a waiter is left to serve it.
GuardCalls(o) ==
  /\ guard = "idle"
  /\ o = "lock" => \E w \in Waiters : waiter[w] = "none"
  /\ guard' = "offering" /\ op' = o /\ guardDone' = FALSE
  /\ UNCHANGED <<gateVars, guestVars, mine, closed, sealed, waiter, occVars, panicked>>

CancelGuard ==
  /\ guard # "idle" /\ ~guardDone
  /\ guardDone' = TRUE
  /\ UNCHANGED <<gateVars, guestVars, guard, op, mine, closed, sealed, waiter,
                 occVars, panicked>>

\* allowGuests gives up only when the fortress is dying, never for its ctx.
GuardShutdown ==
  /\ guard = "offering" /\ dying
  /\ guard' = "idle"
  /\ UNCHANGED <<gateVars, guestVars, op, guardDone, mine, closed, sealed, waiter,
                 occVars, panicked>>

\* case ticket := <-f.guardTickets, allowGuests true.
TakeUnlock ==
  /\ loop = "running" /\ guard = "offering" /\ op = "unlock"
  /\ open' = TRUE /\ sealed' = FALSE
  /\ guard' = "completing" /\ closed' = TRUE
  /\ UNCHANGED <<loop, dying, guestVars, op, guardDone, mine, waiter, occVars, panicked>>

\* Mutant of TakeLockdown: guestTickets is not set to nil.
TakeLockdownAjar ==
  /\ loop = "running" /\ guard = "offering" /\ op = "lock"
  /\ guard' = "completing" /\ closed' = FALSE
  /\ \E w \in Waiters :
       /\ waiter[w] = "none"
       /\ waiter' = [waiter EXCEPT ![w] = "new"]
       /\ mine' = w
  /\ UNCHANGED <<gateVars, guestVars, op, guardDone, sealed, occVars, panicked>>

\* The same, allowGuests false: complete starts a goroutine in active.Wait.
TakeLockdown ==
  /\ loop = "running" /\ guard = "offering" /\ op = "lock"
  /\ open' = FALSE
  /\ guard' = "completing" /\ closed' = FALSE
  /\ \E w \in Waiters :
       /\ waiter[w] = "none"
       /\ waiter' = [waiter EXCEPT ![w] = "new"]
       /\ mine' = w
  /\ UNCHANGED <<loop, dying, guestVars, op, guardDone, sealed, occVars, panicked>>

\* Wait returns at once when nothing is active, otherwise it sleeps.
WaitStarts(w) ==
  /\ waiter[w] = "new"
  /\ waiter' = [waiter EXCEPT ![w] = IF Active = {} THEN "none" ELSE "waiting"]
  /\ closed' = (closed \/ (mine = w /\ Active = {}))
  /\ mine' = IF mine = w /\ Active = {} THEN None ELSE mine
  /\ UNCHANGED <<gateVars, guestVars, guard, op, guardDone, sealed, occVars, panicked>>

\* A released Wait wakes; a counter that is not zero by then is a panic,
\* "WaitGroup is reused before previous Wait has returned".
WaitWakes(w) ==
  /\ waiter[w] = "released"
  /\ waiter' = [waiter EXCEPT ![w] = "none"]
  /\ panicked' = (Active # {})
  /\ closed' = (closed \/ (mine = w /\ Active = {}))
  /\ mine' = IF mine = w THEN None ELSE mine
  /\ UNCHANGED <<gateVars, guestVars, guard, op, guardDone, sealed, occVars>>

\* guardTicket.complete: case <-done.
GuardReturns ==
  /\ guard = "completing" /\ closed
  /\ guard' = "idle" /\ sealed' = (sealed \/ op = "lock")
  /\ UNCHANGED <<gateVars, guestVars, op, guardDone, mine, closed, waiter, occVars,
                 panicked>>

\* The same, case <-ctx.Done(): ErrAborted, and the waiter is left behind.
GuardAborts ==
  /\ guard = "completing" /\ guardDone
  /\ guard' = "idle" /\ mine' = None
  /\ UNCHANGED <<gateVars, guestVars, op, guardDone, closed, sealed, waiter, occVars,
                 panicked>>

----------------------------------------------------------------------------
Kill ==
  /\ ~dying
  /\ dying' = TRUE
  /\ UNCHANGED <<loop, open, guestVars, guardVars, waiter, occVars, panicked>>

\* case <-f.tomb.Dying(), and the deferred active.Wait.
LoopExits ==
  /\ dying /\ loop = "running"
  /\ loop' = "exited"
  /\ UNCHANGED <<dying, open, guestVars, guardVars, waiter, occVars, panicked>>

\* The agent is started again, with a new fortress, once this one is dead.
Restart ==
  /\ panicked \/ (loop = "exited" /\ Active = {} /\ guard = "idle")
  /\ loop' = "running" /\ dying' = FALSE /\ open' = FALSE
  /\ ticket' = [t \in Tickets |-> "free"]
  /\ ctxDone' = [t \in Tickets |-> FALSE]
  /\ guard' = "idle" /\ op' = "lock" /\ guardDone' = FALSE
  /\ mine' = None /\ closed' = FALSE /\ sealed' = FALSE
  /\ waiter' = [w \in Waiters |-> "none"]
  /\ caller' = [t \in Tickets |-> "none"]
  /\ occ' = [t \in Tickets |-> "none"]
  /\ panicked' = FALSE

GuestStep(t) ==
  \/ Visit(t) \/ Cancel(t) \/ VisitGivesUp(t) \/ AdmitGuest(t)
  \/ CompleteGuest(t) \/ VisitReturns(t) \/ Finished(t)
  \/ WorkerStarts(t) \/ StartFails(t) \/ HandOver(t) \/ KillUnclaimed(t)
  \/ StartErrorEnds(t) \/ OwnerKills(t) \/ WorkerEnds(t) \/ OccupyFails(t)

GuardStep ==
  \/ \E o \in {"unlock", "lock"} : GuardCalls(o)
  \/ CancelGuard \/ GuardShutdown \/ TakeUnlock \/ TakeLockdown
  \/ GuardReturns \/ GuardAborts

Next ==
  \/ ~panicked /\ \/ \E t \in Tickets : GuestStep(t)
                  \/ \E w \in Waiters : WaitStarts(w) \/ WaitWakes(w)
                  \/ GuardStep \/ Kill \/ LoopExits
  \/ Restart

\* Goroutines run; a worker's start returns, and so does its Wait once it is
\* killed; a plain visit returns.  Nobody has to call, cancel or kill, and a
\* worker that was handed over may live for ever.
Fairness ==
  /\ \A t \in Tickets :
       /\ WF_vars(~panicked /\ (CompleteGuest(t) \/ VisitReturns(t) \/ Finished(t)))
       /\ WF_vars(~panicked /\ (WorkerStarts(t) \/ StartFails(t)))
       /\ WF_vars(~panicked /\ (HandOver(t) \/ KillUnclaimed(t) \/ StartErrorEnds(t)))
       /\ WF_vars(~panicked /\ occ[t] = "killed" /\ WorkerEnds(t))
       /\ WF_vars(~panicked /\ OccupyFails(t))
  /\ \A w \in Waiters : WF_vars(~panicked /\ (WaitStarts(w) \/ WaitWakes(w)))
  /\ WF_vars(~panicked /\ (TakeUnlock \/ TakeLockdown \/ GuardReturns))
  /\ WF_vars(~panicked /\ LoopExits)
  /\ WF_vars(~panicked /\ GuardShutdown)

Spec == Init /\ [][Next]_vars /\ Fairness
----------------------------------------------------------------------------
(* Properties.                                                             *)

\* The variables have their types; only an occupier's visit holds a worker,
\* and it holds one only from its admission to its end (occupy.go's task).
FortressTypeOK ==
  /\ loop \in {"running", "exited"} /\ dying \in BOOLEAN /\ open \in BOOLEAN
  /\ ticket \in [Tickets -> {"free", "offered", "accepted", "inside", "finishing"}]
  /\ ctxDone \in [Tickets -> BOOLEAN]
  /\ guard \in {"idle", "offering", "completing"} /\ op \in {"unlock", "lock"}
  /\ guardDone \in BOOLEAN /\ closed \in BOOLEAN /\ sealed \in BOOLEAN
  /\ mine \in Waiters \cup {None}
  /\ waiter \in [Waiters -> {"none", "new", "waiting", "released"}]
  /\ caller \in [Tickets -> {"none", "waiting", "worker", "error"}]
  /\ occ \in [Tickets -> {"none", "starting", "up", "failed", "owned", "killed"}]
  /\ panicked \in BOOLEAN
  /\ \A t \in Tickets : occ[t] # "none" => t \in Occupiers /\ ticket[t] = "inside"

\* The fortress keeps the promise of GuardedAccess, with aborted Lockdowns,
\* visits that are cancelled between admission and start, and shutdown in
\* between: Lockdown answers nil only when every admitted visit has ended, and
\* none is admitted until the loop takes an Unlock.
Access == INSTANCE GuardedAccess WITH guests <- Active
ImplementsAccess == Access!Spec

\* A Lockdown comes to an end (allowGuests and guardTicket.complete), unless
\* a worker that Occupy handed over is still running inside.
LockdownEnds ==
  (guard # "idle" /\ op = "lock")
     ~> (guard = "idle" \/ panicked \/ \E t \in Tickets : occ[t] = "owned")

\* A worker that came up after Occupy had returned an error to its caller does
\* not stay inside: the task sees the context and kills it (occupy.go).
UnclaimedWorkerEnds ==
  \A t \in Tickets :
    (caller[t] = "error" /\ occ[t] \in {"starting", "up", "failed"})
       ~> (ticket[t] = "free" \/ panicked)
=============================================================================
