---------------------------- MODULE LeaseManager ----------------------------
(***************************************************************************)
(* The lease managers, one in each controller, on top of the lease tables. *)
(*                                                                         *)
(* A manager's loop takes requests from its channels. A claim or a revoke  *)
(* becomes a goroutine that looks the lease up, then acts on what it saw,  *)
(* and retries; each store call is a transaction of its own, so anything   *)
(* can happen in between. Callers of WaitUntilExpired become blocks, which *)
(* the loop looks at when its timer fires or a revoke is done.             *)
(*                                                                         *)
(* A manager's timers fire, and its loop handles what is due, within the   *)
(* tick; its goroutines and the rest of the system take any time.          *)
(***************************************************************************)
EXTENDS LeaseStore

CONSTANTS
    Managers,       \* lease managers
    Requests,       \* calls of Claim and Revoke
    Waiters,        \* calls of WaitUntilExpired
    MaxRetries,     \* maxRetries: attempts at a request
    MaxSleep,       \* ManagerConfig.MaxSleep, in ticks
    MaxChecks       \* bound: Token checks that find no lease

ASSUME MaxRetriesAssumption == MaxRetries \in Nat \ {0}
ASSUME MaxSleepAssumption == MaxSleep \in Nat \ {0}
ASSUME MaxChecksAssumption == MaxChecks \in Nat

VARIABLES
    mstate,         \* the manager's tomb: up, dying or down
    loop,           \* where its loop is
    snap,           \* the leases that checkBlocks has read
    nextTimeout,    \* Manager.nextTimeout
    armed,          \* its timer is running, or has fired unheard
    blocks,         \* the waiters in its blocks
    req,            \* the requests made: arguments, goroutine and response
    wait,           \* the waits made: arguments and outcome
    checks,         \* Token checks that found no lease
    absent          \* history: since when, and if ever, a waiter's lease is gone

managerVars == <<mstate, loop, snap, nextTimeout, armed, blocks, checks>>
lmVars == <<leaseVars, managerVars, req, wait, absent>>

Acts == {"claim", "extend", "revoke"}

(* "sent": offered to the loop. "lookup": in a new attempt. Acts: about to *)
(* call the store. "notify": a revoke telling the loop. "end": returned.   *)
RequestPCs == {"sent", "lookup", "notify", "end"} \union Acts

Responses == {"none", "success", "denied", "notheld", "invalid", "timeout", "stopped"}

NoTime == -1
NoLeases == [k \in {} |-> 0]

LmInit ==
    /\ StoreInit
    /\ mstate = [m \in Managers |-> "down"]
    /\ loop = [m \in Managers |-> "start"]
    /\ snap = [m \in Managers |-> NoLeases]
    /\ nextTimeout = [m \in Managers |-> NoTime]
    /\ armed = [m \in Managers |-> FALSE]
    /\ blocks = [m \in Managers |-> {}]
    /\ checks = 0
    /\ req = [r \in {} |-> 0]
    /\ wait = [x \in {} |-> 0]
    /\ absent = [x \in Waiters |-> [since |-> NoTime, ever |-> FALSE]]

Up(m) == mstate[m] = "up"
Choosing(m) == Up(m) /\ loop[m] = "choose"

-----------------------------------------------------------------------------
(* The goroutine of a claim or a revoke *)

\* The goroutine's manager is not dying. A stopped caller's manager was.
Alive(r) == Up(req[r].mgr) /\ req[r].resp # "stopped"

Goto(r, pc) == req' = [req EXCEPT ![r].pc = pc]

\* respond: lost when the caller has stopped.
Answer(r, resp, pc) ==
    req' = [req EXCEPT ![r].pc = pc,
                       ![r].resp = IF @ = "none" THEN resp ELSE @]

\* Mutant of Retry: one attempt too many.
RetryOnceMore(r, final) ==
    IF req[r].tries < MaxRetries /\ Alive(r)
    THEN req' = [req EXCEPT ![r].pc = "lookup", ![r].tries = @ + 1,
                            ![r].last = final]
    ELSE Answer(r, final, "end")

\* The attempt failed for now: another one, or give this answer.
Retry(r, final) ==
    IF req[r].tries + 1 < MaxRetries /\ Alive(r)
    THEN req' = [req EXCEPT ![r].pc = "lookup", ![r].tries = @ + 1,
                            ![r].last = final]
    ELSE Answer(r, final, "end")

KillOf(r) ==
    mstate' = [mstate EXCEPT ![req[r].mgr] = IF Alive(r) THEN "dying" ELSE @]

\* A caller calls Claim or Revoke.
Submit(r, op, m, k, h, d) ==
    /\ r \notin DOMAIN req
    /\ req' = [q \in DOMAIN req \union {r} |->
                 IF q # r THEN req[q]
                 ELSE [op |-> op, mgr |-> m, key |-> k, holder |-> h, dur |-> d,
                       pc |-> "sent", tries |-> 0, began |-> Now, resp |-> "none",
                       last |-> IF op = "claim" THEN "denied" ELSE "success"]]
    /\ UNCHANGED <<leaseVars, managerVars, wait>>

\* The loop takes it and starts the goroutine.
Accept(r) ==
    /\ req[r].pc = "sent"
    /\ Choosing(req[r].mgr)
    /\ Goto(r, "lookup")
    /\ UNCHANGED <<leaseVars, managerVars, wait>>

\* handleClaim and handleRevoke, up to the store call they decide on.
LookupLease(r) ==
    LET k == req[r].key h == req[r].holder claiming == req[r].op = "claim" IN
    \/ ~Held(k) /\ claiming /\ Goto(r, "claim")
    \/ ~Held(k) /\ ~claiming /\ Answer(r, "success", "notify")
    \/ HeldBy(k, h) /\ Goto(r, IF claiming THEN "extend" ELSE "revoke")
    \/ /\ Held(k) /\ ~HeldBy(k, h)
       /\ Answer(r, IF claiming THEN "denied" ELSE "notheld", "end")

Lookup(r) ==
    /\ req[r].pc = "lookup"
    /\ Alive(r)
    /\ LookupLease(r)
    /\ UNCHANGED <<leaseVars, managerVars, wait>>

(* A dying manager's goroutine makes no more attempts: it answers with the *)
(* outcome of its last one, or what the variables say if there was none    *)
(* (no error, no success). An attempt that sees the manager dying does not *)
(* answer.                                                                 *)
LookupDying(r) ==
    /\ req[r].pc = "lookup"
    /\ ~Alive(r)
    /\ Goto(r, "end") \/ Answer(r, req[r].last, "end")
    /\ UNCHANGED <<leaseVars, managerVars, wait>>

\* The store call that req[r].pc names, when it succeeds.
StoreCall(r) ==
    \/ req[r].pc = "claim" /\ ClaimLease(req[r].key, req[r].holder, req[r].dur)
    \/ req[r].pc = "extend" /\ ExtendLease(req[r].key, req[r].holder, req[r].dur)
    \/ req[r].pc = "revoke" /\ RevokeLease(req[r].key, req[r].holder)

Act(r) ==
    /\ StoreCall(r)
    /\ Answer(r, "success", IF req[r].pc = "revoke" THEN "notify" ELSE "end")
    /\ UNCHANGED <<managerVars, wait>>

\* Claiming found the lease held after all: ErrHeld is final.
ActHeld(r) ==
    /\ req[r].pc = "claim"
    /\ Held(req[r].key)
    /\ Answer(r, "denied", "end")
    /\ UNCHANGED <<leaseVars, managerVars, wait>>

\* Mutant of ActInvalid: nobody looks at the number of rows affected.
ActInvalidUnnoticed(r) ==
    /\ req[r].pc \in {"extend", "revoke"}
    /\ ~HeldBy(req[r].key, req[r].holder)
    /\ Answer(r, "success", "end")
    /\ UNCHANGED <<leaseVars, managerVars, wait>>

\* Extending or revoking found it gone: ErrInvalid is tried again.
ActInvalid(r) ==
    /\ req[r].pc \in {"extend", "revoke"}
    /\ ~HeldBy(req[r].key, req[r].holder)
    /\ Retry(r, IF req[r].op = "claim" THEN "denied" ELSE "invalid")
    /\ UNCHANGED <<leaseVars, managerVars, wait>>

(* The store fails for now (busy, a leader change). A call may have been   *)
(* committed all the same.                                                 *)
ActRetryable(r) ==
    /\ req[r].pc \in {"lookup"} \union Acts
    /\ StoreCall(r) \/ UNCHANGED leaseVars
    /\ Retry(r, "timeout")
    /\ UNCHANGED <<managerVars, wait>>

\* Mutant of ActFatal: the error is only logged.
ActFatalLogged(r) ==
    /\ req[r].pc \in {"lookup"} \union Acts
    /\ Goto(r, "end")
    /\ UNCHANGED <<leaseVars, managerVars, wait>>

(* Any other error stops the manager: the database went away, the context  *)
(* was cancelled, or a revoke met the foreign key of a pin.                *)
ActFatal(r) ==
    /\ req[r].pc \in {"lookup"} \union Acts
    /\ Goto(r, "end")
    /\ KillOf(r)
    /\ UNCHANGED <<leaseVars, loop, snap, nextTimeout, armed, blocks, checks, wait>>

\* The caller sees that the manager is dying.
RequestStopped(r) ==
    /\ req[r].resp = "none"
    /\ ~Up(req[r].mgr)
    /\ req' = [req EXCEPT ![r].resp = "stopped",
                          ![r].pc = IF @ = "sent" THEN "end" ELSE @]
    /\ UNCHANGED <<leaseVars, managerVars, wait>>

NotifyDying(r) ==
    /\ req[r].pc = "notify"
    /\ ~Alive(r)
    /\ Goto(r, "end")
    /\ UNCHANGED <<leaseVars, managerVars, wait>>

-----------------------------------------------------------------------------
(* The loop *)

\* Mutant of NextTick: MaxSleep only counts when there are no leases.
NextTickUncapped(leases) ==
    LET due == IF DOMAIN leases = {} THEN {Now + MaxSleep}
               ELSE {leases[k].expiry * SecondTicks : k \in DOMAIN leases}
        first == CHOOSE t \in due : \A u \in due : t <= u
    IN (IF first > Now THEN first ELSE Now) + SecondTicks

\* The earliest expiry, capped by MaxSleep, but not before now, and a second.
NextTick(leases) ==
    LET due == {Now + MaxSleep}
               \union {leases[k].expiry * SecondTicks : k \in DOMAIN leases}
        first == CHOOSE t \in due : \A u \in due : t <= u
    IN (IF first > Now THEN first ELSE Now) + SecondTicks

\* Mutant of SetNextTimeout: never later, even if the last one has passed.
SetNextTimeoutEarlier(m, t) ==
    IF nextTimeout[m] # NoTime /\ t >= nextTimeout[m]
    THEN UNCHANGED <<nextTimeout, armed>>
    ELSE /\ nextTimeout' = [nextTimeout EXCEPT ![m] = t]
         /\ armed' = [armed EXCEPT ![m] = TRUE]

\* setNextTimeout: never later, unless the last timeout is in the past.
SetNextTimeout(m, t) ==
    IF nextTimeout[m] >= Now /\ t >= nextTimeout[m]
    THEN UNCHANGED <<nextTimeout, armed>>
    ELSE /\ nextTimeout' = [nextTimeout EXCEPT ![m] = t]
         /\ armed' = [armed EXCEPT ![m] = TRUE]

\* The worker is started. Its callers of former times have all left.
Restart(m) ==
    /\ mstate[m] = "down"
    /\ \A r \in DOMAIN req :
          req[r].mgr = m => req[r].resp # "none" /\ req[r].pc # "notify"
    /\ \A x \in DOMAIN wait : wait[x].mgr = m => wait[x].pc # "blocked"
    /\ mstate' = [mstate EXCEPT ![m] = "up"]
    /\ UNCHANGED <<leaseVars, loop, snap, nextTimeout, armed, blocks, checks, req, wait>>

Start(m) ==
    /\ Up(m) /\ loop[m] = "start"
    /\ SetNextTimeout(m, NextTick(lease))
    /\ loop' = [loop EXCEPT ![m] = "choose"]
    /\ UNCHANGED <<leaseVars, mstate, snap, blocks, checks, req, wait>>

\* checkBlocks reads the leases ...
ReadLeases(m) ==
    /\ snap' = [snap EXCEPT ![m] = lease]
    /\ loop' = [loop EXCEPT ![m] = "check"]

\* (The clock is read after the timer has fired, and is past nextTimeout.)
TimerFires(m) ==
    /\ Choosing(m)
    /\ armed[m] /\ Now > nextTimeout[m]
    /\ armed' = [armed EXCEPT ![m] = FALSE]
    /\ ReadLeases(m)
    /\ UNCHANGED <<leaseVars, mstate, nextTimeout, blocks, checks, req, wait>>

ExpireDone(r) ==
    LET m == req[r].mgr IN
    /\ req[r].pc = "notify"
    /\ Choosing(m)
    /\ Goto(r, "end")
    /\ ReadLeases(m)
    /\ UNCHANGED <<leaseVars, mstate, nextTimeout, armed, blocks, checks, wait>>

Unblocked(m) == {x \in blocks[m] : wait[x].key \notin DOMAIN snap[m]}

\* ... unblocks the waiters of those that are gone, and sets the timer.
CheckBlocks(m) ==
    /\ Up(m) /\ loop[m] = "check"
    /\ wait' = [x \in DOMAIN wait |->
                  IF x \in Unblocked(m) /\ wait[x].pc = "blocked"
                  THEN [wait[x] EXCEPT !.pc = "released"] ELSE wait[x]]
    /\ blocks' = [blocks EXCEPT ![m] = @ \ Unblocked(m)]
    /\ SetNextTimeout(m, NextTick(snap[m]))
    /\ snap' = [snap EXCEPT ![m] = NoLeases]
    /\ loop' = [loop EXCEPT ![m] = "choose"]
    /\ UNCHANGED <<leaseVars, mstate, checks, req>>

\* A Token is checked and its lease does not exist: have a look in a second.
CheckToken(m, k) ==
    /\ Choosing(m)
    /\ ~Held(k)
    /\ checks < MaxChecks
    /\ checks' = checks + 1
    /\ SetNextTimeout(m, Now + SecondTicks)
    /\ UNCHANGED <<leaseVars, mstate, loop, snap, blocks, req, wait>>

\* Mutant of Block: added by the caller, whatever the loop is doing.
BlockUnserialised(x, m, k) ==
    /\ x \notin DOMAIN wait
    /\ Up(m)
    /\ wait' = [y \in DOMAIN wait \union {x} |->
                  IF y = x THEN [mgr |-> m, key |-> k, pc |-> "blocked"]
                           ELSE wait[y]]
    /\ blocks' = [blocks EXCEPT ![m] = @ \union {x}]
    /\ UNCHANGED <<leaseVars, mstate, loop, snap, nextTimeout, armed, checks, req>>

\* WaitUntilExpired reaches the loop.
Block(x, m, k) ==
    /\ x \notin DOMAIN wait
    /\ Choosing(m)
    /\ wait' = [y \in DOMAIN wait \union {x} |->
                  IF y = x THEN [mgr |-> m, key |-> k, pc |-> "blocked"]
                           ELSE wait[y]]
    /\ blocks' = [blocks EXCEPT ![m] = @ \union {x}]
    /\ UNCHANGED <<leaseVars, mstate, loop, snap, nextTimeout, armed, checks, req>>

\* The caller's context ends. Its block stays behind.
WaitCancelled(x) ==
    /\ wait[x].pc = "blocked"
    /\ wait' = [wait EXCEPT ![x].pc = "cancelled"]
    /\ UNCHANGED <<leaseVars, managerVars, req>>

WaitStopped(x) ==
    /\ wait[x].pc = "blocked"
    /\ ~Up(wait[x].mgr)
    /\ wait' = [wait EXCEPT ![x].pc = "stopped"]
    /\ UNCHANGED <<leaseVars, managerVars, req>>

\* Killed from outside, or a read of the leases failed.
Kill(m) ==
    /\ Up(m)
    /\ mstate' = [mstate EXCEPT ![m] = "dying"]
    /\ UNCHANGED <<leaseVars, loop, snap, nextTimeout, armed, blocks, checks, req, wait>>

\* The loop has returned. It waits for its goroutines, but not for long.
Down(m) ==
    /\ mstate[m] = "dying"
    /\ mstate' = [mstate EXCEPT ![m] = "down"]
    /\ loop' = [loop EXCEPT ![m] = "start"]
    /\ snap' = [snap EXCEPT ![m] = NoLeases]
    /\ nextTimeout' = [nextTimeout EXCEPT ![m] = NoTime]
    /\ armed' = [armed EXCEPT ![m] = FALSE]
    /\ blocks' = [blocks EXCEPT ![m] = {}]
    /\ UNCHANGED <<leaseVars, checks, req, wait>>

-----------------------------------------------------------------------------
(* The rest of the system: time, the expiry worker, pins (which the loop   *)
(* passes straight to the store) and model migration.                      *)
LmTick ==
    /\ \A m \in Managers : Up(m) => loop[m] = "choose" /\ Now <= nextTimeout[m]
    /\ Tick
    /\ UNCHANGED <<managerVars, req, wait>>

StoreStep ==
    /\ \/ ExpireLeases \/ DeleteLeadershipForModel
       \/ \E k \in LeaseKeys, e \in Entities : PinLease(k, e) \/ UnpinLease(k, e)
    /\ UNCHANGED <<managerVars, req, wait>>

RequestStep(r) ==
    \/ Accept(r) \/ Lookup(r) \/ LookupDying(r)
    \/ Act(r) \/ ActHeld(r) \/ ActInvalid(r) \/ ActRetryable(r) \/ ActFatal(r)
    \/ RequestStopped(r) \/ NotifyDying(r) \/ ExpireDone(r)

ManagerStep(m) ==
    \/ Restart(m) \/ Start(m) \/ TimerFires(m) \/ CheckBlocks(m)
    \/ Kill(m) \/ Down(m)

LmStep ==
    \/ LmTick \/ StoreStep
    \/ \E r \in Requests, m \in Managers, k \in LeaseKeys, h \in Holders :
          \/ \E d \in Durations : Submit(r, "claim", m, k, h, d)
          \/ Submit(r, "revoke", m, k, h, 0)
    \/ \E r \in DOMAIN req : RequestStep(r)
    \/ \E m \in Managers : ManagerStep(m)
    \/ \E m \in Managers, k \in LeaseKeys :
          CheckToken(m, k) \/ \E x \in Waiters : Block(x, m, k)
    \/ \E x \in DOMAIN wait : WaitCancelled(x) \/ WaitStopped(x)

\* The history of the waiters' leases.
ObserveAbsence ==
    absent' = [x \in Waiters |->
                 IF x \notin DOMAIN wait' \/ wait'[x].pc # "blocked" THEN absent[x]
                 ELSE IF wait'[x].key \in DOMAIN lease'
                      THEN [absent[x] EXCEPT !.since = NoTime]
                      ELSE [since |-> IF absent[x].since = NoTime
                                      THEN Now' ELSE absent[x].since,
                            ever |-> TRUE]]

LmNext == LmStep /\ ObserveAbsence

LmSpec == LmInit /\ [][LmNext]_lmVars

(* Goroutines run, the store answers, and a dying manager's callers see    *)
(* it. The loop's select is fair to the requests offered to it.            *)
LmFairness ==
    /\ \A r \in Requests :
          /\ SF_lmVars(r \in DOMAIN req /\ Accept(r) /\ ObserveAbsence)
          /\ WF_lmVars(/\ r \in DOMAIN req
                       /\ \/ Lookup(r) \/ LookupDying(r) \/ Act(r) \/ ActHeld(r)
                          \/ ActInvalid(r) \/ ActRetryable(r) \/ ActFatal(r)
                       /\ ObserveAbsence)
          /\ WF_lmVars(r \in DOMAIN req /\ RequestStopped(r) /\ ObserveAbsence)
    /\ \A m \in Managers :
          WF_lmVars((Start(m) \/ CheckBlocks(m)) /\ ObserveAbsence)

FairLmSpec == LmSpec /\ LmFairness

-----------------------------------------------------------------------------
(* Properties *)

(* Types of the managers' state, the requests and the waits. A request is   *)
(* attempted at most maxRetries times.                                      *)
LmTypeOK ==
    /\ StoreTypeOK
    /\ mstate \in [Managers -> {"up", "dying", "down"}]
    /\ loop \in [Managers -> {"start", "choose", "check"}]
    /\ \A m \in Managers : DOMAIN snap[m] \subseteq TypedKeys
    /\ nextTimeout \in [Managers -> Nat \union {NoTime}]
    /\ armed \in [Managers -> BOOLEAN]
    /\ blocks \in [Managers -> SUBSET DOMAIN wait]
    /\ checks \in 0..MaxChecks
    /\ DOMAIN req \subseteq Requests
    /\ \A r \in DOMAIN req :
          req[r] \in [op : {"claim", "revoke"}, mgr : Managers, key : LeaseKeys,
                      holder : Holders, dur : Durations \union {0}, pc : RequestPCs,
                      tries : 0..(MaxRetries - 1), began : Nat, resp : Responses,
                      last : Responses \ {"none", "stopped"}]
    /\ DOMAIN wait \subseteq Waiters
    /\ \A x \in DOMAIN wait :
          wait[x] \in [mgr : Managers, key : LeaseKeys,
                       pc : {"blocked", "released", "cancelled", "stopped"}]
    /\ absent \in [Waiters -> [since : Nat \union {NoTime}, ever : BOOLEAN]]

\* r's claim was granted, its time is not over, and it was not revoked.
Granted(r) ==
    /\ req[r].op = "claim" /\ req[r].resp = "success"
    /\ Now < req[r].began + req[r].dur
    /\ until[req[r].key][req[r].holder] # Withdrawn

SameClaim(q, r) ==
    /\ req[q].op = "claim"
    /\ req[q].key = req[r].key /\ req[q].holder = req[r].holder

\* r's claim has the lease, if it was granted and none asks for less.
Kept(r) ==
    /\ Granted(r)
    /\ \A q \in DOMAIN req : SameClaim(q, r) => req[q].dur >= req[r].dur
    => HeldBy(req[r].key, req[r].holder)

(* core/lease.Claimer: a claim that succeeds, in a namespace with a type,  *)
(* keeps the lease until its duration has passed since the call began,     *)
(* although the lease is looked up, claimed or extended, and retried, in   *)
(* transactions of their own; as long as the holder does not ask for less  *)
(* in another claim.                                                       *)
ClaimKept == \A r \in DOMAIN req : req[r].key \in TypedKeys => Kept(r)

(* What core/lease.Claimer says of every claim that succeeds. It does not  *)
(* hold where ClaimLease finds no type for the namespace and inserts       *)
(* nothing, as it does for the locks of the object store.                  *)
ClaimGuaranteed == \A r \in DOMAIN req : Kept(r)

(* A manager at its select has its timer running, and it wakes up at most  *)
(* MaxSleep and a second from now: setNextTimeout, which leaves out most   *)
(* resets, never leaves the manager asleep.                                *)
TimerArmed ==
    \A m \in Managers : Choosing(m) =>
        armed[m] /\ nextTimeout[m] <= Now + MaxSleep + SecondTicks

(* A caller of WaitUntilExpired is released soon after its lease is gone,  *)
(* however it went: expired by another controller, revoked there, deleted  *)
(* with its model. Each check of a missing lease may put it off a second.  *)
PromptRelease ==
    \A x \in DOMAIN wait :
        /\ wait[x].pc = "blocked" /\ Up(wait[x].mgr)
        /\ absent[x].since # NoTime
        => Now <= absent[x].since + MaxSleep + (1 + checks) * (SecondTicks + 1)

(* core/lease.Waiter: it is not released unless its lease was free at some *)
(* moment of the wait.                                                     *)
ReleasedMeansGone ==
    \A x \in DOMAIN wait : wait[x].pc = "released" => absent[x].ever

(* Every call of Claim or Revoke returns, whatever the store does and      *)
(* whenever the manager dies.                                              *)
EveryRequestAnswered ==
    \A r \in Requests :
        (r \in DOMAIN req) ~> (r \in DOMAIN req /\ req[r].resp # "none")
=============================================================================
