------------------------- MODULE LeaseManagerProofs -------------------------
(***************************************************************************)
(* Proofs about LeaseManager, for any managers, requests, waiters, leases, *)
(* durations and limits: its types, that a granted claim is kept, that a   *)
(* manager never oversleeps, and what a released waiter may count on. The  *)
(* store's part is LeaseStoreProofs.                                       *)
(***************************************************************************)
EXTENDS LeaseManager, LeaseStoreProofs, FiniteSetTheorems, WellFoundedInduction

USE SecondTicksAssumption, MaxSleepAssumption DEF NoTime

RequestRecord ==
    [op : {"claim", "revoke"}, mgr : Managers, key : LeaseKeys,
     holder : Holders, dur : Durations \union {0}, pc : RequestPCs,
     tries : 0..(MaxRetries - 1), began : Nat, resp : Responses,
     last : Responses \ {"none", "stopped"}]

WaitRecord ==
    [mgr : Managers, key : LeaseKeys,
     pc : {"blocked", "released", "cancelled", "stopped"}]

-----------------------------------------------------------------------------
(* The inductive invariant, part by part.                                  *)

\* What a goroutine may do next fits its call, and the call is in the past.
RequestInv(r) ==
    /\ req[r].began <= Now
    /\ req[r].op = "claim" => /\ req[r].dur \in Durations
                              /\ req[r].pc \notin {"revoke", "notify"}
                              /\ req[r].last # "success"
    /\ req[r].pc \in {"claim", "extend"} => req[r].op = "claim"

\* The rows that checkBlocks has read are rows.
SnapInv ==
    /\ DOMAIN snap = Managers
    /\ \A m \in Managers : \A k \in DOMAIN snap[m] : snap[m][k].expiry \in Nat

\* With the store's own invariant, the types are inductive.
TypeInv ==
    /\ LmTypeOK
    /\ PromiseInv
    /\ SnapInv
    /\ \A r \in DOMAIN req : RequestInv(r)

-----------------------------------------------------------------------------
(* The earliest expiry.                                                    *)

(* A set of naturals has a least element: among the finite sets of what    *)
(* lies below each of its elements one is minimal, and empty.              *)
LEMMA LeastNatural ==
    ASSUME NEW T, T \in SUBSET Nat, T # {}
    PROVE  \E m \in T : \A j \in T : m <= j
<1> DEFINE below(i) == {j \in T : j < i}
           A == {below(i) : i \in T}
           R == StrictSubsetOrdering(T)
<1>1. IsWellFoundedOn(R, FiniteSubsetsOf(T))
  BY FS_StrictSubsetOrderingWellFounded, Zenon
<1>2. A \subseteq FiniteSubsetsOf(T) /\ A # {}
  <2>1. ASSUME NEW i \in T PROVE below(i) \in FiniteSubsetsOf(T)
    <3> DEFINE S == below(i)
    <3>1. i \in Nat /\ S \in SUBSET Nat
      OBVIOUS
    <3>4. ASSUME NEW s \in S PROVE s <= i
      <4>1. s \in T /\ s < i
        OBVIOUS
      <4>2. s \in Nat
        BY <4>1
      <4> QED
        BY <3>1, <4>1, <4>2
    <3>2. S \in SUBSET T
      OBVIOUS
    <3> HIDE DEF S
    <3>3. IsFiniteSet(S)
      BY <3>1, <3>4, FS_BoundedSetOfNaturals
    <3> QED
      BY <3>2, <3>3 DEF FiniteSubsetsOf, S
  <2> QED
    BY <2>1
<1>3. A \subseteq SUBSET T
  BY <1>2 DEF FiniteSubsetsOf
<1> HIDE DEF A, R
<1>4. PICK s \in A : \A u \in A : ~(<<u, s>> \in R)
  BY <1>1, <1>2, WFMin, Zenon
<1>5. PICK m \in T : s = below(m)
  BY <1>4 DEF A
<1>6. ASSUME NEW j \in T, j < m PROVE FALSE
  <2>1. j \in Nat /\ m \in Nat /\ \A l \in T : l \in Nat
    OBVIOUS
  <2>2. below(j) \subseteq s
    <3>1. ASSUME NEW l \in T, l < j PROVE l < m
      BY <1>6, <2>1, <3>1
    <3> QED
      BY <1>5, <3>1
  <2>3. j \in s /\ j \notin below(j)
    <3>1. ~(j < j)
      BY <2>1
    <3> QED
      BY <1>5, <1>6, <3>1
  <2>4. below(j) \in A
    BY DEF A
  <2>5. <<below(j), s>> \in R
    BY <2>2, <2>3, <2>4, <1>3, <1>4 DEF R, StrictSubsetOrdering
  <2> QED
    BY <2>4, <2>5, <1>4
<1> QED
  BY <1>6

(* nextTick is between a second and MaxSleep and a second from now,        *)
(* whatever leases there are.                                              *)
LEMMA NextTickBounds ==
    ASSUME Now \in Nat, NEW leases,
           \A k \in DOMAIN leases : leases[k].expiry \in Nat
    PROVE  /\ NextTick(leases) \in Nat
           /\ Now + SecondTicks <= NextTick(leases)
           /\ NextTick(leases) <= Now + MaxSleep + SecondTicks
<1> DEFINE due == {Now + MaxSleep}
                  \union {leases[k].expiry * SecondTicks : k \in DOMAIN leases}
           first == CHOOSE t \in due : \A u \in due : t <= u
<1>1. due \in SUBSET Nat /\ Now + MaxSleep \in due
  OBVIOUS
<1>2. NextTick(leases) = (IF first > Now THEN first ELSE Now) + SecondTicks
  BY DEF NextTick
<1> HIDE DEF due
<1>3. \E t \in due : \A u \in due : t <= u
  BY <1>1, LeastNatural
<1>4. first \in due /\ \A u \in due : first <= u
  BY <1>3
<1> HIDE DEF first
<1>5. first \in Nat /\ first <= Now + MaxSleep
  BY <1>1, <1>4
<1> QED
  BY <1>2, <1>5

\* A tick is one step of the clock, whether or not it ends a second.
LEMMA TickNow ==
    ASSUME StoreTypeOK, Tick
    PROVE  Now' = Now + 1
<1>1. sec \in Nat /\ tick \in Nat /\ tick < SecondTicks /\ SecondTicks \in Nat
  BY DEF StoreTypeOK
<1>2. CASE tick + 1 < SecondTicks
  <2>1. sec * SecondTicks \in Nat
    BY <1>1
  <2> QED
    BY <1>1, <1>2, <2>1 DEF Tick, Now
<1>3. CASE ~(tick + 1 < SecondTicks)
  <2>1. tick + 1 = SecondTicks /\ sec' = sec + 1 /\ tick' = 0
    BY <1>1, <1>3 DEF Tick
  <2>2. (sec + 1) * SecondTicks = sec * SecondTicks + SecondTicks /\ sec * SecondTicks \in Nat
    BY <1>1
  <2> QED
    BY <1>1, <2>1, <2>2 DEF Now
<1> QED
  BY <1>2, <1>3

-----------------------------------------------------------------------------
(* What the goroutine of a request changes.                                *)

\* Only r moves, by its place, attempts and answer; its arguments stay.
RequestMoves(r) ==
    /\ DOMAIN req' = DOMAIN req
    /\ \A q \in DOMAIN req \ {r} : req'[q] = req[q]
    /\ req'[r] \in RequestRecord
    /\ req'[r].op = req[r].op /\ req'[r].mgr = req[r].mgr
    /\ req'[r].key = req[r].key /\ req'[r].holder = req[r].holder
    /\ req'[r].dur = req[r].dur /\ req'[r].began = req[r].began

\* Goto moves r to pc.
LEMMA GotoMoves ==
    ASSUME NEW r \in DOMAIN req, req[r] \in RequestRecord,
           NEW pc \in RequestPCs, Goto(r, pc)
    PROVE  /\ RequestMoves(r) /\ req'[r].pc = pc
           /\ req'[r].resp = req[r].resp /\ req'[r].last = req[r].last
<1>1. /\ DOMAIN req' = DOMAIN req /\ \A q \in DOMAIN req \ {r} : req'[q] = req[q]
      /\ req'[r] = [req[r] EXCEPT !.pc = pc]
  BY DEF Goto
<1>2. [req[r] EXCEPT !.pc = pc] \in RequestRecord
  BY DEF RequestRecord
<1> QED
  BY <1>1, <1>2 DEF RequestMoves, RequestRecord

\* Answer moves r to pc, and gives it the answer if it has none.
LEMMA AnswerMoves ==
    ASSUME NEW r \in DOMAIN req, req[r] \in RequestRecord,
           NEW resp \in Responses, NEW pc \in RequestPCs, Answer(r, resp, pc)
    PROVE  /\ RequestMoves(r) /\ req'[r].pc = pc
           /\ req'[r].resp = IF req[r].resp = "none" THEN resp ELSE req[r].resp
           /\ req'[r].last = req[r].last
<1> DEFINE a == IF req[r].resp = "none" THEN resp ELSE req[r].resp
<1>1. /\ DOMAIN req' = DOMAIN req /\ \A q \in DOMAIN req \ {r} : req'[q] = req[q]
      /\ req'[r] = [req[r] EXCEPT !.pc = pc, !.resp = a]
  BY DEF Answer, RequestRecord
<1>2. a \in Responses
  BY DEF RequestRecord
<1> HIDE DEF a
<1>3. /\ [req[r] EXCEPT !.pc = pc, !.resp = a] \in RequestRecord
      /\ req'[r].pc = pc /\ req'[r].resp = a /\ req'[r].last = req[r].last
  BY <1>1, <1>2 DEF RequestRecord
<1>4. RequestMoves(r)
  BY <1>1, <1>3 DEF RequestMoves, RequestRecord
<1> QED
  BY <1>3, <1>4 DEF a

\* Retry starts another attempt within the limit, or answers.
LEMMA RetryMoves ==
    ASSUME NEW r \in DOMAIN req, req[r] \in RequestRecord,
           NEW final \in Responses \ {"none", "stopped"}, Retry(r, final)
    PROVE  /\ RequestMoves(r) /\ req'[r].pc \in {"lookup", "end"}
           /\ req'[r].resp \in {req[r].resp, final}
           /\ req'[r].last \in {req[r].last, final}
<1>1. CASE req[r].tries + 1 < MaxRetries /\ Alive(r)
  <2> DEFINE n == req[r].tries + 1
  <2>1. n \in 0..(MaxRetries - 1)
    BY <1>1, MaxRetriesAssumption DEF RequestRecord
  <2>2. /\ DOMAIN req' = DOMAIN req /\ \A q \in DOMAIN req \ {r} : req'[q] = req[q]
        /\ req'[r] = [req[r] EXCEPT !.pc = "lookup", !.tries = n, !.last = final]
    BY <1>1 DEF Retry, RequestRecord
  <2> HIDE DEF n
  <2>3. /\ [req[r] EXCEPT !.pc = "lookup", !.tries = n, !.last = final] \in RequestRecord
        /\ req'[r].pc = "lookup" /\ req'[r].resp = req[r].resp /\ req'[r].last = final
    BY <2>1, <2>2 DEF RequestRecord, RequestPCs
  <2>4. RequestMoves(r)
    BY <2>2, <2>3 DEF RequestMoves, RequestRecord
  <2> QED
    BY <2>3, <2>4
<1>2. CASE ~(req[r].tries + 1 < MaxRetries /\ Alive(r))
  <2>1. Answer(r, final, "end") /\ "end" \in RequestPCs
    BY <1>2 DEF Retry, RequestPCs
  <2> QED
    BY <2>1, AnswerMoves
<1> QED
  BY <1>1, <1>2

\* The store call of r's goroutine writes the row that r asks for, given a type.
Puts(r) ==
    /\ req[r].op = "claim"
    /\ IF req[r].key \in TypedKeys THEN Put(req[r].key, req[r].holder, req[r].dur)
       ELSE UNCHANGED <<lease, until>>

(* A store call is a transaction of LeaseStore, at this moment: the row of  *)
(* a claim, or a revocation, which takes back the promises for the key.     *)
LEMMA StoreCallStep ==
    ASSUME TypeInv, NEW r \in DOMAIN req, StoreCall(r)
    PROVE  /\ StoreNext /\ UNCHANGED clockVars
           /\ \/ req[r].pc \in {"claim", "extend"} /\ Puts(r)
              \/ req[r].pc = "revoke" /\ Withdraw({req[r].key})
<1>1. /\ req[r] \in RequestRecord /\ RequestInv(r)
  BY DEF TypeInv, LmTypeOK, RequestRecord
<1>2. req[r].key \in LeaseKeys /\ req[r].holder \in Holders
  BY <1>1 DEF RequestRecord
<1>3. CASE req[r].pc = "claim" /\ ClaimLease(req[r].key, req[r].holder, req[r].dur)
  BY <1>1, <1>2, <1>3 DEF RequestInv, StoreNext, ClaimLease, Puts
<1>4. CASE req[r].pc = "extend" /\ ExtendLease(req[r].key, req[r].holder, req[r].dur)
  <2>1. req[r].key \in TypedKeys
    BY <1>4 DEF ExtendLease, HeldBy, Held, TypeInv, LmTypeOK, StoreTypeOK
  <2> QED
    BY <1>1, <1>2, <1>4, <2>1 DEF RequestInv, StoreNext, ExtendLease, Puts
<1>5. CASE req[r].pc = "revoke" /\ RevokeLease(req[r].key, req[r].holder)
  BY <1>2, <1>5 DEF StoreNext, RevokeLease
<1> QED
  BY <1>3, <1>4, <1>5 DEF StoreCall

(* Every step of a request: it moves only itself, keeps to what its call    *)
(* may do, and a claim's success is new only with the row it writes.        *)
LEMMA RequestStepShape ==
    ASSUME TypeInv, NEW r \in DOMAIN req, RequestStep(r)
    PROVE  /\ RequestMoves(r)
           /\ req[r].op = "claim" => /\ req'[r].pc \notin {"revoke", "notify"}
                                     /\ req'[r].last # "success"
                                     /\ req'[r].resp = "success" =>
                                           req[r].resp = "success" \/ Puts(r)
           /\ req'[r].pc \in {"claim", "extend"} => req[r].op = "claim"
<1> DEFINE Shape ==
        /\ RequestMoves(r)
        /\ req[r].op = "claim" => /\ req'[r].pc \notin {"revoke", "notify"}
                                  /\ req'[r].last # "success"
                                  /\ req'[r].resp = "success" =>
                                        req[r].resp = "success" \/ Puts(r)
        /\ req'[r].pc \in {"claim", "extend"} => req[r].op = "claim"
<1>t. req[r] \in RequestRecord /\ RequestInv(r)
  BY DEF TypeInv, LmTypeOK, RequestRecord
<1>v. /\ req[r].resp \in Responses /\ req[r].last \in Responses \ {"none", "stopped"}
      /\ req[r].op \in {"claim", "revoke"} /\ req[r].pc \in RequestPCs
  BY <1>t DEF RequestRecord
<1>a. /\ \A pc \in {"sent", "lookup", "notify", "end", "claim", "extend", "revoke"} :
            pc \in RequestPCs
      /\ \A a \in {"success", "denied", "notheld", "invalid", "timeout"} :
            a \in Responses \ {"none", "stopped"}
  BY DEF RequestPCs, Acts, Responses
<1>1. CASE Accept(r)
  <2>1. Goto(r, "lookup")
    BY <1>1 DEF Accept
  <2> QED
    BY <2>1, <1>t, <1>a, GotoMoves DEF RequestInv
<1>2. CASE Lookup(r)
  <2>1. CASE ~Held(req[r].key) /\ req[r].op = "claim" /\ Goto(r, "claim")
    BY <2>1, <1>t, <1>a, GotoMoves DEF RequestInv
  <2>2. CASE ~Held(req[r].key) /\ req[r].op # "claim" /\ Answer(r, "success", "notify")
    BY <2>2, <1>t, <1>a, AnswerMoves DEF RequestInv
  <2>3. CASE HeldBy(req[r].key, req[r].holder)
             /\ Goto(r, IF req[r].op = "claim" THEN "extend" ELSE "revoke")
    <3>1. CASE req[r].op = "claim"
      BY <2>3, <3>1, <1>t, <1>a, GotoMoves DEF RequestInv
    <3>2. CASE req[r].op # "claim"
      BY <2>3, <3>2, <1>t, <1>a, GotoMoves DEF RequestInv
    <3> QED
      BY <3>1, <3>2
  <2>4. CASE Answer(r, IF req[r].op = "claim" THEN "denied" ELSE "notheld", "end")
    <3>1. CASE req[r].op = "claim"
      BY <2>4, <3>1, <1>t, <1>a, AnswerMoves DEF RequestInv
    <3>2. CASE req[r].op # "claim"
      BY <2>4, <3>2, <1>t, <1>a, AnswerMoves DEF RequestInv
    <3> QED
      BY <3>1, <3>2
  <2> QED
    BY <1>2, <2>1, <2>2, <2>3, <2>4 DEF Lookup, LookupLease
<1>3. CASE LookupDying(r)
  <2>1. CASE Goto(r, "end")
    BY <2>1, <1>t, <1>a, GotoMoves DEF RequestInv
  <2>2. CASE Answer(r, req[r].last, "end")
    BY <2>2, <1>t, <1>v, <1>a, AnswerMoves DEF RequestInv
  <2> QED
    BY <1>3, <2>1, <2>2 DEF LookupDying
<1>4. CASE Act(r)
  <2>1. \/ req[r].pc \in {"claim", "extend"} /\ Puts(r)
        \/ req[r].pc = "revoke"
    BY <1>4, StoreCallStep DEF Act
  <2>2. CASE req[r].pc \in {"claim", "extend"} /\ Puts(r)
    <3>1. Answer(r, "success", "end")
      BY <1>4, <2>2 DEF Act
    <3> QED
      BY <2>2, <3>1, <1>t, <1>a, AnswerMoves DEF RequestInv
  <2>3. CASE req[r].pc = "revoke"
    <3>1. Answer(r, "success", "notify") /\ req[r].op # "claim"
      BY <1>4, <2>3, <1>t DEF Act, RequestInv
    <3> QED
      BY <2>3, <3>1, <1>t, <1>a, AnswerMoves DEF RequestInv
  <2> QED
    BY <2>1, <2>2, <2>3
<1>5. CASE ActHeld(r)
  <2>1. Answer(r, "denied", "end")
    BY <1>5 DEF ActHeld
  <2> QED
    BY <2>1, <1>t, <1>a, AnswerMoves DEF RequestInv
<1>6. CASE ActInvalid(r)
  <2>1. CASE req[r].op = "claim" /\ Retry(r, "denied")
    BY <2>1, <1>t, <1>a, RetryMoves DEF RequestInv
  <2>2. CASE req[r].op # "claim" /\ Retry(r, "invalid")
    BY <2>2, <1>t, <1>a, RetryMoves DEF RequestInv
  <2> QED
    BY <1>6, <2>1, <2>2 DEF ActInvalid
<1>7. CASE ActRetryable(r)
  <2>1. Retry(r, "timeout")
    BY <1>7 DEF ActRetryable
  <2> QED
    BY <2>1, <1>t, <1>a, RetryMoves DEF RequestInv
<1>8. CASE ActFatal(r) \/ NotifyDying(r) \/ ExpireDone(r)
  <2>1. Goto(r, "end")
    BY <1>8 DEF ActFatal, NotifyDying, ExpireDone
  <2> QED
    BY <2>1, <1>t, <1>a, GotoMoves DEF RequestInv
<1>9. CASE RequestStopped(r)
  <2> DEFINE pc == IF req[r].pc = "sent" THEN "end" ELSE req[r].pc
  <2>1. pc \in RequestPCs /\ "stopped" \in Responses
    BY <1>v, <1>a DEF Responses
  <2>2. /\ DOMAIN req' = DOMAIN req /\ \A q \in DOMAIN req \ {r} : req'[q] = req[q]
        /\ req'[r] = [req[r] EXCEPT !.resp = "stopped", !.pc = pc]
    BY <1>9, <1>t DEF RequestStopped, RequestRecord
  <2>3. pc = req[r].pc \/ pc = "end"
    OBVIOUS
  <2> HIDE DEF pc
  <2>4. /\ [req[r] EXCEPT !.resp = "stopped", !.pc = pc] \in RequestRecord
        /\ req'[r].pc = pc /\ req'[r].resp = "stopped" /\ req'[r].last = req[r].last
    BY <2>1, <2>2, <1>t DEF RequestRecord
  <2>5. RequestMoves(r)
    BY <2>2, <2>4, <1>t DEF RequestMoves, RequestRecord
  <2> QED
    BY <2>3, <2>4, <2>5, <1>t DEF RequestInv
<1> QED
  BY <1>1, <1>2, <1>3, <1>4, <1>5, <1>6, <1>7, <1>8, <1>9 DEF RequestStep

-----------------------------------------------------------------------------
(* The steps, as the managers and the waiters see them.                    *)

(* Nothing that the loops, the timers and the waiters look at changes, but  *)
(* the leases may, and managers may begin to die.                           *)
Quiet ==
    /\ UNCHANGED <<loop, snap, nextTimeout, armed, blocks, checks, wait>>
    /\ UNCHANGED clockVars
    /\ mstate' \in [Managers -> {"up", "dying", "down"}]
    /\ \A m \in Managers :
          mstate'[m] = mstate[m] \/ (Up(m) /\ mstate'[m] = "dying")

\* The timer of m, or a revoke that is done, makes its loop read the leases.
ReadsLeases(m) ==
    /\ Choosing(m)
    /\ ReadLeases(m)
    /\ armed' = armed \/ (Now > nextTimeout[m] /\ armed' = [armed EXCEPT ![m] = FALSE])
    /\ UNCHANGED <<leaseVars, mstate, nextTimeout, blocks, checks, wait>>

\* A waiter leaves, its block stays.
WaitEnds(x) ==
    /\ wait' = [wait EXCEPT ![x].pc = "cancelled"]
       \/ wait' = [wait EXCEPT ![x].pc = "stopped"]
    /\ UNCHANGED <<leaseVars, managerVars>>

\* A step of a request is quiet, unless it makes the loop read the leases.
LEMMA RequestQuiet ==
    ASSUME TypeInv, NEW r \in DOMAIN req, RequestStep(r)
    PROVE  Quiet \/ \E m \in Managers : ReadsLeases(m)
<1>t. /\ mstate \in [Managers -> {"up", "dying", "down"}]
      /\ req[r].mgr \in Managers
  BY DEF TypeInv, LmTypeOK
<1>1. CASE ExpireDone(r)
  <2>1. ReadsLeases(req[r].mgr)
    BY <1>1 DEF ExpireDone, ReadsLeases
  <2> QED
    BY <1>t, <2>1
<1>2. CASE ActFatal(r)
  <2>1. mstate' = [mstate EXCEPT ![req[r].mgr] = IF Alive(r) THEN "dying" ELSE @]
    BY <1>2 DEF ActFatal, KillOf
  <2>2. CASE Alive(r)
    <3>1. mstate' = [mstate EXCEPT ![req[r].mgr] = "dying"] /\ Up(req[r].mgr)
      BY <2>1, <2>2 DEF Alive
    <3> QED
      BY <1>2, <1>t, <3>1 DEF Quiet, ActFatal, leaseVars, clockVars, Up
  <2>3. CASE ~Alive(r)
    <3>1. \A m \in Managers : mstate'[m] = mstate[m]
      BY <2>1, <2>3, <1>t
    <3>2. mstate' \in [Managers -> {"up", "dying", "down"}]
      BY <2>1, <2>3, <1>t
    <3> QED
      BY <1>2, <3>1, <3>2 DEF Quiet, ActFatal, leaseVars, clockVars
  <2> QED
    BY <2>2, <2>3
<1>3. ASSUME UNCHANGED managerVars, UNCHANGED wait, UNCHANGED clockVars PROVE Quiet
  BY <1>3, <1>t DEF Quiet, managerVars
<1>4. CASE Act(r) \/ ActRetryable(r)
  <2>1. UNCHANGED clockVars
    BY <1>4, StoreCallStep DEF Act, ActRetryable, leaseVars
  <2> QED
    BY <1>3, <1>4, <2>1 DEF Act, ActRetryable
<1>5. CASE \/ Accept(r) \/ Lookup(r) \/ LookupDying(r) \/ ActHeld(r)
           \/ ActInvalid(r) \/ RequestStopped(r) \/ NotifyDying(r)
  BY <1>3, <1>5 DEF Accept, Lookup, LookupDying, ActHeld, ActInvalid,
                    RequestStopped, NotifyDying, leaseVars
<1> QED
  BY <1>1, <1>2, <1>4, <1>5 DEF RequestStep

\* The kinds of step there are.
LEMMA StepShapes ==
    ASSUME TypeInv, LmStep
    PROVE  \/ Quiet
           \/ LmTick
           \/ \E m \in Managers : \/ Restart(m) \/ Start(m) \/ ReadsLeases(m)
                                  \/ CheckBlocks(m) \/ Down(m)
           \/ \E m \in Managers, k \in LeaseKeys :
                 CheckToken(m, k) \/ \E x \in Waiters : Block(x, m, k)
           \/ \E x \in DOMAIN wait : WaitEnds(x)
<1>t. mstate \in [Managers -> {"up", "dying", "down"}]
  BY DEF TypeInv, LmTypeOK
<1>1. ASSUME UNCHANGED managerVars, UNCHANGED wait, UNCHANGED clockVars PROVE Quiet
  BY <1>1, <1>t DEF Quiet, managerVars
<1>2. ASSUME StoreStep PROVE Quiet
  <2>1. UNCHANGED clockVars
    BY <1>2 DEF StoreStep, ExpireLeases, DeleteLeadershipForModel, PinLease, UnpinLease
  <2> QED
    BY <1>1, <1>2, <2>1 DEF StoreStep
<1>3. ASSUME NEW r, NEW op, NEW m, NEW k, NEW h, NEW d, Submit(r, op, m, k, h, d)
      PROVE  Quiet
  BY <1>1, <1>3 DEF Submit, leaseVars
<1>4. ASSUME NEW m \in Managers, TimerFires(m) PROVE ReadsLeases(m)
  BY <1>4 DEF TimerFires, ReadsLeases
<1>5. ASSUME NEW m \in Managers, Kill(m) PROVE Quiet
  BY <1>5, <1>t DEF Kill, Quiet, leaseVars, Up
<1>6. ASSUME NEW x \in DOMAIN wait, WaitCancelled(x) \/ WaitStopped(x) PROVE WaitEnds(x)
  BY <1>6 DEF WaitCancelled, WaitStopped, WaitEnds
<1>7. ASSUME NEW r \in DOMAIN req, RequestStep(r)
      PROVE  Quiet \/ \E m \in Managers : ReadsLeases(m)
  BY <1>7, RequestQuiet
<1>8. ASSUME NEW m \in Managers, ManagerStep(m)
      PROVE  Quiet \/ \E n \in Managers : \/ Restart(n) \/ Start(n) \/ ReadsLeases(n)
                                          \/ CheckBlocks(n) \/ Down(n)
  BY <1>8, <1>4, <1>5 DEF ManagerStep
<1> QED
  BY <1>2, <1>3, <1>6, <1>7, <1>8 DEF LmStep

(* Every step is a transaction of LeaseStore, the passing of time, or       *)
(* leaves the tables alone.                                                 *)
LEMMA StoreStepOf ==
    ASSUME TypeInv, LmStep
    PROVE  [StoreNext]_leaseVars
<1>1. CASE LmTick
  BY <1>1 DEF LmTick, StoreNext
<1>2. CASE StoreStep
  BY <1>2 DEF StoreStep, StoreNext
<1>3. ASSUME NEW r \in DOMAIN req, RequestStep(r) PROVE [StoreNext]_leaseVars
  <2>1. CASE StoreCall(r)
    BY <2>1, StoreCallStep
  <2>2. CASE ~StoreCall(r)
    BY <1>3, <2>2 DEF RequestStep, Accept, Lookup, LookupDying, Act, ActHeld,
        ActInvalid, ActRetryable, ActFatal, RequestStopped, NotifyDying, ExpireDone
  <2> QED
    BY <2>1, <2>2
<1>4. ASSUME NEW m \in Managers, ManagerStep(m) PROVE UNCHANGED leaseVars
  BY <1>4 DEF ManagerStep, Restart, Start, TimerFires, CheckBlocks, Kill, Down
<1>5. ASSUME NEW m, NEW k, NEW x, CheckToken(m, k) \/ Block(x, m, k)
      PROVE  UNCHANGED leaseVars
  BY <1>5 DEF CheckToken, Block
<1>6. ASSUME NEW x, WaitCancelled(x) \/ WaitStopped(x) PROVE UNCHANGED leaseVars
  BY <1>6 DEF WaitCancelled, WaitStopped
<1>7. ASSUME NEW r, NEW op, NEW m, NEW k, NEW h, NEW d, Submit(r, op, m, k, h, d)
      PROVE  UNCHANGED leaseVars
  BY <1>7 DEF Submit
<1> QED
  BY <1>1, <1>2, <1>3, <1>4, <1>5, <1>6, <1>7 DEF LmStep

\* Time passes in ticks only.
LEMMA TimeStep ==
    ASSUME TypeInv, LmStep
    PROVE  /\ Now \in Nat /\ Now' \in Nat
           /\ \/ LmTick /\ Now' = Now + 1
              \/ Now' = Now
<1>1. StoreTypeOK /\ Now \in Nat
  BY NowType DEF TypeInv, LmTypeOK
<1>2. CASE LmTick
  BY <1>1, <1>2, TickNow DEF LmTick
<1>3. ASSUME UNCHANGED clockVars PROVE Now' = Now
  BY <1>3 DEF clockVars, Now
<1>4. CASE ~LmTick
  <2>1. UNCHANGED clockVars
    BY <1>4, StepShapes
    DEF Quiet, Restart, Start, ReadsLeases, CheckBlocks, Down, CheckToken, Block,
        WaitEnds, leaseVars
  <2> QED
    BY <1>1, <1>3, <2>1
<1> QED
  BY <1>1, <1>2, <1>4

\* What setNextTimeout does to the timer of m, and to no other.
LEMMA SetNextTimeoutFacts ==
    ASSUME TypeInv, NEW m \in Managers, NEW t \in Nat, SetNextTimeout(m, t)
    PROVE  /\ nextTimeout' \in [Managers -> Nat \union {NoTime}]
           /\ armed' \in [Managers -> BOOLEAN]
           /\ \A n \in Managers \ {m} :
                 nextTimeout'[n] = nextTimeout[n] /\ armed'[n] = armed[n]
           /\ \/ /\ nextTimeout[m] >= Now /\ t >= nextTimeout[m]
                 /\ nextTimeout'[m] = nextTimeout[m] /\ armed'[m] = armed[m]
              \/ nextTimeout'[m] = t /\ armed'[m]
<1>t. nextTimeout \in [Managers -> Nat \union {NoTime}] /\ armed \in [Managers -> BOOLEAN]
  BY DEF TypeInv, LmTypeOK
<1>1. CASE nextTimeout[m] >= Now /\ t >= nextTimeout[m]
  BY <1>1, <1>t DEF SetNextTimeout
<1>2. CASE ~(nextTimeout[m] >= Now /\ t >= nextTimeout[m])
  BY <1>2, <1>t DEF SetNextTimeout
<1> QED
  BY <1>1, <1>2

-----------------------------------------------------------------------------
(* Type correctness.                                                       *)

\* The new request of a call.
Submitted(r) ==
    /\ r \in Requests /\ r \notin DOMAIN req
    /\ DOMAIN req' = DOMAIN req \union {r}
    /\ \A q \in DOMAIN req : req'[q] = req[q]
    /\ req'[r] \in RequestRecord
    /\ req'[r].pc = "sent" /\ req'[r].began = Now /\ req'[r].resp = "none"
    /\ req'[r].op = "claim" => req'[r].dur \in Durations /\ req'[r].last = "denied"
    /\ UNCHANGED leaseVars

\* A step makes a request, moves one, or leaves them alone.
LEMMA RequestCases ==
    ASSUME TypeInv, LmStep
    PROVE  \/ \E r \in Requests : Submitted(r)
           \/ \E r \in DOMAIN req : RequestStep(r)
           \/ UNCHANGED req /\ (UNCHANGED storeVars \/ StoreStep)
<1>1. Now \in Nat
  BY TimeStep
<1>2. ASSUME NEW r \in Requests, NEW m \in Managers, NEW k \in LeaseKeys, NEW h \in Holders,
             NEW op, NEW d, Submit(r, op, m, k, h, d),
             (op = "claim" /\ d \in Durations) \/ (op = "revoke" /\ d = 0)
      PROVE  Submitted(r)
  <2> DEFINE last == IF op = "claim" THEN "denied" ELSE "success"
             v == [op |-> op, mgr |-> m, key |-> k, holder |-> h, dur |-> d,
                   pc |-> "sent", tries |-> 0, began |-> Now, resp |-> "none",
                   last |-> last]
  <2>1. /\ last \in Responses \ {"none", "stopped"} /\ "none" \in Responses
        /\ "sent" \in RequestPCs /\ 0 \in 0..(MaxRetries - 1)
        /\ op \in {"claim", "revoke"} /\ d \in Durations \union {0}
        /\ op = "claim" => d \in Durations /\ last = "denied"
    BY <1>2, MaxRetriesAssumption DEF Responses, RequestPCs
  <2>2. /\ r \notin DOMAIN req /\ DOMAIN req' = DOMAIN req \union {r} /\ req'[r] = v
        /\ \A q \in DOMAIN req : req'[q] = req[q]
        /\ UNCHANGED leaseVars
    BY <1>2 DEF Submit
  <2> HIDE DEF last
  <2>3. v \in RequestRecord
    BY <1>1, <2>1 DEF RequestRecord
  <2>4. /\ v.pc = "sent" /\ v.began = Now /\ v.resp = "none"
        /\ v.op = op /\ v.dur = d /\ v.last = last
    OBVIOUS
  <2> HIDE DEF v
  <2> QED
    BY <2>1, <2>2, <2>3, <2>4 DEF Submitted
<1>3. ASSUME NEW m \in Managers, ManagerStep(m) PROVE UNCHANGED <<req, storeVars>>
  BY <1>3 DEF ManagerStep, Restart, Start, TimerFires, CheckBlocks, Kill, Down, leaseVars
<1>4. ASSUME NEW m, NEW k, NEW x, CheckToken(m, k) \/ Block(x, m, k)
      PROVE  UNCHANGED <<req, storeVars>>
  BY <1>4 DEF CheckToken, Block, leaseVars
<1>5. ASSUME NEW x, WaitCancelled(x) \/ WaitStopped(x) PROVE UNCHANGED <<req, storeVars>>
  BY <1>5 DEF WaitCancelled, WaitStopped, leaseVars
<1>6. ASSUME LmTick PROVE UNCHANGED <<req, storeVars>>
  BY <1>6 DEF LmTick, Tick
<1>7. ASSUME StoreStep PROVE UNCHANGED req
  BY <1>7 DEF StoreStep
<1> QED
  BY <1>2, <1>3, <1>4, <1>5, <1>6, <1>7 DEF LmStep

\* The requests keep their types and what their call allows.
LEMMA RequestTypeStep ==
    ASSUME TypeInv, LmStep
    PROVE  /\ DOMAIN req' \subseteq Requests
           /\ \A r \in DOMAIN req' : req'[r] \in RequestRecord /\ RequestInv(r)'
<1>t. /\ DOMAIN req \subseteq Requests
      /\ \A r \in DOMAIN req : req[r] \in RequestRecord /\ RequestInv(r)
  BY DEF TypeInv, LmTypeOK, RequestRecord
<1>n. Now \in Nat /\ Now' \in Nat /\ Now <= Now'
  BY TimeStep
<1>o. ASSUME NEW q \in DOMAIN req, req'[q] = req[q]
      PROVE  req'[q] \in RequestRecord /\ RequestInv(q)'
  <2>1. req[q].began \in Nat
    BY <1>t DEF RequestRecord
  <2> QED
    BY <1>n, <1>o, <1>t, <2>1 DEF RequestInv
<1>1. ASSUME NEW r \in Requests, Submitted(r)
      PROVE  /\ DOMAIN req' \subseteq Requests
             /\ \A q \in DOMAIN req' : req'[q] \in RequestRecord /\ RequestInv(q)'
  <2>1. RequestInv(r)'
    <3>1. req'[r].began <= Now' /\ req'[r].pc = "sent"
      BY <1>1, <1>n DEF Submitted
    <3> QED
      BY <1>1, <3>1 DEF Submitted, RequestInv
  <2> QED
    BY <1>1, <1>o, <1>t, <2>1 DEF Submitted
<1>2. ASSUME NEW r \in DOMAIN req, RequestStep(r)
      PROVE  /\ DOMAIN req' \subseteq Requests
             /\ \A q \in DOMAIN req' : req'[q] \in RequestRecord /\ RequestInv(q)'
  <2>1. RequestMoves(r)
    BY <1>2, RequestStepShape
  <2>2. RequestInv(r)'
    <3>1. req'[r].began <= Now'
      <4>1. req[r].began \in Nat /\ req[r].began <= Now
        BY <1>t DEF RequestRecord, RequestInv
      <4> QED
        BY <1>n, <2>1, <4>1 DEF RequestMoves
    <3>2. req'[r].op = "claim" => /\ req'[r].dur \in Durations
                                  /\ req'[r].pc \notin {"revoke", "notify"}
                                  /\ req'[r].last # "success"
      BY <1>2, <1>t, <2>1, RequestStepShape DEF RequestMoves, RequestInv
    <3>3. req'[r].pc \in {"claim", "extend"} => req'[r].op = "claim"
      BY <1>2, <2>1, RequestStepShape DEF RequestMoves
    <3> QED
      BY <3>1, <3>2, <3>3 DEF RequestInv
  <2> QED
    BY <1>o, <1>t, <2>1, <2>2 DEF RequestMoves
<1>3. CASE UNCHANGED req
  BY <1>3, <1>o, <1>t
<1> QED
  BY <1>1, <1>2, <1>3, RequestCases

\* The managers' and the waiters' part of LmTypeOK.
ManagerTypeOK ==
    /\ mstate \in [Managers -> {"up", "dying", "down"}]
    /\ loop \in [Managers -> {"start", "choose", "check"}]
    /\ \A m \in Managers : DOMAIN snap[m] \subseteq TypedKeys
    /\ nextTimeout \in [Managers -> Nat \union {NoTime}]
    /\ armed \in [Managers -> BOOLEAN]
    /\ blocks \in [Managers -> SUBSET DOMAIN wait]
    /\ checks \in 0..MaxChecks
    /\ DOMAIN wait \subseteq Waiters
    /\ \A x \in DOMAIN wait : wait[x] \in WaitRecord

\* A step of a loop, a timer or a waiter keeps them.
LEMMA ManagerTypeStep ==
    ASSUME TypeInv, LmStep
    PROVE  ManagerTypeOK' /\ SnapInv'
<1>t. ManagerTypeOK /\ SnapInv /\ StoreTypeOK /\ Now \in Nat
  BY TimeStep DEF TypeInv, LmTypeOK, ManagerTypeOK, WaitRecord
<1>1. CASE Quiet
  BY <1>1, <1>t DEF Quiet, ManagerTypeOK, SnapInv
<1>2. CASE LmTick
  BY <1>2, <1>t DEF LmTick, managerVars, ManagerTypeOK, SnapInv
<1>s. ASSUME UNCHANGED snap PROVE SnapInv'
  BY <1>s, <1>t DEF SnapInv
<1>3. ASSUME NEW m \in Managers, Restart(m) PROVE ManagerTypeOK' /\ SnapInv'
  BY <1>3, <1>t, <1>s DEF Restart, ManagerTypeOK
<1>4. ASSUME NEW m \in Managers, Start(m) PROVE ManagerTypeOK' /\ SnapInv'
  <2>1. NextTick(lease) \in Nat
    BY <1>t, NextTickBounds DEF StoreTypeOK
  <2>2. nextTimeout' \in [Managers -> Nat \union {NoTime}] /\ armed' \in [Managers -> BOOLEAN]
    BY <1>4, <2>1, SetNextTimeoutFacts DEF Start
  <2> QED
    BY <1>4, <1>t, <1>s, <2>2 DEF Start, ManagerTypeOK
<1>5. ASSUME NEW m \in Managers, ReadsLeases(m) PROVE ManagerTypeOK' /\ SnapInv'
  <2>1. armed' \in [Managers -> BOOLEAN]
    BY <1>5, <1>t DEF ReadsLeases, ManagerTypeOK
  <2>2. /\ DOMAIN snap' = Managers /\ snap'[m] = lease
        /\ \A n \in Managers \ {m} : snap'[n] = snap[n]
    BY <1>5, <1>t DEF ReadsLeases, ReadLeases, SnapInv
  <2>3. SnapInv' /\ \A n \in Managers : DOMAIN snap'[n] \subseteq TypedKeys
    BY <2>2, <1>t DEF SnapInv, StoreTypeOK, ManagerTypeOK
  <2> QED
    BY <1>5, <1>t, <2>1, <2>3 DEF ReadsLeases, ReadLeases, ManagerTypeOK
<1>6. ASSUME NEW m \in Managers, CheckBlocks(m) PROVE ManagerTypeOK' /\ SnapInv'
  <2>1. NextTick(snap[m]) \in Nat
    BY <1>t, NextTickBounds DEF SnapInv
  <2>2. nextTimeout' \in [Managers -> Nat \union {NoTime}] /\ armed' \in [Managers -> BOOLEAN]
    BY <1>6, <2>1, SetNextTimeoutFacts DEF CheckBlocks
  <2>3. /\ DOMAIN snap' = Managers /\ snap'[m] = NoLeases /\ DOMAIN NoLeases = {}
        /\ \A n \in Managers \ {m} : snap'[n] = snap[n]
    BY <1>6, <1>t DEF CheckBlocks, SnapInv, NoLeases
  <2>4. SnapInv' /\ \A n \in Managers : DOMAIN snap'[n] \subseteq TypedKeys
    BY <2>3, <1>t DEF SnapInv, ManagerTypeOK
  <2>5. DOMAIN wait' = DOMAIN wait
    BY <1>6 DEF CheckBlocks
  <2>6. ASSUME NEW x \in DOMAIN wait PROVE wait'[x] \in WaitRecord
    <3>1. wait'[x] = wait[x] \/ wait'[x] = [wait[x] EXCEPT !.pc = "released"]
      BY <1>6 DEF CheckBlocks
    <3>2. wait[x] \in WaitRecord
      BY <1>t DEF ManagerTypeOK
    <3> QED
      BY <3>1, <3>2 DEF WaitRecord
  <2>7. blocks' \in [Managers -> SUBSET DOMAIN wait']
    BY <1>6, <1>t, <2>5 DEF CheckBlocks, ManagerTypeOK
  <2> QED
    BY <1>6, <1>t, <2>2, <2>4, <2>5, <2>6, <2>7 DEF CheckBlocks, ManagerTypeOK
<1>7. ASSUME NEW m \in Managers, Down(m) PROVE ManagerTypeOK' /\ SnapInv'
  <2>1. /\ DOMAIN snap' = Managers /\ snap'[m] = NoLeases /\ DOMAIN NoLeases = {}
        /\ \A n \in Managers \ {m} : snap'[n] = snap[n]
    BY <1>7, <1>t DEF Down, SnapInv, NoLeases
  <2>2. SnapInv' /\ \A n \in Managers : DOMAIN snap'[n] \subseteq TypedKeys
    BY <2>1, <1>t DEF SnapInv, ManagerTypeOK
  <2> QED
    BY <1>7, <1>t, <2>2 DEF Down, ManagerTypeOK
<1>8. ASSUME NEW m \in Managers, NEW k \in LeaseKeys, CheckToken(m, k)
      PROVE  ManagerTypeOK' /\ SnapInv'
  <2>1. nextTimeout' \in [Managers -> Nat \union {NoTime}] /\ armed' \in [Managers -> BOOLEAN]
    BY <1>8, <1>t, SetNextTimeoutFacts DEF CheckToken
  <2>2. checks' \in 0..MaxChecks
    BY <1>8, <1>t, MaxChecksAssumption DEF CheckToken, ManagerTypeOK
  <2> QED
    BY <1>8, <1>t, <1>s, <2>1, <2>2 DEF CheckToken, ManagerTypeOK
<1>9. ASSUME NEW m \in Managers, NEW k \in LeaseKeys, NEW x \in Waiters, Block(x, m, k)
      PROVE  ManagerTypeOK' /\ SnapInv'
  <2>1. /\ DOMAIN wait' = DOMAIN wait \union {x}
        /\ wait'[x] = [mgr |-> m, key |-> k, pc |-> "blocked"]
        /\ \A y \in DOMAIN wait : wait'[y] = wait[y]
    BY <1>9 DEF Block
  <2>2. DOMAIN wait' \subseteq Waiters /\ \A y \in DOMAIN wait' : wait'[y] \in WaitRecord
    BY <1>t, <2>1 DEF ManagerTypeOK, WaitRecord
  <2>3. blocks' \in [Managers -> SUBSET DOMAIN wait']
    BY <1>9, <1>t, <2>1 DEF Block, ManagerTypeOK
  <2> QED
    BY <1>9, <1>t, <1>s, <2>2, <2>3 DEF Block, ManagerTypeOK
<1>10. ASSUME NEW x \in DOMAIN wait, WaitEnds(x) PROVE ManagerTypeOK' /\ SnapInv'
  <2>1. DOMAIN wait' = DOMAIN wait /\ \A y \in DOMAIN wait \ {x} : wait'[y] = wait[y]
    BY <1>10 DEF WaitEnds
  <2>2. wait'[x] \in WaitRecord
    <3>1. \/ wait'[x] = [wait[x] EXCEPT !.pc = "cancelled"]
          \/ wait'[x] = [wait[x] EXCEPT !.pc = "stopped"]
      BY <1>10 DEF WaitEnds
    <3>2. wait[x] \in WaitRecord
      BY <1>t DEF ManagerTypeOK
    <3> QED
      BY <3>1, <3>2 DEF WaitRecord
  <2> QED
    BY <1>10, <1>t, <1>s, <2>1, <2>2 DEF WaitEnds, managerVars, ManagerTypeOK
<1> QED
  BY <1>1, <1>2, <1>3, <1>4, <1>5, <1>6, <1>7, <1>8, <1>9, <1>10, StepShapes

\* Every step, and the history kept with it, preserves the types.
LEMMA TypeInvStep ==
    ASSUME TypeInv, [LmNext]_lmVars
    PROVE  TypeInv'
<1>1. CASE LmNext
  <2>1. LmStep /\ ObserveAbsence
    BY <1>1 DEF LmNext
  <2>2. PromiseInv'
    BY <2>1, StoreStepOf, PromiseStep DEF TypeInv
  <2>3. ManagerTypeOK' /\ SnapInv'
    BY <2>1, ManagerTypeStep
  <2>4. /\ DOMAIN req' \subseteq Requests
        /\ \A r \in DOMAIN req' : req'[r] \in RequestRecord /\ RequestInv(r)'
    BY <2>1, RequestTypeStep
  <2>5. absent' \in [Waiters -> [since : Nat \union {NoTime}, ever : BOOLEAN]]
    <3>1. Now' \in Nat
      BY <2>1, TimeStep
    <3>2. absent \in [Waiters -> [since : Nat \union {NoTime}, ever : BOOLEAN]]
      BY DEF TypeInv, LmTypeOK
    <3>3. ASSUME NEW x \in Waiters
          PROVE  absent'[x] \in [since : Nat \union {NoTime}, ever : BOOLEAN]
      <4>1. \/ absent'[x] = absent[x]
            \/ absent'[x] = [absent[x] EXCEPT !.since = NoTime]
            \/ absent'[x] = [since |-> Now', ever |-> TRUE]
            \/ absent'[x] = [since |-> absent[x].since, ever |-> TRUE]
        BY <2>1 DEF ObserveAbsence
      <4> DEFINE R == [since : Nat \union {NoTime}, ever : BOOLEAN]
      <4>2. absent[x] \in R
        BY <3>2
      <4>3. [absent[x] EXCEPT !.since = NoTime] \in R
        BY <4>2
      <4>4. [since |-> Now', ever |-> TRUE] \in R
        BY <3>1
      <4>5. absent[x].since \in Nat \union {NoTime}
        BY <4>2
      <4>6. [since |-> absent[x].since, ever |-> TRUE] \in R
        BY <4>5
      <4> QED
        BY <4>1, <4>2, <4>3, <4>4, <4>6
    <3>4. /\ absent' = [x \in Waiters |-> absent'[x]]
      BY <2>1 DEF ObserveAbsence
    <3> QED
      BY <3>3, <3>4
  <2>6. LmTypeOK'
    BY <2>2, <2>3, <2>4, <2>5
    DEF LmTypeOK, PromiseInv, ManagerTypeOK, RequestRecord, WaitRecord
  <2> QED
    BY <2>2, <2>3, <2>4, <2>6 DEF TypeInv
<1>2. CASE UNCHANGED lmVars
  <2>1. UNCHANGED <<leaseVars, managerVars, req, wait, absent>>
    BY <1>2 DEF lmVars
  <2>2. PromiseInv' /\ Now' = Now
    BY <2>1, PromiseStep DEF TypeInv, leaseVars, clockVars, Now
  <2>3. LmTypeOK'
    BY <2>1, <2>2 DEF TypeInv, LmTypeOK, PromiseInv, managerVars
  <2> QED
    BY <2>1, <2>2, <2>3 DEF TypeInv, SnapInv, RequestInv, managerVars
<1> QED
  BY <1>1, <1>2

\* No lease, no manager running, no caller.
LEMMA InitTypeInv == LmInit => TypeInv
<1> SUFFICES ASSUME LmInit PROVE TypeInv
  OBVIOUS
<1>1. PromiseInv
  BY InitPromiseInv DEF LmInit
<1>2. SnapInv
  BY DEF LmInit, SnapInv, NoLeases
<1>3. LmTypeOK
  BY <1>1, MaxChecksAssumption DEF LmInit, LmTypeOK, PromiseInv, NoLeases
<1>4. \A r \in DOMAIN req : RequestInv(r)
  BY DEF LmInit
<1> QED
  BY <1>1, <1>2, <1>3, <1>4 DEF TypeInv

(* Every variable of the managers keeps its type, for any constants: no     *)
(* request is attempted more than maxRetries times, and the timer is always *)
(* set to a moment.                                                         *)
THEOREM ManagerTypes == LmSpec => []LmTypeOK
<1>1. TypeInv => LmTypeOK
  BY DEF TypeInv
<1> QED
  BY <1>1, InitTypeInv, TypeInvStep, PTL DEF LmSpec

-----------------------------------------------------------------------------
(* The timer.                                                              *)

(* A manager that is starting has no timeout yet. At its select its timer   *)
(* is running and the clock is at most a tick past the timeout, where the   *)
(* timer fires. While it checks its blocks, a timer that is not running     *)
(* has a timeout in the past, so that setNextTimeout cannot leave it out.   *)
LoopInv(m) ==
    /\ mstate[m] = "down" => loop[m] = "start" /\ nextTimeout[m] = NoTime
    /\ Up(m) => nextTimeout[m] <= Now + MaxSleep + SecondTicks
    /\ Up(m) /\ loop[m] = "start" => nextTimeout[m] = NoTime
    /\ Choosing(m) => armed[m] /\ Now <= nextTimeout[m] + 1
    /\ Up(m) /\ loop[m] = "check" => armed[m] \/ nextTimeout[m] < Now

\* Where the managers' variables and the clock stay, so does the invariant.
LEMMA LoopFrame ==
    ASSUME NEW m, LoopInv(m), Now' = Now,
           mstate'[m] = mstate[m] \/ (Up(m) /\ mstate'[m] = "dying"),
           loop'[m] = loop[m], nextTimeout'[m] = nextTimeout[m], armed'[m] = armed[m]
    PROVE  LoopInv(m)'
BY DEF LoopInv, Up, Choosing

(* setNextTimeout leaves the manager with a running timer and a timeout     *)
(* within the limit, if the timer that it may leave alone was running.      *)
LEMMA LoopReset ==
    ASSUME TypeInv, NEW m \in Managers, LoopInv(m), Up(m), Now' = Now,
           NEW t \in Nat, SetNextTimeout(m, t),
           Now + SecondTicks <= t, t <= Now + MaxSleep + SecondTicks,
           loop'[m] = "choose", mstate'[m] = "up"
    PROVE  LoopInv(m)'
<1>t. /\ Now \in Nat /\ nextTimeout[m] \in Int /\ loop[m] \in {"start", "choose", "check"}
  BY NowType DEF TypeInv, LmTypeOK
<1>1. CASE /\ nextTimeout[m] >= Now /\ t >= nextTimeout[m]
           /\ nextTimeout'[m] = nextTimeout[m] /\ armed'[m] = armed[m]
  <2>1. armed[m] /\ nextTimeout[m] <= Now + MaxSleep + SecondTicks
    BY <1>1, <1>t DEF LoopInv, Up, Choosing
  <2> QED
    BY <1>1, <1>t, <2>1 DEF LoopInv, Up, Choosing
<1>2. CASE nextTimeout'[m] = t /\ armed'[m]
  BY <1>2, <1>t DEF LoopInv, Up, Choosing
<1> QED
  BY <1>1, <1>2, SetNextTimeoutFacts

\* Every step keeps every manager's timer in order.
LEMMA LoopInvStep ==
    ASSUME TypeInv, LmStep, \A m \in Managers : LoopInv(m)
    PROVE  \A m \in Managers : LoopInv(m)'
<1> SUFFICES ASSUME NEW n \in Managers PROVE LoopInv(n)'
  OBVIOUS
<1>t. /\ LoopInv(n) /\ Now \in Nat /\ Now' \in Nat
      /\ mstate \in [Managers -> {"up", "dying", "down"}]
      /\ loop \in [Managers -> {"start", "choose", "check"}]
      /\ nextTimeout \in [Managers -> Nat \union {NoTime}]
      /\ armed \in [Managers -> BOOLEAN]
      /\ nextTimeout[n] \in Int
  BY TimeStep DEF TypeInv, LmTypeOK
<1>c. ASSUME UNCHANGED leaseVars PROVE Now' = Now
  BY <1>c DEF leaseVars, clockVars, Now
<1>1. CASE Quiet
  <2>1. Now' = Now
    BY <1>1 DEF Quiet, clockVars, Now
  <2> QED
    BY <1>1, <1>t, <2>1, LoopFrame DEF Quiet
<1>2. CASE LmTick
  <2>1. /\ UNCHANGED managerVars /\ Now' = Now + 1
        /\ Up(n) => loop[n] = "choose" /\ Now <= nextTimeout[n]
    BY <1>2, TickNow DEF LmTick, TypeInv, LmTypeOK
  <2> QED
    BY <1>t, <2>1 DEF LoopInv, Up, Choosing, managerVars
<1>3. ASSUME NEW m \in Managers, Restart(m) PROVE LoopInv(n)'
  <2>1. Now' = Now /\ UNCHANGED <<loop, nextTimeout, armed>>
    BY <1>3, <1>c DEF Restart
  <2>2. CASE n # m
    BY <1>3, <1>t, <2>1, <2>2, LoopFrame DEF Restart
  <2>3. CASE n = m
    <3>1. mstate'[n] = "up" /\ loop[n] = "start" /\ nextTimeout[n] = NoTime
      BY <1>3, <1>t, <2>3 DEF Restart, LoopInv
    <3> QED
      BY <1>t, <2>1, <3>1 DEF LoopInv, Up, Choosing
  <2> QED
    BY <2>2, <2>3
<1>4. ASSUME NEW m \in Managers, Start(m) PROVE LoopInv(n)'
  <2>1. Now' = Now /\ UNCHANGED mstate
    BY <1>4, <1>c DEF Start
  <2>2. /\ NextTick(lease) \in Nat /\ Now + SecondTicks <= NextTick(lease)
        /\ NextTick(lease) <= Now + MaxSleep + SecondTicks
    BY <1>t, NextTickBounds DEF TypeInv, LmTypeOK, StoreTypeOK
  <2>3. CASE n # m
    BY <1>4, <1>t, <2>1, <2>2, <2>3, SetNextTimeoutFacts, LoopFrame DEF Start
  <2>4. CASE n = m
    <3>1. loop'[n] = "choose" /\ mstate'[n] = "up" /\ Up(n)
      BY <1>4, <1>t, <2>1, <2>4 DEF Start, Up
    <3> QED
      BY <1>4, <1>t, <2>1, <2>2, <2>4, <3>1, LoopReset DEF Start
  <2> QED
    BY <2>3, <2>4
<1>5. ASSUME NEW m \in Managers, ReadsLeases(m) PROVE LoopInv(n)'
  <2>1. Now' = Now /\ UNCHANGED <<mstate, nextTimeout>>
    BY <1>5, <1>c DEF ReadsLeases
  <2>2. CASE n # m
    <3>1. armed'[n] = armed[n] /\ loop'[n] = loop[n]
      BY <1>5, <1>t, <2>2 DEF ReadsLeases, ReadLeases
    <3> QED
      BY <1>t, <2>1, <3>1, LoopFrame
  <2>3. CASE n = m
    <3>1. loop'[n] = "check" /\ Up(n) /\ armed[n]
      BY <1>5, <1>t, <2>3 DEF ReadsLeases, ReadLeases, Choosing, LoopInv
    <3>2. armed'[n] \/ nextTimeout[n] < Now
      <4>1. CASE armed' = armed
        BY <3>1, <4>1
      <4>2. CASE Now > nextTimeout[m]
        BY <1>t, <2>3, <4>2
      <4> QED
        BY <1>5, <4>1, <4>2 DEF ReadsLeases
    <3> QED
      BY <1>t, <2>1, <3>1, <3>2 DEF LoopInv, Up, Choosing
  <2> QED
    BY <2>2, <2>3
<1>6. ASSUME NEW m \in Managers, CheckBlocks(m) PROVE LoopInv(n)'
  <2>1. Now' = Now /\ UNCHANGED mstate
    BY <1>6, <1>c DEF CheckBlocks
  <2>2. /\ NextTick(snap[m]) \in Nat /\ Now + SecondTicks <= NextTick(snap[m])
        /\ NextTick(snap[m]) <= Now + MaxSleep + SecondTicks
    BY <1>t, NextTickBounds DEF TypeInv, SnapInv
  <2>3. CASE n # m
    BY <1>6, <1>t, <2>1, <2>2, <2>3, SetNextTimeoutFacts, LoopFrame DEF CheckBlocks
  <2>4. CASE n = m
    <3>1. loop'[n] = "choose" /\ mstate'[n] = "up" /\ Up(n)
      BY <1>6, <1>t, <2>1, <2>4 DEF CheckBlocks, Up
    <3> QED
      BY <1>6, <1>t, <2>1, <2>2, <2>4, <3>1, LoopReset DEF CheckBlocks
  <2> QED
    BY <2>3, <2>4
<1>7. ASSUME NEW m \in Managers, Down(m) PROVE LoopInv(n)'
  <2>1. Now' = Now
    BY <1>7, <1>c DEF Down
  <2>2. CASE n # m
    BY <1>7, <1>t, <2>1, <2>2, LoopFrame DEF Down
  <2>3. CASE n = m
    BY <1>7, <1>t, <2>3 DEF Down, LoopInv, Up, Choosing
  <2> QED
    BY <2>2, <2>3
<1>8. ASSUME NEW m \in Managers, NEW k \in LeaseKeys, CheckToken(m, k) PROVE LoopInv(n)'
  <2>1. Now' = Now /\ UNCHANGED <<mstate, loop>> /\ Now + SecondTicks \in Nat
    BY <1>8, <1>c, <1>t DEF CheckToken
  <2>2. CASE n # m
    BY <1>8, <1>t, <2>1, <2>2, SetNextTimeoutFacts, LoopFrame DEF CheckToken
  <2>3. CASE n = m
    <3>1. loop'[n] = "choose" /\ mstate'[n] = "up" /\ Up(n)
      BY <1>8, <1>t, <2>1, <2>3 DEF CheckToken, Choosing, Up
    <3>2. Now + SecondTicks <= Now + MaxSleep + SecondTicks /\ Now + SecondTicks <= Now + SecondTicks
      BY <1>t
    <3> QED
      BY <1>8, <1>t, <2>1, <2>3, <3>1, <3>2, LoopReset DEF CheckToken
  <2> QED
    BY <2>2, <2>3
<1>9. ASSUME NEW m, NEW k, NEW x, Block(x, m, k) PROVE LoopInv(n)'
  BY <1>9, <1>t, <1>c, LoopFrame DEF Block
<1>10. ASSUME NEW x, WaitEnds(x) PROVE LoopInv(n)'
  BY <1>10, <1>t, <1>c, LoopFrame DEF WaitEnds, managerVars
<1> QED
  BY <1>1, <1>2, <1>3, <1>4, <1>5, <1>6, <1>7, <1>8, <1>9, <1>10, StepShapes

-----------------------------------------------------------------------------
(* The waiters.                                                            *)

\* x waits for a manager that is not dying.
Serving(x) == wait[x].pc = "blocked" /\ Up(wait[x].mgr)

\* What the checks of missing leases can have cost a waiter.
Slack == (1 + checks) * (SecondTicks + 1)

(* The blocks of a manager are its callers', all of those that wait; a      *)
(* manager that starts has none.                                            *)
BlockInv ==
    /\ \A m \in Managers : \A x \in blocks[m] : wait[x].mgr = m
    /\ \A x \in DOMAIN wait :
          wait[x].pc = "blocked" /\ mstate[wait[x].mgr] # "down"
            => x \in blocks[wait[x].mgr]
    /\ \A x \in DOMAIN wait : Serving(x) => loop[wait[x].mgr] # "start"

\* Who is released, or about to be, has seen its lease free.
GoneInv(x) ==
    /\ wait[x].pc = "released" => absent[x].ever
    /\ Serving(x) /\ loop[wait[x].mgr] = "check"
         /\ wait[x].key \notin DOMAIN snap[wait[x].mgr]
         => absent[x].ever

(* A waiter whose lease is gone: its manager wakes up in time; and a lease  *)
(* that checkBlocks has seen can only have gone since, at this very moment. *)
DelayInv(x) ==
    Serving(x) /\ absent[x].since # NoTime =>
        /\ absent[x].since <= Now
        /\ Now <= absent[x].since + MaxSleep + Slack
        /\ loop[wait[x].mgr] = "choose" =>
              nextTimeout[wait[x].mgr] < absent[x].since + MaxSleep + Slack
        /\ loop[wait[x].mgr] = "check" /\ wait[x].key \in DOMAIN snap[wait[x].mgr]
             => absent[x].since = Now

WaitInv ==
    /\ BlockInv
    /\ \A x \in Waiters \ DOMAIN wait : absent[x].since = NoTime
    /\ \A x \in DOMAIN wait : GoneInv(x) /\ DelayInv(x)

\* The slack is a second and a tick for each check, and one more.
LEMMA SlackFacts ==
    ASSUME TypeInv
    PROVE  /\ Slack \in Nat /\ Slack >= SecondTicks + 1
           /\ checks' = checks => Slack' = Slack
           /\ checks' = checks + 1 => Slack' = Slack + SecondTicks + 1
<1>1. checks \in Nat /\ SecondTicks \in Nat
  BY DEF TypeInv, LmTypeOK
<1> DEFINE D == SecondTicks + 1
<1>2. D \in Nat /\ checks * D \in Nat
  BY <1>1
<1>3. (1 + checks) * D = D + checks * D /\ (1 + (checks + 1)) * D = D + D + checks * D
  BY <1>1
<1>4. Slack = D + checks * D /\ (checks' = checks + 1 => Slack' = D + D + checks * D)
  BY <1>3 DEF Slack
<1> HIDE DEF D
<1>5. /\ Slack \in Nat /\ Slack >= D
      /\ (checks' = checks + 1 => Slack' = Slack + D)
  BY <1>1, <1>2, <1>4
<1>6. checks' = checks => Slack' = Slack
  BY DEF Slack
<1> QED
  BY <1>1, <1>5, <1>6 DEF D

\* What the history records of a waiter in a step.
LEMMA AbsenceStep ==
    ASSUME ObserveAbsence, NEW x \in Waiters,
           absent \in [Waiters -> [since : Nat \union {NoTime}, ever : BOOLEAN]]
    PROVE  /\ absent[x].ever => absent'[x].ever
           /\ x \in DOMAIN wait' /\ wait'[x].pc = "blocked" =>
                 /\ wait'[x].key \in DOMAIN lease' => absent'[x].since = NoTime
                 /\ wait'[x].key \notin DOMAIN lease' =>
                       /\ absent'[x].ever
                       /\ absent'[x].since = IF absent[x].since = NoTime
                                             THEN Now' ELSE absent[x].since
           /\ x \notin DOMAIN wait' => absent'[x] = absent[x]
<1>1. absent'[x] = IF x \notin DOMAIN wait' \/ wait'[x].pc # "blocked" THEN absent[x]
                   ELSE IF wait'[x].key \in DOMAIN lease'
                        THEN [absent[x] EXCEPT !.since = NoTime]
                        ELSE [since |-> IF absent[x].since = NoTime
                                        THEN Now' ELSE absent[x].since,
                              ever |-> TRUE]
  BY DEF ObserveAbsence
<1>2. absent[x] \in [since : Nat \union {NoTime}, ever : BOOLEAN]
  OBVIOUS
<1>3. CASE x \notin DOMAIN wait' \/ wait'[x].pc # "blocked"
  BY <1>1, <1>3
<1>4. CASE x \in DOMAIN wait' /\ wait'[x].pc = "blocked" /\ wait'[x].key \in DOMAIN lease'
  <2>1. absent'[x] = [absent[x] EXCEPT !.since = NoTime]
    BY <1>1, <1>4
  <2>2. absent'[x].since = NoTime /\ absent'[x].ever = absent[x].ever
    BY <1>2, <2>1
  <2> QED
    BY <1>4, <2>2
<1>5. CASE x \in DOMAIN wait' /\ wait'[x].pc = "blocked" /\ wait'[x].key \notin DOMAIN lease'
  <2>1. absent'[x] = [since |-> IF absent[x].since = NoTime
                                THEN Now' ELSE absent[x].since,
                      ever |-> TRUE]
    BY <1>1, <1>5
  <2>2. /\ absent'[x].ever
        /\ absent'[x].since = IF absent[x].since = NoTime
                              THEN Now' ELSE absent[x].since
    BY <2>1
  <2> QED
    BY <1>5, <2>2
<1> QED
  BY <1>3, <1>4, <1>5

(* What a step does to the calls of WaitUntilExpired: their arguments stay, *)
(* none waits again, and only checkBlocks releases.                         *)
LEMMA WaitStep ==
    ASSUME TypeInv, LmStep
    PROVE  /\ DOMAIN wait \subseteq DOMAIN wait'
           /\ \A x \in DOMAIN wait :
                 /\ wait'[x].mgr = wait[x].mgr /\ wait'[x].key = wait[x].key
                 /\ wait'[x].pc = "blocked" => wait'[x] = wait[x]
                 /\ wait'[x].pc = "released" =>
                       \/ wait[x].pc = "released"
                       \/ /\ wait[x].pc = "blocked"
                          /\ \E m \in Managers : CheckBlocks(m) /\ x \in Unblocked(m)
           /\ \A x \in DOMAIN wait' \ DOMAIN wait :
                 \E m \in Managers, k \in LeaseKeys : Block(x, m, k)
<1>t. \A x \in DOMAIN wait : wait[x] \in WaitRecord
  BY DEF TypeInv, LmTypeOK, WaitRecord
<1>1. CASE UNCHANGED wait
  BY <1>1
<1>2. ASSUME NEW m \in Managers, CheckBlocks(m)
      PROVE  /\ DOMAIN wait' = DOMAIN wait
             /\ \A x \in DOMAIN wait :
                   \/ wait'[x] = wait[x]
                   \/ /\ wait[x].pc = "blocked" /\ x \in Unblocked(m)
                      /\ wait'[x].mgr = wait[x].mgr /\ wait'[x].key = wait[x].key
                      /\ wait'[x].pc = "released"
  BY <1>2, <1>t DEF CheckBlocks, WaitRecord
<1>3. ASSUME NEW m \in Managers, NEW k \in LeaseKeys, NEW x \in Waiters, Block(x, m, k)
      PROVE  /\ DOMAIN wait' = DOMAIN wait \union {x} /\ x \notin DOMAIN wait
             /\ \A y \in DOMAIN wait : wait'[y] = wait[y]
  BY <1>3 DEF Block
<1>4. ASSUME NEW x \in DOMAIN wait, WaitEnds(x)
      PROVE  /\ DOMAIN wait' = DOMAIN wait
             /\ \A y \in DOMAIN wait \ {x} : wait'[y] = wait[y]
             /\ wait'[x].mgr = wait[x].mgr /\ wait'[x].key = wait[x].key
             /\ wait'[x].pc \in {"cancelled", "stopped"}
  <2>1. wait[x] \in WaitRecord
    BY <1>t
  <2> QED
    BY <1>4, <2>1 DEF WaitEnds, WaitRecord
<1>5. CASE \E m \in Managers : CheckBlocks(m)
  BY <1>2, <1>5
<1>6. CASE \E m \in Managers, k \in LeaseKeys, x \in Waiters : Block(x, m, k)
  <2>1. PICK m \in Managers, k \in LeaseKeys, x \in Waiters : Block(x, m, k)
    BY <1>6
  <2>2. /\ DOMAIN wait' = DOMAIN wait \union {x} /\ x \notin DOMAIN wait
        /\ \A y \in DOMAIN wait : wait'[y] = wait[y]
    BY <2>1, <1>3
  <2>3. \A y \in DOMAIN wait' \ DOMAIN wait :
           \E n \in Managers, j \in LeaseKeys : Block(y, n, j)
    BY <2>1, <2>2
  <2>4. \A y \in DOMAIN wait :
           /\ wait'[y].mgr = wait[y].mgr /\ wait'[y].key = wait[y].key
           /\ wait'[y].pc = "blocked" => wait'[y] = wait[y]
           /\ wait'[y].pc = "released" => wait[y].pc = "released"
    BY <2>2
  <2> QED
    BY <2>2, <2>3, <2>4
<1>7. CASE \E x \in DOMAIN wait : WaitEnds(x)
  <2>1. PICK x \in DOMAIN wait : WaitEnds(x)
    BY <1>7
  <2> QED
    BY <1>4, <2>1
<1>8. CASE \/ Quiet \/ LmTick
           \/ \E m \in Managers : Restart(m) \/ Start(m) \/ ReadsLeases(m) \/ Down(m)
           \/ \E m \in Managers, k \in LeaseKeys : CheckToken(m, k)
  BY <1>1, <1>8 DEF Quiet, LmTick, Restart, Start, ReadsLeases, Down, CheckToken
<1> QED
  BY <1>5, <1>6, <1>7, <1>8, StepShapes

(* A waiter that a manager serves after a step was served before: a worker  *)
(* is only restarted when its former callers have left.                     *)
LEMMA ServingStep ==
    ASSUME TypeInv, LmStep, NEW x \in DOMAIN wait, Serving(x)'
    PROVE  Serving(x) /\ wait'[x] = wait[x]
<1>1. wait'[x] = wait[x] /\ wait[x].pc = "blocked"
  BY WaitStep DEF Serving
<1>t. /\ mstate \in [Managers -> {"up", "dying", "down"}] /\ wait[x].mgr \in Managers
  BY DEF TypeInv, LmTypeOK
<1>2. SUFFICES ASSUME ~Up(wait[x].mgr) PROVE FALSE
  BY <1>1 DEF Serving
<1>3. mstate'[wait[x].mgr] = "up" /\ mstate[wait[x].mgr] # "up"
  BY <1>1, <1>2 DEF Serving, Up
<1>4. ASSUME NEW m \in Managers, Restart(m) PROVE FALSE
  <2>1. wait[x].mgr # m
    BY <1>1, <1>4 DEF Restart
  <2> QED
    BY <1>3, <1>4, <1>t, <2>1 DEF Restart
<1>5. ASSUME NEW m \in Managers, Down(m) PROVE FALSE
  BY <1>3, <1>5, <1>t DEF Down
<1>6. CASE Quiet
  BY <1>3, <1>6, <1>t DEF Quiet
<1>7. CASE UNCHANGED mstate
  BY <1>3, <1>7
<1> QED
  BY <1>4, <1>5, <1>6, <1>7, StepShapes
  DEF LmTick, Start, ReadsLeases, CheckBlocks, CheckToken, Block, WaitEnds, managerVars

\* The blocks stay the callers of their manager.
LEMMA BlockInvStep ==
    ASSUME TypeInv, BlockInv, LmStep
    PROVE  BlockInv'
<1>t. /\ mstate \in [Managers -> {"up", "dying", "down"}]
      /\ loop \in [Managers -> {"start", "choose", "check"}]
      /\ blocks \in [Managers -> SUBSET DOMAIN wait]
      /\ \A x \in DOMAIN wait : wait[x].mgr \in Managers
  BY DEF TypeInv, LmTypeOK
<1>w. /\ DOMAIN wait \subseteq DOMAIN wait'
      /\ \A x \in DOMAIN wait : /\ wait'[x].mgr = wait[x].mgr
                                /\ wait'[x].pc = "blocked" => wait'[x] = wait[x]
  BY WaitStep
<1>1. ASSUME UNCHANGED <<loop, blocks>>, DOMAIN wait' = DOMAIN wait,
             \A m \in Managers : \/ mstate'[m] = mstate[m]
                                 \/ Up(m) /\ mstate'[m] = "dying"
      PROVE  BlockInv'
  <2>1. \A m \in Managers : \A x \in blocks'[m] : wait'[x].mgr = m
    BY <1>1, <1>t, <1>w DEF BlockInv
  <2>2. \A x \in DOMAIN wait' : wait'[x].pc = "blocked" /\ mstate'[wait'[x].mgr] # "down"
           => x \in blocks'[wait'[x].mgr]
    BY <1>1, <1>t, <1>w DEF BlockInv, Up
  <2>3. \A x \in DOMAIN wait' : Serving(x)' => loop'[wait'[x].mgr] # "start"
    BY <1>1, <1>w, ServingStep DEF BlockInv
  <2> QED
    BY <2>1, <2>2, <2>3 DEF BlockInv
<1>2. CASE Quiet
  BY <1>1, <1>2 DEF Quiet
<1>3. CASE \/ LmTick
           \/ \E m \in Managers, k \in LeaseKeys : CheckToken(m, k)
  BY <1>1, <1>3 DEF LmTick, CheckToken, managerVars
<1>4. ASSUME NEW x \in DOMAIN wait, WaitEnds(x) PROVE BlockInv'
  BY <1>1, <1>4 DEF WaitEnds, managerVars
<1>5. ASSUME NEW m \in Managers, Restart(m) PROVE BlockInv'
  <2>1. UNCHANGED <<loop, blocks, wait>> /\ \A x \in DOMAIN wait : wait[x].mgr = m => wait[x].pc # "blocked"
    BY <1>5 DEF Restart
  <2>2. \A n \in Managers \ {m} : mstate'[n] = mstate[n]
    BY <1>5, <1>t DEF Restart
  <2>3. \A x \in DOMAIN wait' : wait'[x].pc = "blocked" /\ mstate'[wait'[x].mgr] # "down"
           => x \in blocks'[wait'[x].mgr]
    BY <1>t, <2>1, <2>2 DEF BlockInv
  <2>4. \A x \in DOMAIN wait' : Serving(x)' => loop'[wait'[x].mgr] # "start"
    BY <2>1, ServingStep DEF BlockInv
  <2> QED
    BY <2>1, <2>3, <2>4 DEF BlockInv
<1>6. ASSUME NEW m \in Managers, Start(m) \/ ReadsLeases(m) PROVE BlockInv'
  <2>1. /\ UNCHANGED <<mstate, blocks, wait>>
        /\ \A n \in Managers : loop'[n] = loop[n] \/ loop'[n] # "start"
    BY <1>6, <1>t DEF Start, ReadsLeases, ReadLeases
  <2>2. \A x \in DOMAIN wait' : Serving(x)' => loop'[wait'[x].mgr] # "start"
    BY <1>t, <2>1, ServingStep DEF BlockInv
  <2> QED
    BY <2>1, <2>2 DEF BlockInv
<1>7. ASSUME NEW m \in Managers, CheckBlocks(m) PROVE BlockInv'
  <2>1. /\ UNCHANGED mstate /\ DOMAIN wait' = DOMAIN wait
        /\ \A n \in Managers : loop'[n] = loop[n] \/ loop'[n] # "start"
        /\ \A n \in Managers : blocks'[n] = IF n = m THEN blocks[n] \ Unblocked(m) ELSE blocks[n]
    BY <1>7, <1>t DEF CheckBlocks
  <2>5. ASSUME NEW x \in DOMAIN wait, x \in Unblocked(m) PROVE wait'[x].pc # "blocked"
    <3>1. wait[x] \in WaitRecord
      BY DEF TypeInv, LmTypeOK, WaitRecord
    <3> QED
      BY <1>7, <2>5, <3>1 DEF CheckBlocks, WaitRecord
  <2>2. \A n \in Managers : \A x \in blocks'[n] : wait'[x].mgr = n
    BY <1>t, <1>w, <2>1 DEF BlockInv
  <2>3. ASSUME NEW x \in DOMAIN wait', wait'[x].pc = "blocked", mstate'[wait'[x].mgr] # "down"
        PROVE  x \in blocks'[wait'[x].mgr]
    <3>1. wait'[x] = wait[x] /\ x \notin Unblocked(m)
      BY <1>w, <2>1, <2>3, <2>5
    <3>2. x \in blocks[wait[x].mgr] /\ wait[x].mgr \in Managers
      BY <1>t, <2>1, <2>3, <3>1 DEF BlockInv
    <3> QED
      BY <2>1, <3>1, <3>2
  <2>4. \A x \in DOMAIN wait' : Serving(x)' => loop'[wait'[x].mgr] # "start"
    BY <1>t, <1>w, <2>1, ServingStep DEF BlockInv
  <2> QED
    BY <2>2, <2>3, <2>4 DEF BlockInv
<1>8. ASSUME NEW m \in Managers, Down(m) PROVE BlockInv'
  <2>1. /\ UNCHANGED wait /\ mstate'[m] = "down" /\ blocks'[m] = {}
        /\ \A n \in Managers \ {m} : /\ mstate'[n] = mstate[n] /\ loop'[n] = loop[n]
                                     /\ blocks'[n] = blocks[n]
    BY <1>8, <1>t DEF Down
  <2>2. \A x \in DOMAIN wait' : Serving(x)' => loop'[wait'[x].mgr] # "start"
    BY <1>t, <2>1, ServingStep DEF BlockInv, Serving, Up
  <2> QED
    BY <1>t, <2>1, <2>2 DEF BlockInv
<1>9. ASSUME NEW m \in Managers, NEW k \in LeaseKeys, NEW x \in Waiters, Block(x, m, k)
      PROVE  BlockInv'
  <2>1. /\ DOMAIN wait' = DOMAIN wait \union {x} /\ x \notin DOMAIN wait
        /\ \A y \in DOMAIN wait : wait'[y] = wait[y]
        /\ wait'[x].mgr = m
        /\ \A n \in Managers : blocks'[n] = IF n = m THEN blocks[n] \union {x} ELSE blocks[n]
        /\ UNCHANGED <<mstate, loop>> /\ loop[m] = "choose"
    BY <1>9, <1>t DEF Block, Choosing
  <2>2. ASSUME NEW n \in Managers, NEW y \in blocks'[n] PROVE wait'[y].mgr = n
    <3>1. CASE y = x /\ n = m
      BY <2>1, <3>1
    <3>2. CASE y \in blocks[n]
      <4>1. y \in DOMAIN wait
        BY <1>t, <3>2
      <4> QED
        BY <2>1, <3>2, <4>1 DEF BlockInv
    <3> QED
      BY <2>1, <2>2, <3>1, <3>2
  <2>3. ASSUME NEW y \in DOMAIN wait', wait'[y].pc = "blocked", mstate'[wait'[y].mgr] # "down"
        PROVE  y \in blocks'[wait'[y].mgr]
    <3>1. CASE y = x
      BY <2>1, <3>1
    <3>2. CASE y \in DOMAIN wait
      <4>1. y \in blocks[wait[y].mgr] /\ wait[y].mgr \in Managers
        BY <1>t, <2>1, <2>3, <3>2 DEF BlockInv
      <4> QED
        BY <2>1, <3>2, <4>1
    <3> QED
      BY <2>1, <3>1, <3>2
  <2>4. \A y \in DOMAIN wait' : Serving(y)' => loop'[wait'[y].mgr] # "start"
    BY <1>t, <2>1, ServingStep DEF BlockInv
  <2> QED
    BY <2>2, <2>3, <2>4 DEF BlockInv
<1> QED
  BY <1>2, <1>3, <1>4, <1>5, <1>6, <1>7, <1>8, <1>9, StepShapes

(* The manager of a waiter it goes on serving: it stays at its place, reads  *)
(* the leases, checks its blocks, or sets its timer for a missing lease.     *)
LEMMA ServingCases ==
    ASSUME TypeInv, BlockInv, LmStep, NEW x \in DOMAIN wait, Serving(x)',
           NEW m, m = wait[x].mgr
    PROVE  \/ /\ loop'[m] = loop[m] /\ snap'[m] = snap[m]
              /\ nextTimeout'[m] = nextTimeout[m]
              /\ checks' = checks \/ checks' = checks + 1
              /\ Now' = Now \/ (LmTick /\ checks' = checks)
           \/ ReadsLeases(m)
           \/ CheckBlocks(m) /\ x \notin Unblocked(m)
           \/ \E k \in LeaseKeys : CheckToken(m, k)
<1>s. Serving(x) /\ wait'[x] = wait[x]
  BY ServingStep
<1>t. /\ m \in Managers /\ mstate'[m] = "up" /\ mstate[m] = "up" /\ loop[m] # "start"
  BY <1>s DEF TypeInv, LmTypeOK, BlockInv, Serving, Up
<1>v. /\ loop \in [Managers -> {"start", "choose", "check"}]
      /\ nextTimeout \in [Managers -> Nat \union {NoTime}]
      /\ mstate \in [Managers -> {"up", "dying", "down"}]
      /\ DOMAIN snap = Managers /\ SnapInv /\ StoreTypeOK /\ Now \in Nat
  BY TimeStep DEF TypeInv, LmTypeOK, SnapInv
<1>n. LmTick \/ Now' = Now
  BY TimeStep
<1> DEFINE Same == /\ loop'[m] = loop[m] /\ snap'[m] = snap[m]
                   /\ nextTimeout'[m] = nextTimeout[m]
                   /\ checks' = checks \/ checks' = checks + 1
                   /\ Now' = Now \/ (LmTick /\ checks' = checks)
<1>1. ASSUME Quiet PROVE Same
  BY <1>1, <1>n DEF Quiet, Now, clockVars
<1>2. ASSUME LmTick PROVE Same
  BY <1>2 DEF LmTick, managerVars
<1>3. ASSUME NEW n \in Managers, Restart(n) \/ Down(n) PROVE Same
  <2>1. n # m
    BY <1>3, <1>t, <1>v DEF Restart, Down
  <2>2. Now' = Now
    BY <1>3 DEF Restart, Down, leaseVars, clockVars, Now
  <2> QED
    BY <1>3, <1>v, <1>t, <2>1, <2>2 DEF Restart, Down
<1>4. ASSUME NEW n \in Managers, Start(n) PROVE Same
  <2>1. n # m
    BY <1>4, <1>t DEF Start
  <2>2. Now' = Now /\ NextTick(lease) \in Nat
    BY <1>4, <1>v, NextTickBounds DEF Start, leaseVars, clockVars, Now, StoreTypeOK
  <2>3. nextTimeout'[m] = nextTimeout[m]
    BY <1>4, <1>t, <2>1, <2>2, SetNextTimeoutFacts DEF Start
  <2> QED
    BY <1>4, <1>v, <1>t, <2>1, <2>2, <2>3 DEF Start
<1>5. ASSUME NEW n \in Managers, ReadsLeases(n), n # m PROVE Same
  BY <1>5, <1>v, <1>t DEF ReadsLeases, ReadLeases, leaseVars, clockVars, Now
<1>6. ASSUME NEW n \in Managers, CheckBlocks(n), n # m PROVE Same
  <2>1. Now' = Now /\ NextTick(snap[n]) \in Nat
    BY <1>6, <1>v, NextTickBounds DEF CheckBlocks, leaseVars, clockVars, Now, SnapInv
  <2>2. nextTimeout'[m] = nextTimeout[m]
    BY <1>6, <1>t, <2>1, SetNextTimeoutFacts DEF CheckBlocks
  <2> QED
    BY <1>6, <1>v, <1>t, <2>1, <2>2 DEF CheckBlocks
<1>7. ASSUME CheckBlocks(m) PROVE x \notin Unblocked(m)
  <2>1. wait'[x] = IF x \in Unblocked(m) /\ wait[x].pc = "blocked"
                   THEN [wait[x] EXCEPT !.pc = "released"] ELSE wait[x]
    BY <1>7 DEF CheckBlocks
  <2>2. wait[x] \in WaitRecord /\ wait'[x].pc = "blocked" /\ wait[x].pc = "blocked"
    BY <1>s DEF TypeInv, LmTypeOK, WaitRecord, Serving
  <2> QED
    BY <2>1, <2>2 DEF WaitRecord
<1>8. ASSUME NEW n \in Managers, NEW k \in LeaseKeys, CheckToken(n, k), n # m PROVE Same
  <2>1. Now' = Now /\ Now + SecondTicks \in Nat
    BY <1>8, <1>v DEF CheckToken, leaseVars, clockVars, Now
  <2>2. nextTimeout'[m] = nextTimeout[m]
    BY <1>8, <1>t, <2>1, SetNextTimeoutFacts DEF CheckToken
  <2> QED
    BY <1>8, <2>1, <2>2 DEF CheckToken
<1>9. ASSUME NEW n, NEW k, NEW y, Block(y, n, k) PROVE Same
  BY <1>9 DEF Block, leaseVars, clockVars, Now
<1>10. ASSUME NEW y, WaitEnds(y) PROVE Same
  BY <1>10 DEF WaitEnds, managerVars, leaseVars, clockVars, Now
<1> HIDE DEF Same
<1>11. \/ Same \/ ReadsLeases(m) \/ (CheckBlocks(m) /\ x \notin Unblocked(m))
       \/ \E k \in LeaseKeys : CheckToken(m, k)
  BY <1>1, <1>2, <1>3, <1>4, <1>5, <1>6, <1>7, <1>8, <1>9, <1>10, StepShapes
<1> QED
  BY <1>11 DEF Same

\* Whoever is released or about to be has seen its lease free.
LEMMA GoneInvStep ==
    ASSUME TypeInv, BlockInv, LmStep, ObserveAbsence,
           \A x \in DOMAIN wait : GoneInv(x),
           NEW y \in DOMAIN wait'
    PROVE  GoneInv(y)'
<1>t. /\ absent \in [Waiters -> [since : Nat \union {NoTime}, ever : BOOLEAN]]
      /\ DOMAIN wait \subseteq Waiters
      /\ loop \in [Managers -> {"start", "choose", "check"}]
      /\ DOMAIN snap = Managers
      /\ \A x \in DOMAIN wait : wait[x].mgr \in Managers
  BY DEF TypeInv, LmTypeOK, SnapInv
<1>w. y \in Waiters
  BY ManagerTypeStep DEF ManagerTypeOK
<1>e. absent[y].ever => absent'[y].ever
  BY <1>t, <1>w, AbsenceStep
<1>1. CASE y \notin DOMAIN wait
  <2>1. PICK m \in Managers, k \in LeaseKeys : Block(y, m, k)
    BY <1>1, WaitStep
  <2>2. wait'[y] = [mgr |-> m, key |-> k, pc |-> "blocked"] /\ loop'[m] = "choose"
    BY <2>1 DEF Block, Choosing
  <2> QED
    BY <2>2 DEF GoneInv
<1>2. CASE y \in DOMAIN wait
  <2>1. ASSUME wait'[y].pc = "released" PROVE absent'[y].ever
    <3>1. CASE wait[y].pc = "released"
      BY <1>2, <1>e, <3>1 DEF GoneInv
    <3>2. ASSUME NEW m \in Managers, CheckBlocks(m), y \in Unblocked(m), wait[y].pc = "blocked"
          PROVE  absent'[y].ever
      <4>1. wait[y].mgr = m /\ Up(m) /\ loop[m] = "check" /\ wait[y].key \notin DOMAIN snap[m]
        BY <3>2 DEF BlockInv, Unblocked, CheckBlocks
      <4> QED
        BY <1>2, <1>e, <3>2, <4>1 DEF GoneInv, Serving
    <3> QED
      BY <1>2, <2>1, <3>1, <3>2, WaitStep
  <2>2. ASSUME Serving(y)', loop'[wait'[y].mgr] = "check",
               wait'[y].key \notin DOMAIN snap'[wait'[y].mgr]
        PROVE  absent'[y].ever
    <3> DEFINE m == wait[y].mgr
    <3>1. Serving(y) /\ wait'[y] = wait[y] /\ m \in Managers
      BY <1>2, <1>t, <2>2, ServingStep
    <3>2. CASE loop'[m] = loop[m] /\ snap'[m] = snap[m]
      BY <1>2, <1>e, <2>2, <3>1, <3>2 DEF GoneInv
    <3>3. CASE ReadsLeases(m)
      <4>1. snap'[m] = lease /\ lease' = lease
        BY <1>t, <3>1, <3>3 DEF ReadsLeases, ReadLeases, leaseVars, storeVars
      <4>2. wait'[y].pc = "blocked" /\ wait'[y].key \notin DOMAIN lease'
        BY <2>2, <3>1, <4>1 DEF Serving
      <4> QED
        BY <1>t, <1>w, <4>2, AbsenceStep
    <3>4. CASE CheckBlocks(m)
      <4>1. loop'[m] = "choose"
        BY <1>t, <3>1, <3>4 DEF CheckBlocks
      <4> QED
        BY <2>2, <3>1, <4>1
    <3>5. ASSUME NEW k \in LeaseKeys, CheckToken(m, k)
          PROVE  loop'[m] = loop[m] /\ snap'[m] = snap[m]
      BY <3>5 DEF CheckToken
    <3> QED
      BY <1>2, <2>2, <3>2, <3>3, <3>4, <3>5, ServingCases
  <2> QED
    BY <2>1, <2>2 DEF GoneInv
<1> QED
  BY <1>1, <1>2

\* A timeout within MaxSleep and a second of n is within the slack.
LEMMA SlackArithmetic ==
    ASSUME NEW n \in Nat, NEW d \in Nat, d >= SecondTicks + 1, NEW t \in Int
    PROVE  /\ n <= n /\ n <= n + MaxSleep + d
           /\ t <= n + MaxSleep + SecondTicks => t < n + MaxSleep + d
OBVIOUS

\* What is in time with a slack of d is in time with a slack of e.
LEMMA MoreSlack ==
    ASSUME NEW n \in Nat, NEW d \in Nat, NEW e \in Nat, d <= e, NEW t \in Int
    PROVE  /\ t <= n + MaxSleep + d => t <= n + MaxSleep + e
           /\ t < n + MaxSleep + d => t < n + MaxSleep + e
OBVIOUS

\* A second from a moment in time is in time with a second and a tick more.
LEMMA SecondLater ==
    ASSUME NEW n \in Nat, NEW d \in Nat, NEW t \in Nat, t <= n + MaxSleep + d
    PROVE  t + SecondTicks < n + MaxSleep + (d + SecondTicks + 1)
OBVIOUS

\* A lease that has just gone puts no manager late.
LEMMA DelayFresh ==
    ASSUME TypeInv, LmStep, NEW y \in DOMAIN wait',
           \A m \in Managers : LoopInv(m)',
           wait'[y].mgr \in Managers, nextTimeout'[wait'[y].mgr] \in Int,
           Slack' \in Nat, Slack' >= SecondTicks + 1,
           absent'[y].since = Now'
    PROVE  DelayInv(y)'
<1>1. Now' \in Nat
  BY TimeStep
<1>2. mstate'[wait'[y].mgr] = "up" => nextTimeout'[wait'[y].mgr] <= Now' + MaxSleep + SecondTicks
  BY DEF LoopInv, Up
<1>3. Serving(y)' => mstate'[wait'[y].mgr] = "up"
  BY DEF Serving, Up
<1>4. /\ Now' <= Now' /\ Now' <= Now' + MaxSleep + Slack'
      /\ nextTimeout'[wait'[y].mgr] <= Now' + MaxSleep + SecondTicks
           => nextTimeout'[wait'[y].mgr] < Now' + MaxSleep + Slack'
  BY <1>1, SlackArithmetic
<1> QED
  BY <1>2, <1>3, <1>4 DEF DelayInv

\* A waiter whose lease is gone is not made to wait longer than it may.
LEMMA DelayInvStep ==
    ASSUME TypeInv, TypeInv', BlockInv, LmStep, ObserveAbsence,
           \A m \in Managers : LoopInv(m) /\ LoopInv(m)',
           \A x \in Waiters \ DOMAIN wait : absent[x].since = NoTime,
           \A x \in DOMAIN wait : DelayInv(x),
           NEW y \in DOMAIN wait'
    PROVE  DelayInv(y)'
<1>t. /\ absent \in [Waiters -> [since : Nat \union {NoTime}, ever : BOOLEAN]]
      /\ nextTimeout \in [Managers -> Nat \union {NoTime}]
      /\ loop \in [Managers -> {"start", "choose", "check"}]
      /\ DOMAIN snap = Managers
      /\ \A x \in DOMAIN wait : wait[x].mgr \in Managers
      /\ y \in Waiters /\ wait'[y].mgr \in Managers
      /\ nextTimeout'[wait'[y].mgr] \in Int
  BY DEF TypeInv, LmTypeOK, SnapInv
<1>n. Now \in Nat /\ Now' \in Nat
  BY TimeStep
<1>k. checks' = checks \/ checks' = checks + 1
  BY StepShapes
  DEF Quiet, LmTick, Restart, Start, ReadsLeases, CheckBlocks, Down, CheckToken, Block,
      WaitEnds, managerVars
<1>l. /\ Slack \in Nat /\ Slack' \in Nat /\ Slack' >= SecondTicks + 1 /\ Slack <= Slack'
      /\ checks' = checks + 1 => Slack' = Slack + SecondTicks + 1
      /\ checks' = checks => Slack' = Slack
  BY <1>k, SlackFacts
<1> SUFFICES ASSUME Serving(y)', absent'[y].since # NoTime
             PROVE  DelayInv(y)'
  BY DEF DelayInv
<1>a. absent'[y].since = IF absent[y].since = NoTime THEN Now' ELSE absent[y].since
  BY <1>t, AbsenceStep DEF Serving
<1>g. wait'[y].key \notin DOMAIN lease'
  BY <1>t, AbsenceStep DEF Serving
<1>f. ASSUME absent'[y].since = Now' PROVE DelayInv(y)'
  BY <1>f, <1>t, <1>l, DelayFresh
<1>1. CASE absent[y].since = NoTime
  BY <1>1, <1>a, <1>f
<1>2. CASE absent[y].since # NoTime
  <2> DEFINE s == absent[y].since
             m == wait[y].mgr
  <2>1. y \in DOMAIN wait /\ absent'[y].since = s /\ s \in Nat
    BY <1>2, <1>a, <1>t
  <2>2. Serving(y) /\ wait'[y] = wait[y] /\ m \in Managers
    BY <1>t, <2>1, ServingStep
  <2>3. /\ s <= Now /\ Now <= s + MaxSleep + Slack
        /\ loop[m] = "choose" => nextTimeout[m] < s + MaxSleep + Slack
        /\ loop[m] = "check" /\ wait[y].key \in DOMAIN snap[m] => s = Now
        /\ nextTimeout[m] \in Int
    BY <1>2, <1>t, <2>1, <2>2 DEF DelayInv
  <2>4. SUFFICES /\ s <= Now' /\ Now' <= s + MaxSleep + Slack'
                 /\ loop'[m] = "choose" => nextTimeout'[m] < s + MaxSleep + Slack'
                 /\ loop'[m] = "check" /\ wait[y].key \in DOMAIN snap'[m] => s = Now'
    BY <2>1, <2>2 DEF DelayInv
  <2> HIDE DEF s, m
  <2>5. CASE /\ loop'[m] = loop[m] /\ snap'[m] = snap[m]
             /\ nextTimeout'[m] = nextTimeout[m]
             /\ Now' = Now
    <3>1. Now' <= s + MaxSleep + Slack'
      BY <2>1, <2>3, <2>5, <1>n, <1>l, MoreSlack
    <3>2. nextTimeout[m] < s + MaxSleep + Slack => nextTimeout[m] < s + MaxSleep + Slack'
      BY <2>1, <2>3, <1>l, MoreSlack
    <3> QED
      BY <2>3, <2>5, <3>1, <3>2
  <2>6. CASE /\ loop'[m] = loop[m] /\ nextTimeout'[m] = nextTimeout[m]
             /\ LmTick /\ checks' = checks
    <3>1. loop[m] = "choose" /\ Now <= nextTimeout[m]
      BY <2>2, <2>6 DEF LmTick, Serving, m
    <3>2. Now' = Now + 1 \/ Now' = Now
      BY TimeStep
    <3>3. Slack' = Slack
      BY <2>6, <1>l
    <3>4. nextTimeout[m] < s + MaxSleep + Slack
      BY <2>3, <3>1
    <3>5. s <= Now' /\ Now' <= s + MaxSleep + Slack
      BY <2>1, <2>3, <3>1, <3>2, <3>4, <1>n, <1>l
    <3> QED
      BY <2>6, <3>1, <3>3, <3>4, <3>5
  <2>7. CASE ReadsLeases(m)
    <3>1. /\ snap'[m] = lease /\ lease' = lease /\ loop'[m] = "check" /\ Now' = Now
      BY <1>t, <2>2, <2>7
      DEF ReadsLeases, ReadLeases, leaseVars, storeVars, clockVars, Now
    <3>2. wait[y].key \notin DOMAIN snap'[m]
      BY <1>g, <2>2, <3>1
    <3>3. s <= Now' /\ Now' <= s + MaxSleep + Slack'
      <4>1. Now' = Now
        BY <3>1
      <4> QED
        BY <2>1, <2>3, <4>1, <1>n, <1>l
    <3>4. loop'[m] # "choose"
      BY <3>1
    <3> QED
      BY <3>2, <3>3, <3>4
  <2>8. CASE CheckBlocks(m) /\ y \notin Unblocked(m)
    <3>1. y \in blocks[m] /\ loop[m] = "check"
      BY <2>1, <2>2, <2>8 DEF BlockInv, Serving, Up, CheckBlocks, m
    <3>2. wait[y].key \in DOMAIN snap[m]
      BY <2>8, <3>1 DEF Unblocked
    <3>3. s = Now /\ Now' = Now /\ loop'[m] = "choose"
      BY <1>t, <2>2, <2>3, <2>8, <3>1, <3>2 DEF CheckBlocks, leaseVars, clockVars, Now
    <3>4. nextTimeout'[m] <= Now + MaxSleep + SecondTicks
      BY <2>2, <3>3 DEF LoopInv, Serving, m
    <3>5. nextTimeout'[m] \in Int
      BY <1>t, <2>2 DEF m
    <3>6. /\ Now <= Now /\ Now <= Now + MaxSleep + Slack'
          /\ nextTimeout'[m] < Now + MaxSleep + Slack'
      BY <3>4, <3>5, <1>n, <1>l, SlackArithmetic
    <3> QED
      BY <3>3, <3>6
  <2>9. ASSUME NEW k \in LeaseKeys, CheckToken(m, k)
        PROVE  /\ s <= Now' /\ Now' <= s + MaxSleep + Slack'
               /\ loop'[m] = "choose" => nextTimeout'[m] < s + MaxSleep + Slack'
               /\ loop'[m] = "check" /\ wait[y].key \in DOMAIN snap'[m] => s = Now'
    <3>1. /\ Now' = Now /\ UNCHANGED <<loop, snap>> /\ loop[m] = "choose"
          /\ checks' = checks + 1 /\ Now + SecondTicks \in Nat
          /\ SetNextTimeout(m, Now + SecondTicks)
      BY <1>n, <2>9 DEF CheckToken, Choosing, leaseVars, clockVars, Now
    <3>2. nextTimeout'[m] = nextTimeout[m] \/ nextTimeout'[m] = Now + SecondTicks
      BY <2>2, <3>1, SetNextTimeoutFacts
    <3>3. Now' <= s + MaxSleep + Slack'
      BY <2>1, <2>3, <3>1, <1>n, <1>l, MoreSlack
    <3>4. nextTimeout[m] < s + MaxSleep + Slack'
      BY <2>1, <2>3, <3>1, <1>l, MoreSlack
    <3>5. Now + SecondTicks < s + MaxSleep + Slack'
      <4>1. Slack' = Slack + SecondTicks + 1
        BY <3>1, <1>l
      <4>2. Now + SecondTicks < s + MaxSleep + (Slack + SecondTicks + 1)
        BY <2>1, <2>3, <1>n, <1>l, SecondLater
      <4> QED
        BY <4>1, <4>2
    <3>6. s <= Now' /\ loop'[m] = "choose"
      BY <2>3, <3>1
    <3> QED
      BY <3>2, <3>3, <3>4, <3>5, <3>6
  <2>10. \/ /\ loop'[m] = loop[m] /\ snap'[m] = snap[m]
            /\ nextTimeout'[m] = nextTimeout[m]
            /\ checks' = checks \/ checks' = checks + 1
            /\ Now' = Now \/ (LmTick /\ checks' = checks)
         \/ ReadsLeases(m)
         \/ CheckBlocks(m) /\ y \notin Unblocked(m)
         \/ \E k \in LeaseKeys : CheckToken(m, k)
    BY <2>1, ServingCases DEF m
  <2> QED
    BY <2>5, <2>6, <2>7, <2>8, <2>9, <2>10
<1> QED
  BY <1>1, <1>2

-----------------------------------------------------------------------------
(* The claims.                                                             *)

\* No claim of r's lease by r's holder asks for less than r.
Least(r) == \A q \in DOMAIN req : SameClaim(q, r) => req[q].dur >= req[r].dur

(* What the store has promised r's holder covers r, or was taken back,     *)
(* given that r's namespace has a type.                                    *)
Covered(r) ==
    /\ req[r].key \in TypedKeys
    /\ req[r].op = "claim" /\ req[r].resp = "success" /\ Least(r)
    =>  \/ until[req[r].key][req[r].holder] = Withdrawn
        \/ until[req[r].key][req[r].holder] >= req[r].began + req[r].dur

\* The types of a request's arguments.
LEMMA ArgumentTypes ==
    ASSUME TypeInv, NEW q \in DOMAIN req
    PROVE  /\ req[q].key \in LeaseKeys /\ req[q].holder \in Holders
           /\ req[q].began \in Nat /\ req[q].dur \in Nat
<1>1. req[q] \in RequestRecord
  BY DEF TypeInv, LmTypeOK, RequestRecord
<1>2. req[q].dur \in Durations \union {0}
  BY <1>1 DEF RequestRecord
<1>3. req[q].dur \in Nat
  BY <1>2, DurationsAssumption
<1> QED
  BY <1>1, <1>3 DEF RequestRecord

(* A promise changes when it is taken back, or when a claim's goroutine has *)
(* its row written: then it runs from now, for what that claim asked.       *)
LEMMA UntilStep ==
    ASSUME TypeInv, LmStep, NEW k \in LeaseKeys, NEW h \in Holders
    PROVE  \/ until'[k][h] = until[k][h]
           \/ until'[k][h] = Withdrawn
           \/ \E q \in DOMAIN req :
                 /\ req[q].op = "claim" /\ req[q].key = k /\ req[q].holder = h
                 /\ until'[k][h] = Now + req[q].dur
<1>t. until \in [LeaseKeys -> [Holders -> Nat \union {Withdrawn}]]
  BY DEF TypeInv, LmTypeOK, StoreTypeOK
<1>1. CASE UNCHANGED storeVars
  BY <1>1 DEF storeVars
<1>2. CASE StoreStep
  BY <1>2, <1>t
  DEF StoreStep, ExpireLeases, DeleteLeadershipForModel, Withdraw, PinLease, UnpinLease
<1>3. ASSUME NEW q \in DOMAIN req, Puts(q)
      PROVE  \/ until'[k][h] = until[k][h]
             \/ /\ req[q].op = "claim" /\ req[q].key = k /\ req[q].holder = h
                /\ until'[k][h] = Now + req[q].dur
  <2>1. req[q].key \in LeaseKeys /\ req[q].holder \in Holders /\ req[q].op = "claim"
    BY <1>3 DEF TypeInv, LmTypeOK, Puts
  <2>2. \/ until' = [until EXCEPT ![req[q].key][req[q].holder] = Now + req[q].dur]
        \/ UNCHANGED until
    BY <1>3 DEF Puts, Put
  <2> QED
    BY <1>t, <2>1, <2>2
<1>4. ASSUME NEW q \in DOMAIN req, RequestStep(q)
      PROVE  Puts(q) \/ Withdraw({req[q].key}) \/ UNCHANGED until
  <2>1. CASE StoreCall(q)
    BY <2>1, StoreCallStep
  <2>2. CASE ~StoreCall(q)
    BY <1>4, <2>2
    DEF RequestStep, Accept, Lookup, LookupDying, Act, ActHeld, ActInvalid,
        ActRetryable, ActFatal, RequestStopped, NotifyDying, ExpireDone, leaseVars, storeVars
  <2> QED
    BY <2>1, <2>2
<1>5. ASSUME NEW q \in DOMAIN req, Withdraw({req[q].key})
      PROVE  until'[k][h] = until[k][h] \/ until'[k][h] = Withdrawn
  BY <1>5 DEF Withdraw
<1>6. ASSUME NEW r \in Requests, Submitted(r) PROVE UNCHANGED storeVars
  BY <1>6 DEF Submitted, leaseVars
<1> QED
  BY <1>1, <1>2, <1>3, <1>4, <1>5, <1>6, RequestCases

\* Requests are never dropped and keep their arguments.
LEMMA RequestArguments ==
    ASSUME TypeInv, LmStep
    PROVE  /\ DOMAIN req \subseteq DOMAIN req'
           /\ \A q \in DOMAIN req :
                 /\ req'[q].op = req[q].op /\ req'[q].key = req[q].key
                 /\ req'[q].holder = req[q].holder /\ req'[q].dur = req[q].dur
                 /\ req'[q].began = req[q].began
<1>1. ASSUME NEW r \in DOMAIN req, RequestStep(r) PROVE RequestMoves(r)
  BY <1>1, RequestStepShape
<1> QED
  BY <1>1, RequestCases DEF RequestMoves, Submitted

\* What is promised goes on covering what was granted.
LEMMA CoveredStep ==
    ASSUME TypeInv, LmStep, \A r \in DOMAIN req : Covered(r), NEW p \in DOMAIN req'
    PROVE  Covered(p)'
<1> SUFFICES ASSUME req'[p].key \in TypedKeys, req'[p].op = "claim",
                    req'[p].resp = "success", Least(p)'
             PROVE  \/ until'[req'[p].key][req'[p].holder] = Withdrawn
                    \/ until'[req'[p].key][req'[p].holder] >= req'[p].began + req'[p].dur
  BY DEF Covered
<1>1. p \in DOMAIN req
  BY RequestCases, RequestStepShape DEF Submitted, RequestMoves
<1> DEFINE k == req[p].key
           h == req[p].holder
           b == req[p].began
           d == req[p].dur
<1>2. /\ req'[p].key = k /\ req'[p].holder = h /\ req'[p].began = b /\ req'[p].dur = d
      /\ req[p].op = "claim" /\ k \in TypedKeys
  BY <1>1, RequestArguments
<1>3. /\ k \in LeaseKeys /\ h \in Holders /\ b \in Nat /\ d \in Nat /\ b <= Now
      /\ Now \in Nat
  <2>1. req[p] \in RequestRecord /\ RequestInv(p)
    BY <1>1 DEF TypeInv, LmTypeOK, RequestRecord
  <2> QED
    BY <1>2, <2>1, TimeStep, DurationsAssumption DEF RequestRecord, RequestInv
<1>4. Least(p)
  <2> SUFFICES ASSUME NEW q \in DOMAIN req, SameClaim(q, p) PROVE req[q].dur >= req[p].dur
    BY DEF Least
  <2>1. q \in DOMAIN req' /\ SameClaim(q, p)'
    BY <1>1, RequestArguments DEF SameClaim
  <2>2. req'[q].dur >= req'[p].dur
    BY <2>1 DEF Least
  <2> QED
    BY <2>2, <1>1, RequestArguments
<1>5. ASSUME NEW q \in DOMAIN req, req[q].op = "claim", req[q].key = k, req[q].holder = h,
             until'[k][h] = Now + req[q].dur
      PROVE  until'[k][h] >= b + d
  <2>1. req[q].dur >= d
    BY <1>1, <1>2, <1>4, <1>5 DEF Least, SameClaim
  <2>2. req[q].dur \in Nat
    BY ArgumentTypes
  <2> QED
    BY <1>3, <1>5, <2>1, <2>2
<1>6. CASE req[p].resp = "success"
  <2>1. until[k][h] = Withdrawn \/ until[k][h] >= b + d
    BY <1>1, <1>2, <1>4, <1>6 DEF Covered
  <2>2. \/ until'[k][h] = until[k][h]
        \/ until'[k][h] = Withdrawn
        \/ \E q \in DOMAIN req :
              /\ req[q].op = "claim" /\ req[q].key = k /\ req[q].holder = h
              /\ until'[k][h] = Now + req[q].dur
    BY <1>3, UntilStep
  <2> QED
    BY <1>2, <1>5, <2>1, <2>2
<1>7. CASE req[p].resp # "success"
  <2>1. RequestStep(p)
    BY <1>1, <1>7, RequestCases, RequestStepShape DEF Submitted, RequestMoves
  <2>2. Puts(p)
    BY <1>1, <1>2, <1>7, <2>1, RequestStepShape
  <2>3. until'[k][h] = Now + d
    BY <1>2, <1>3, <2>2 DEF Puts, Put, TypeInv, LmTypeOK, StoreTypeOK
  <2> QED
    BY <1>2, <1>3, <2>3
<1> QED
  BY <1>6, <1>7

-----------------------------------------------------------------------------
(* The invariant, and what it gives.                                       *)

LmInv ==
    /\ TypeInv
    /\ \A m \in Managers : LoopInv(m)
    /\ WaitInv
    /\ \A r \in DOMAIN req : Covered(r)

\* Nothing runs, waits or is claimed at first.
LEMMA InitLmInv == LmInit => LmInv
<1> SUFFICES ASSUME LmInit PROVE LmInv
  OBVIOUS
<1>1. TypeInv
  BY InitTypeInv
<1>2. \A m \in Managers : LoopInv(m)
  BY DEF LmInit, LoopInv, Up, Choosing
<1>3. WaitInv /\ \A r \in DOMAIN req : Covered(r)
  BY DEF LmInit, WaitInv, BlockInv
<1> QED
  BY <1>1, <1>2, <1>3 DEF LmInv

\* Every step keeps the whole of it.
LEMMA LmInvStep == LmInv /\ [LmNext]_lmVars => LmInv'
<1> SUFFICES ASSUME LmInv, [LmNext]_lmVars PROVE LmInv'
  OBVIOUS
<1>t. TypeInv /\ TypeInv'
  BY TypeInvStep DEF LmInv
<1>1. CASE LmNext
  <2>1. LmStep /\ ObserveAbsence
    BY <1>1 DEF LmNext
  <2>2. \A m \in Managers : LoopInv(m) /\ LoopInv(m)'
    BY <1>t, <2>1, LoopInvStep DEF LmInv
  <2>3. BlockInv /\ BlockInv'
    BY <1>t, <2>1, BlockInvStep DEF LmInv, WaitInv
  <2>4. \A x \in DOMAIN wait' : GoneInv(x)'
    BY <1>t, <2>1, <2>3, GoneInvStep DEF LmInv, WaitInv
  <2>5. \A x \in DOMAIN wait' : DelayInv(x)'
    BY <1>t, <2>1, <2>2, <2>3, DelayInvStep DEF LmInv, WaitInv
  <2>6. ASSUME NEW x \in Waiters, x \notin DOMAIN wait' PROVE absent'[x].since = NoTime
    <3>1. x \notin DOMAIN wait
      BY <1>t, <2>1, <2>6, WaitStep
    <3>2. absent'[x] = absent[x]
      BY <1>t, <2>1, <2>6, AbsenceStep DEF TypeInv, LmTypeOK
    <3> QED
      BY <3>1, <3>2 DEF LmInv, WaitInv
  <2>7. \A r \in DOMAIN req' : Covered(r)'
    BY <1>t, <2>1, CoveredStep DEF LmInv
  <2> QED
    BY <1>t, <2>2, <2>3, <2>4, <2>5, <2>6, <2>7 DEF LmInv, WaitInv
<1>2. CASE UNCHANGED lmVars
  <2>1. /\ UNCHANGED <<mstate, loop, snap, nextTimeout, armed, blocks, checks, req, wait, absent>>
        /\ UNCHANGED <<lease, until>> /\ Now' = Now
    BY <1>2 DEF lmVars, managerVars, leaseVars, clockVars, storeVars, Now
  <2>2. \A m \in Managers : LoopInv(m)'
    BY <2>1 DEF LmInv, LoopInv, Up, Choosing
  <2>3. WaitInv'
    BY <2>1 DEF LmInv, WaitInv, BlockInv, GoneInv, DelayInv, Serving, Up, Slack
  <2>4. \A r \in DOMAIN req' : Covered(r)'
    BY <2>1 DEF LmInv, Covered, Least, SameClaim
  <2> QED
    BY <1>t, <2>2, <2>3, <2>4 DEF LmInv
<1> QED
  BY <1>1, <1>2

\* The invariant of the managers.
LEMMA ManagerInvariant == LmSpec => []LmInv
BY InitLmInv, LmInvStep, PTL DEF LmSpec

(* However many timer resets setNextTimeout leaves out, a manager at its    *)
(* select has its timer running, and the timer is not set later than        *)
(* MaxSleep and a second from now.                                          *)
THEOREM ManagerWakesUp == LmSpec => []TimerArmed
<1>1. LmInv => TimerArmed
  BY DEF LmInv, LoopInv, TimerArmed, Choosing
<1> QED
  BY <1>1, ManagerInvariant, PTL

(* WaitUntilExpired returns without an error only if the lease was free at  *)
(* some moment of the wait: what checkBlocks read before it let the waiter  *)
(* go cannot be from before the wait.                                       *)
THEOREM ReleaseJustified == LmSpec => []ReleasedMeansGone
<1>1. LmInv => ReleasedMeansGone
  BY DEF LmInv, WaitInv, GoneInv, ReleasedMeansGone
<1> QED
  BY <1>1, ManagerInvariant, PTL

(* A waiter is still waiting at most MaxSleep, and a second and a tick for  *)
(* each check of a missing lease and one more, after its lease has gone,    *)
(* whoever removed it.                                                      *)
THEOREM ReleasePrompt == LmSpec => []PromptRelease
<1>1. LmInv => PromptRelease
  BY DEF LmInv, WaitInv, DelayInv, Serving, Slack, PromptRelease
<1> QED
  BY <1>1, ManagerInvariant, PTL

(* A claim that was answered with success, in a namespace with a type,      *)
(* holds until its duration has passed since it was made, through other     *)
(* claims, extensions, retries, failed calls that were committed, expiry    *)
(* and restarts, unless it was revoked or its holder claimed for less.      *)
THEOREM GrantedClaimKept == LmSpec => []ClaimKept
<1>1. ASSUME LmInv PROVE ClaimKept
  <2> SUFFICES ASSUME NEW r \in DOMAIN req, req[r].key \in TypedKeys, Granted(r), Least(r)
               PROVE  HeldBy(req[r].key, req[r].holder)
    BY DEF ClaimKept, Kept, Least
  <2> DEFINE u == until[req[r].key][req[r].holder]
  <2>1. /\ req[r].key \in LeaseKeys /\ req[r].holder \in Holders
        /\ req[r].began \in Nat /\ req[r].dur \in Nat
    BY <1>1, ArgumentTypes DEF LmInv
  <2>2. u \in Int /\ Now \in Nat
    <3>1. StoreTypeOK
      BY <1>1 DEF LmInv, TypeInv, LmTypeOK
    <3>2. until \in [LeaseKeys -> [Holders -> Nat \union {Withdrawn}]]
      BY <3>1 DEF StoreTypeOK
    <3>3. u \in Nat \union {Withdrawn}
      BY <2>1, <3>2
    <3> QED
      BY <3>1, <3>3, NowType DEF Withdrawn
  <2>3. u >= req[r].began + req[r].dur
    BY <1>1 DEF LmInv, Covered, Granted
  <2>4. Now < req[r].began + req[r].dur
    BY DEF Granted
  <2>5. Backed(req[r].key, req[r].holder)
    BY <1>1, <2>1 DEF LmInv, TypeInv, PromiseInv
  <2>6. ~(u <= Now)
    BY <2>1, <2>2, <2>3, <2>4
  <2> QED
    BY <2>5, <2>6 DEF Backed
<1> QED
  BY <1>1, ManagerInvariant, PTL
=============================================================================
