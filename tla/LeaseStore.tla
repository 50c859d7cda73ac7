----------------------------- MODULE LeaseStore -----------------------------
(***************************************************************************)
(* The lease tables of the controller database and the transactions on     *)
(* them: claim, extend, revoke, pin, unpin, expire, and the deletion of a  *)
(* model's leadership leases. One action is one transaction.               *)
(*                                                                         *)
(* Time. The database computes expiries and expires leases with            *)
(* datetime('now'), which has whole seconds, while claims are made at any  *)
(* moment for any duration, rounded up to seconds. The clock here has      *)
(* SecondTicks ticks to the second; the tables only ever see "sec".        *)
(***************************************************************************)
EXTENDS Integers, FiniteSets

CONSTANTS
    LeaseKeys,      \* lease keys (namespace, model, lease) that may be claimed
    TypedKeys,      \* those whose namespace has a row in lease_type
    Leadership,     \* those that are application leaderships of a model
    Holders,        \* holders
    Entities,       \* entities that may pin a lease
    Durations,      \* requested durations, in ticks
    SecondTicks,    \* ticks to a second
    DaySeconds,     \* seconds to a day
    MaxSeconds      \* bound: where the clock stops

ASSUME SecondTicksAssumption == SecondTicks \in Nat \ {0}
ASSUME DaySecondsAssumption == DaySeconds \in Nat \ {0}
ASSUME DurationsAssumption == Durations \subseteq Nat \ {0}
ASSUME TypedKeysAssumption == TypedKeys \subseteq LeaseKeys
ASSUME LeadershipAssumption == Leadership \subseteq TypedKeys
ASSUME MaxSecondsAssumption == MaxSeconds \in Nat

VARIABLES
    sec, tick,  \* the clock
    lease,      \* table lease: key -> [holder, expiry]
    pins,       \* table lease_pin: key -> the entities that pin its lease
    until       \* history: until when the row last written grants the holder k

clockVars == <<sec, tick>>
storeVars == <<lease, pins, until>>
leaseVars == <<clockVars, storeVars>>

Now == sec * SecondTicks + tick

Withdrawn == -1     \* a promise taken back

Held(k) == k \in DOMAIN lease
HeldBy(k, h) == Held(k) /\ lease[k].holder = h

StoreInit ==
    /\ sec = 0 /\ tick = 0
    /\ lease = [k \in {} |-> 0]
    /\ pins = [k \in LeaseKeys |-> {}]
    /\ until = [k \in LeaseKeys |-> [h \in Holders |-> 0]]

Tick ==
    /\ sec < MaxSeconds
    /\ IF tick + 1 < SecondTicks
       THEN tick' = tick + 1 /\ sec' = sec
       ELSE tick' = 0 /\ sec' = sec + 1
    /\ UNCHANGED storeVars

-----------------------------------------------------------------------------
\* Mutants of LeaseDuration: rounded down; and with the sign the other way.
LeaseDurationFloor(d) == d \div SecondTicks
LeaseDurationAgo(d) == -((d + SecondTicks - 1) \div SecondTicks)

\* LeaseDuration.Value: whole seconds, rounded up.
LeaseDuration(d) == (d + SecondTicks - 1) \div SecondTicks

\* datetime('now', duration)
ExpiryAfter(d) == sec + LeaseDuration(d)

Put(k, h, d) ==
    /\ lease' = [j \in DOMAIN lease \union {k} |->
                   IF j = k THEN [holder |-> h, expiry |-> ExpiryAfter(d)]
                            ELSE lease[j]]
    /\ until' = [until EXCEPT ![k][h] = Now + d]

(* Deletes the rows ks. Whoever loses a lease by other means than expiry   *)
(* is promised nothing any more.                                           *)
Delete(ks) == lease' = [k \in DOMAIN lease \ ks |-> lease[k]]
Withdraw(ks) == until' = [k \in LeaseKeys |->
                            IF k \in ks THEN [h \in Holders |-> Withdrawn] ELSE until[k]]

(* INSERT ... SELECT FROM lease_type; a unique violation is ErrHeld,       *)
(* whoever the holder is. Without a type nothing is inserted, and nobody   *)
(* looks at the number of rows: the claim succeeds all the same. The       *)
(* object store's namespace has no type.                                   *)
ClaimLease(k, h, d) ==
    /\ ~Held(k)
    /\ IF k \in TypedKeys THEN Put(k, h, d) ELSE UNCHANGED <<lease, until>>
    /\ UNCHANGED <<clockVars, pins>>

\* UPDATE ... WHERE holder = h; no row is ErrInvalid.
ExtendLease(k, h, d) ==
    /\ HeldBy(k, h)
    /\ Put(k, h, d)
    /\ UNCHANGED <<clockVars, pins>>

\* DELETE ... WHERE holder = h; lease_pin's foreign key protects a pinned row.
RevokeLease(k, h) ==
    /\ HeldBy(k, h)
    /\ pins[k] = {}
    /\ Delete({k}) /\ Withdraw({k})
    /\ UNCHANGED <<clockVars, pins>>

\* INSERT ... SELECT from lease: without a lease it inserts nothing.
PinLease(k, e) ==
    /\ pins' = [pins EXCEPT ![k] = IF Held(k) THEN @ \union {e} ELSE @]
    /\ UNCHANGED <<clockVars, lease, until>>

UnpinLease(k, e) ==
    /\ pins' = [pins EXCEPT ![k] = @ \ {e}]
    /\ UNCHANGED <<clockVars, lease, until>>

Expired(k) == lease[k].expiry < sec

\* Mutant of ExpireLeases: without the join with lease_pin.
ExpireLeasesPinnedToo ==
    LET gone == {k \in DOMAIN lease : Expired(k)} IN
    /\ gone # {}
    /\ Delete(gone)
    /\ UNCHANGED <<clockVars, pins, until>>

\* The lease expiry worker of any controller.
ExpireLeases ==
    LET gone == {k \in DOMAIN lease : pins[k] = {} /\ Expired(k)} IN
    /\ gone # {}
    /\ Delete(gone)
    /\ UNCHANGED <<clockVars, pins, until>>

\* All of a model's leaderships, in one transaction: a pin fails it whole.
DeleteLeadershipForModel ==
    /\ \A k \in Leadership : pins[k] = {}
    /\ Delete(Leadership) /\ Withdraw(Leadership)
    /\ UNCHANGED <<clockVars, pins>>

\* Mutant of GetApplicationLeadershipForModel: compared with now.
GetApplicationLeadershipAfterNow ==
    {k \in Leadership \intersect DOMAIN lease : lease[k].expiry > sec}

(* What a model migration exports: expiries, which have a date and a time, *)
(* are compared with date('now'), the start of the day.                    *)
GetApplicationLeadershipForModel ==
    {k \in Leadership \intersect DOMAIN lease :
        lease[k].expiry >= (sec \div DaySeconds) * DaySeconds}

StoreNext ==
    \/ Tick
    \/ ExpireLeases
    \/ DeleteLeadershipForModel
    \/ \E k \in LeaseKeys, h \in Holders :
          \/ \E d \in Durations : ClaimLease(k, h, d) \/ ExtendLease(k, h, d)
          \/ RevokeLease(k, h)
    \/ \E k \in LeaseKeys, e \in Entities : PinLease(k, e) \/ UnpinLease(k, e)

StoreSpec == StoreInit /\ [][StoreNext]_leaseVars

-----------------------------------------------------------------------------
(* Properties *)

(* Types of the clock, the tables lease and lease_pin, and the history.     *)
StoreTypeOK ==
    /\ sec \in Nat /\ tick \in 0..(SecondTicks - 1)
    /\ DOMAIN lease \subseteq TypedKeys
    /\ \A k \in DOMAIN lease : lease[k] \in [holder : Holders, expiry : Nat]
    /\ pins \in [LeaseKeys -> SUBSET Entities]
    /\ until \in [LeaseKeys -> [Holders -> Nat \union {Withdrawn}]]

(* core/lease.Store: in a namespace with a type, a claim or extension that *)
(* succeeded is guaranteed for the duration asked for, to the tick,        *)
(* although the tables have whole seconds: rounding the duration up, and   *)
(* expiring strictly after the expiry, make up for rounding now down. No   *)
(* second holder can then have a guarantee that overlaps. (Without a type  *)
(* there is no lease behind the success: ClaimGuaranteed of LeaseManager.) *)
PromiseKept ==
    \A k \in TypedKeys, h \in Holders : until[k][h] > Now => HeldBy(k, h)

(* A model migration takes along every leadership that its holder still    *)
(* counts on: what the export leaves out, by its look at the expiries, is  *)
(* promised to nobody.                                                     *)
ExportCoversHolders ==
    \A k \in Leadership, h \in Holders :
        until[k][h] > Now => k \in GetApplicationLeadershipForModel

(* The holder of a pinned lease does not lose it, by expiry, revocation or *)
(* deletion, and no claim replaces it.                                     *)
PinnedKeepsHolder ==
    [][\A k \in DOMAIN lease :
          pins[k] # {} => k \in DOMAIN lease' /\ lease'[k].holder = lease[k].holder]_leaseVars
=============================================================================
