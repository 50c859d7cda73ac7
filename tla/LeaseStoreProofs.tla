-------------------------- MODULE LeaseStoreProofs --------------------------
(***************************************************************************)
(* Proofs about LeaseStore, for any keys, holders, entities, durations and *)
(* any resolution of the clock below the second.                           *)
(***************************************************************************)
EXTENDS LeaseStore, TLAPS

USE SecondTicksAssumption, DurationsAssumption, TypedKeysAssumption, LeadershipAssumption
    DEF Withdrawn

(* Rounding a duration up to seconds gives whole seconds that last at      *)
(* least as long (LeaseDuration.Value).                                    *)
LEMMA LeaseDurationLongEnough ==
    ASSUME NEW d \in Nat
    PROVE  /\ LeaseDuration(d) \in Nat
           /\ d <= LeaseDuration(d) * SecondTicks
<1> DEFINE n == d + SecondTicks - 1
           q == n \div SecondTicks
<1>1. n \in Nat /\ SecondTicks \in Nat /\ SecondTicks > 0
  OBVIOUS
<1>2. q \in Nat /\ n = SecondTicks * q + (n % SecondTicks) /\ n % SecondTicks \in 0..(SecondTicks - 1)
  BY <1>1
<1>3. d <= q * SecondTicks
  BY <1>1, <1>2
<1> QED
  BY <1>2, <1>3 DEF LeaseDuration

(* A clock that has passed a whole second e is at least at e + 1 seconds.  *)
LEMMA SecondsPassed ==
    ASSUME NEW e \in Nat, NEW s \in Nat, NEW t \in Nat, e < s
    PROVE  (e + 1) * SecondTicks <= s * SecondTicks + t
OBVIOUS

\* A day begins no later than now (date('now') of the export).
LEMMA DayBegun ==
    ASSUME NEW s \in Nat
    PROVE  (s \div DaySeconds) * DaySeconds \in Nat /\ (s \div DaySeconds) * DaySeconds <= s
<1> DEFINE q == s \div DaySeconds
<1>1. DaySeconds \in Nat /\ DaySeconds > 0
  BY DaySecondsAssumption
<1>2. q \in Nat /\ s = DaySeconds * q + (s % DaySeconds) /\ s % DaySeconds \in 0..(DaySeconds - 1)
  BY <1>1
<1> QED
  BY <1>1, <1>2

(* The promise made by a claim that starts now ends before the second      *)
(* after its expiry is over.                                               *)
LEMMA PromiseWithinExpiry ==
    ASSUME StoreTypeOK, NEW d \in Durations
    PROVE  /\ ExpiryAfter(d) \in Nat
           /\ Now + d \in Nat
           /\ Now + d < (ExpiryAfter(d) + 1) * SecondTicks
<1> DEFINE L == LeaseDuration(d)
<1>1. sec \in Nat /\ tick \in Nat /\ tick < SecondTicks /\ d \in Nat
  BY DEF StoreTypeOK
<1>2. L \in Nat /\ d <= L * SecondTicks
  BY <1>1, LeaseDurationLongEnough
<1> HIDE DEF L
<1>3. sec * SecondTicks \in Nat /\ L * SecondTicks \in Nat
  BY <1>1, <1>2
<1>4. (sec + L + 1) * SecondTicks = sec * SecondTicks + L * SecondTicks + SecondTicks
  BY <1>1, <1>2
<1>5. sec * SecondTicks + tick + d < (sec + L + 1) * SecondTicks
  BY <1>1, <1>2, <1>3, <1>4
<1> QED
  BY <1>1, <1>2, <1>3, <1>5 DEF ExpiryAfter, Now, L

-----------------------------------------------------------------------------
(* A promise that is not over is backed by a row that outlives it. With    *)
(* the types, this is inductive; PromiseKept alone is not, as it says      *)
(* nothing of expiries.                                                    *)
Backed(k, h) ==
    \/ until[k][h] <= Now
    \/ HeldBy(k, h) /\ until[k][h] < (lease[k].expiry + 1) * SecondTicks

PromiseInv == StoreTypeOK /\ \A k \in LeaseKeys, h \in Holders : Backed(k, h)

\* The clock reading is a natural number.
LEMMA NowType == StoreTypeOK => Now \in Nat
<1> SUFFICES ASSUME StoreTypeOK PROVE Now \in Nat
  OBVIOUS
<1>1. sec \in Nat /\ tick \in Nat /\ SecondTicks \in Nat
  BY DEF StoreTypeOK
<1>2. sec * SecondTicks \in Nat
  BY <1>1
<1> QED
  BY <1>1, <1>2 DEF Now

\* Nothing is promised in the empty tables.
LEMMA InitPromiseInv == StoreInit => PromiseInv
BY DEF StoreInit, PromiseInv, StoreTypeOK, Backed, Now

\* Writing a lease row (ClaimLease, ExtendLease) keeps the types.
LEMMA PutType ==
    ASSUME StoreTypeOK, NEW k \in TypedKeys, NEW h \in Holders, NEW d \in Durations,
           Put(k, h, d), UNCHANGED <<clockVars, pins>>
    PROVE  StoreTypeOK'
<1>1. ExpiryAfter(d) \in Nat /\ Now + d \in Nat
  BY PromiseWithinExpiry
<1>2. until' \in [LeaseKeys -> [Holders -> Nat \union {Withdrawn}]]
  BY <1>1 DEF StoreTypeOK, Put
<1>3. DOMAIN lease' \subseteq TypedKeys
  BY DEF StoreTypeOK, Put
<1>4. \A j \in DOMAIN lease' : lease'[j] \in [holder : Holders, expiry : Nat]
  BY <1>1 DEF StoreTypeOK, Put
<1> QED
  BY <1>2, <1>3, <1>4 DEF StoreTypeOK, clockVars

\* Writing a lease row, for a free key or its holder, keeps every promise backed.
LEMMA PutBacked ==
    ASSUME PromiseInv, NEW k \in LeaseKeys, NEW h \in Holders, NEW d \in Durations,
           ~Held(k) \/ HeldBy(k, h),
           Put(k, h, d), UNCHANGED <<clockVars, pins>>
    PROVE  \A j \in LeaseKeys, g \in Holders : Backed(j, g)'
<1> SUFFICES ASSUME NEW j \in LeaseKeys, NEW g \in Holders
             PROVE  Backed(j, g)'
  OBVIOUS
<1>0. Now' = Now
  BY DEF Now, clockVars
<1>1. Backed(j, g)
  BY DEF PromiseInv
<1>2. CASE j = k /\ g = h
  <2>1. Now + d < (ExpiryAfter(d) + 1) * SecondTicks
    BY PromiseWithinExpiry DEF PromiseInv
  <2>2. until'[k][h] = Now + d
    BY DEF Put, PromiseInv, StoreTypeOK
  <2>3. HeldBy(k, h)' /\ lease'[k].expiry = ExpiryAfter(d)
    BY DEF Put, HeldBy, Held
  <2> QED
    BY <1>2, <2>1, <2>2, <2>3 DEF Backed
<1>3. CASE j = k /\ g # h
  <2>1. until[j][g] <= Now
    BY <1>1, <1>3 DEF Backed, HeldBy, Held
  <2>2. until'[j][g] = until[j][g]
    BY <1>3 DEF Put, PromiseInv, StoreTypeOK
  <2> QED
    BY <1>0, <2>1, <2>2 DEF Backed
<1>4. CASE j # k
  <2>1. until'[j][g] = until[j][g]
    BY <1>4 DEF Put, PromiseInv, StoreTypeOK
  <2>2. HeldBy(j, g)' = HeldBy(j, g) /\ (HeldBy(j, g) => lease'[j] = lease[j])
    BY <1>4 DEF Put, HeldBy, Held
  <2> QED
    BY <1>0, <1>1, <2>1, <2>2 DEF Backed
<1> QED
  BY <1>2, <1>3, <1>4

\* Deletion of rows whose holders are promised nothing more.
LEMMA DeleteBacked ==
    ASSUME PromiseInv, NEW ks, Delete(ks),
           Now' = Now,
           \A k \in LeaseKeys, h \in Holders : 
              \/ until'[k][h] = until[k][h] /\ (k \in ks => until[k][h] <= Now)
              \/ until'[k][h] = Withdrawn
    PROVE  \A j \in LeaseKeys, g \in Holders : Backed(j, g)'
<1> SUFFICES ASSUME NEW j \in LeaseKeys, NEW g \in Holders
             PROVE  Backed(j, g)'
  OBVIOUS
<1>1. Backed(j, g) /\ Now \in Nat
  BY NowType DEF PromiseInv
<1>2. CASE until'[j][g] = Withdrawn
  BY <1>1, <1>2 DEF Backed
<1>3. CASE until'[j][g] = until[j][g] /\ j \in ks
  BY <1>3, <1>1 DEF Backed
<1>4. CASE until'[j][g] = until[j][g] /\ j \notin ks
  <2>1. HeldBy(j, g)' = HeldBy(j, g) /\ (HeldBy(j, g) => lease'[j] = lease[j])
    BY <1>4 DEF Delete, HeldBy, Held
  <2> QED
    BY <1>1, <1>4, <2>1 DEF Backed
<1> QED
  BY <1>2, <1>3, <1>4

\* Every transaction, and the passing of time, keeps the promises backed.
LEMMA PromiseStep ==
    ASSUME PromiseInv, [StoreNext]_leaseVars
    PROVE  PromiseInv'
<1> USE DEF PromiseInv
<1>t. Now \in Nat /\ sec \in Nat /\ tick \in Nat
  BY NowType DEF StoreTypeOK
<1>1. CASE Tick
  <2>1. StoreTypeOK'
    BY <1>1 DEF Tick, StoreTypeOK, storeVars
  <2>2. Now' = Now + 1
    BY <1>1 DEF Tick, Now, StoreTypeOK
  <2>3. \A k \in LeaseKeys, h \in Holders : until[k][h] \in Int
    BY DEF StoreTypeOK
  <2>4. \A k \in LeaseKeys, h \in Holders : Backed(k, h)'
    BY <1>1, <1>t, <2>2, <2>3 DEF Tick, Backed, HeldBy, Held, storeVars
  <2> QED
    BY <2>1, <2>4
<1>2. CASE ExpireLeases
  <2> DEFINE gone == {k \in DOMAIN lease : pins[k] = {} /\ Expired(k)}
  <2>1. StoreTypeOK'
    BY <1>2 DEF ExpireLeases, Delete, StoreTypeOK, clockVars
  <2>2. Now' = Now /\ UNCHANGED until /\ Delete(gone)
    BY <1>2 DEF ExpireLeases, Now, clockVars
  <2>3. ASSUME NEW k \in LeaseKeys, NEW h \in Holders, k \in gone
        PROVE  until[k][h] <= Now
    <3>1. lease[k].expiry \in Nat /\ lease[k].expiry < sec
      BY <2>3 DEF StoreTypeOK, Expired
    <3>2. (lease[k].expiry + 1) * SecondTicks <= Now
      BY <3>1, <1>t, SecondsPassed DEF Now
    <3>3. until[k][h] \in Int /\ (lease[k].expiry + 1) * SecondTicks \in Nat
      BY <3>1 DEF StoreTypeOK
    <3>4. Backed(k, h)
      OBVIOUS
    <3> QED
      BY <1>t, <3>2, <3>3, <3>4 DEF Backed
  <2>4. \A k \in LeaseKeys, h \in Holders : Backed(k, h)'
    BY <2>2, <2>3, DeleteBacked
  <2> QED
    BY <2>1, <2>4
<1>3. CASE DeleteLeadershipForModel
  <2>1. StoreTypeOK'
    BY <1>3 DEF DeleteLeadershipForModel, Delete, Withdraw, StoreTypeOK, clockVars
  <2>2. Now' = Now /\ Delete(Leadership)
    BY <1>3 DEF DeleteLeadershipForModel, Now, clockVars
  <2>3. \A k \in LeaseKeys, h \in Holders :
           \/ until'[k][h] = until[k][h] /\ (k \in Leadership => until[k][h] <= Now)
           \/ until'[k][h] = Withdrawn
    BY <1>3 DEF DeleteLeadershipForModel, Withdraw
  <2>4. \A k \in LeaseKeys, h \in Holders : Backed(k, h)'
    BY <2>2, <2>3, DeleteBacked
  <2> QED
    BY <2>1, <2>4
<1>4. ASSUME NEW k \in LeaseKeys, NEW h \in Holders, NEW d \in Durations,
             ClaimLease(k, h, d) \/ ExtendLease(k, h, d)
      PROVE  PromiseInv'
  <2>1. CASE k \notin TypedKeys
    <3>1. ~Held(k)
      BY <2>1 DEF StoreTypeOK, Held
    <3>2. UNCHANGED <<lease, until, sec, tick, pins>>
      BY <1>4, <2>1, <3>1 DEF ClaimLease, ExtendLease, HeldBy, clockVars
    <3> QED
      BY <3>2 DEF StoreTypeOK, Backed, HeldBy, Held, Now
  <2>2. CASE k \in TypedKeys
    <3>1. /\ ~Held(k) \/ HeldBy(k, h)
          /\ Put(k, h, d) /\ UNCHANGED <<clockVars, pins>>
      BY <1>4, <2>2 DEF ClaimLease, ExtendLease
    <3> QED
      BY <2>2, <3>1, PutType, PutBacked
  <2> QED
    BY <2>1, <2>2
<1>5. ASSUME NEW k \in LeaseKeys, NEW h \in Holders, RevokeLease(k, h)
      PROVE  PromiseInv'
  <2>1. StoreTypeOK'
    BY <1>5 DEF RevokeLease, Delete, Withdraw, StoreTypeOK, clockVars
  <2>2. Now' = Now /\ Delete({k})
    BY <1>5 DEF RevokeLease, Now, clockVars
  <2>3. \A j \in LeaseKeys, g \in Holders :
           \/ until'[j][g] = until[j][g] /\ (j \in {k} => until[j][g] <= Now)
           \/ until'[j][g] = Withdrawn
    BY <1>5 DEF RevokeLease, Withdraw
  <2>4. \A j \in LeaseKeys, g \in Holders : Backed(j, g)'
    BY <2>2, <2>3, DeleteBacked
  <2> QED
    BY <2>1, <2>4
<1>6. ASSUME NEW k \in LeaseKeys, NEW e \in Entities,
             PinLease(k, e) \/ UnpinLease(k, e)
      PROVE  PromiseInv'
  <2>1. StoreTypeOK'
    <3>1. CASE PinLease(k, e)
      BY <3>1 DEF PinLease, StoreTypeOK, clockVars
    <3>2. CASE UnpinLease(k, e)
      BY <3>2 DEF UnpinLease, StoreTypeOK, clockVars
    <3> QED
      BY <1>6, <3>1, <3>2
  <2>2. UNCHANGED <<lease, until, sec, tick>>
    BY <1>6 DEF PinLease, UnpinLease, clockVars
  <2>3. \A j \in LeaseKeys, g \in Holders : Backed(j, g)'
    BY <2>2 DEF Backed, HeldBy, Held, Now
  <2> QED
    BY <2>1, <2>3
<1>7. CASE UNCHANGED leaseVars
  BY <1>7 DEF leaseVars, clockVars, storeVars, StoreTypeOK, Backed, HeldBy, Held, Now
<1> QED
  BY <1>1, <1>2, <1>3, <1>4, <1>5, <1>6, <1>7 DEF StoreNext

-----------------------------------------------------------------------------
(* The tables and the clock keep their types under every transaction of    *)
(* package domain/lease/state and of the lease expiry worker.              *)
THEOREM StoreTypeCorrect == StoreSpec => []StoreTypeOK
<1>1. PromiseInv => StoreTypeOK
  BY DEF PromiseInv
<1> QED
  BY <1>1, InitPromiseInv, PromiseStep, PTL DEF StoreSpec

(* Whatever the durations and wherever in a second a claim falls, a holder *)
(* whose claim succeeded in a namespace with a type holds the lease until  *)
(* the promised time: the expiry worker, which compares whole seconds,     *)
(* never comes early.                                                      *)
THEOREM PromiseAlwaysKept == StoreSpec => []PromiseKept
<1>1. ASSUME PromiseInv PROVE PromiseKept
  BY <1>1, NowType DEF PromiseInv, PromiseKept, Backed, StoreTypeOK
<1> QED
  BY <1>1, InitPromiseInv, PromiseStep, PTL DEF StoreSpec

(* Nor does a model migration leave such a holder behind: with an expiry   *)
(* before today its promise would be over.                                 *)
THEOREM ExportComplete == StoreSpec => []ExportCoversHolders
<1>1. ASSUME PromiseInv PROVE ExportCoversHolders
  <2> SUFFICES ASSUME NEW k \in Leadership, NEW h \in Holders, until[k][h] > Now
               PROVE  k \in GetApplicationLeadershipForModel
    BY DEF ExportCoversHolders
  <2>1. /\ Now \in Nat /\ sec \in Nat /\ tick \in Nat /\ until[k][h] \in Int
    BY <1>1, NowType DEF PromiseInv, StoreTypeOK
  <2>2. /\ Held(k) /\ lease[k].expiry \in Nat
        /\ until[k][h] < (lease[k].expiry + 1) * SecondTicks
    BY <1>1, <2>1 DEF PromiseInv, Backed, HeldBy, Held, StoreTypeOK
  <2>3. ~(lease[k].expiry < sec)
    <3> SUFFICES ASSUME lease[k].expiry < sec PROVE FALSE
      OBVIOUS
    <3>1. (lease[k].expiry + 1) * SecondTicks <= Now
      BY <2>1, <2>2, SecondsPassed DEF Now
    <3>2. (lease[k].expiry + 1) * SecondTicks \in Nat
      BY <2>2
    <3> QED
      BY <2>1, <2>2, <3>1, <3>2
  <2>4. (sec \div DaySeconds) * DaySeconds \in Nat /\ (sec \div DaySeconds) * DaySeconds <= sec
    BY <2>1, DayBegun
  <2> QED
    BY <2>1, <2>2, <2>3, <2>4 DEF GetApplicationLeadershipForModel, Held
<1> QED
  BY <1>1, InitPromiseInv, PromiseStep, PTL DEF StoreSpec

-----------------------------------------------------------------------------
(* No transaction takes a pinned lease from its holder.                    *)
THEOREM PinnedNeverLost == StoreSpec => PinnedKeepsHolder
<1> DEFINE Keeps == \A k \in DOMAIN lease :
              pins[k] # {} => k \in DOMAIN lease' /\ lease'[k].holder = lease[k].holder
<1>1. ASSUME StoreTypeOK, [StoreNext]_leaseVars PROVE [Keeps]_leaseVars
  <2>1. CASE Tick
    BY <2>1 DEF Tick, storeVars
  <2>2. CASE ExpireLeases
    BY <2>2 DEF ExpireLeases, Delete
  <2>3. CASE DeleteLeadershipForModel
    BY <2>3 DEF DeleteLeadershipForModel, Delete
  <2>4. ASSUME NEW k \in LeaseKeys, NEW h \in Holders, NEW d \in Durations,
               ClaimLease(k, h, d) \/ ExtendLease(k, h, d)
        PROVE  Keeps
    BY <2>4 DEF ClaimLease, ExtendLease, Put, Held, HeldBy
  <2>5. ASSUME NEW k \in LeaseKeys, NEW h \in Holders, RevokeLease(k, h)
        PROVE  Keeps
    BY <2>5 DEF RevokeLease, Delete
  <2>6. ASSUME NEW k \in LeaseKeys, NEW e \in Entities,
               PinLease(k, e) \/ UnpinLease(k, e)
        PROVE  Keeps
    BY <2>6 DEF PinLease, UnpinLease
  <2>7. CASE UNCHANGED leaseVars
    BY <2>7
  <2> QED
    BY <1>1, <2>1, <2>2, <2>3, <2>4, <2>5, <2>6, <2>7 DEF StoreNext
<1> QED
  BY <1>1, StoreTypeCorrect, PTL DEF StoreSpec, PinnedKeepsHolder
=============================================================================
