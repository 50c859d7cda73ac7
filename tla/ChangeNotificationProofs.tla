---------------------- MODULE ChangeNotificationProofs ----------------------
(***************************************************************************)
(* Proofs about ChangeNotification for every set of keys and watchers,     *)
(* whatever they filter, and every length of the watermark buffer: a       *)
(* client that watches loses no update. The log, the stream and the pruner *)
(* keep the invariants of ChangeStreamProofs; what is added here is how    *)
(* the multiplexer and the watchers hand on what the stream has read.      *)
(***************************************************************************)
EXTENDS ChangeNotification, ChangeStreamProofs

(* The parts of the inductive invariant.                                   *)

\* The types, with the domains of the watchers' functions.
SysTypeInv ==
    /\ SysTypeOK
    /\ DOMAIN pending = Watchers /\ DOMAIN seen = Watchers

\* Changes are held only while they are dispatched; a dead loop serves nobody.
MuxIdle ==
    /\ muxPhase # "dispatch" => changeSet = NoChanges
    /\ muxPhase = "dead" => registered = {}

\* Every live subscription is registered and belongs to a running watcher.
SubscriptionInv ==
    \A w \in Watchers :
        subState[w] = "active" =>
            w \in registered /\ wphase[w] \in {"init", "dispatch", "read"}

\* A watcher that reads its subscription has nothing left to offer.
OfferInv == \A w \in Watchers : wphase[w] = "read" => pending[w] = {}

\* i, with the key and edit of r, is no newer than what latest has for it.
NoNewer(i, r) ==
    /\ i <= latest[r.key].id
    /\ i = latest[r.key].id => r.edit = latest[r.key].edit

\* The newest change of a key is as new as any row or event that tells of it.
LatestInv ==
    /\ \A k \in Keys : latest[k].id < nextId
    /\ \A i \in DOMAIN change_log : NoNewer(i, change_log[i])
    /\ \A c \in Controllers : \A e \in term[c].changes : NoNewer(e.id, e)

\* How far the stream has read into completed terms and the one handed on.
ReadBound(c) == IF phase[c] = "wait" THEN term[c].upper ELSE UpperBound(c)

\* The newest change of k is in the log, to be read, and not to be pruned.
Ahead(c, k) ==
    /\ latest[k].id \in DOMAIN change_log
    /\ change_log[latest[k].id].key = k
    /\ latest[k].id > ReadBound(c)
    /\ c \in DOMAIN witness => latest[k].id > witness[c].lower

(* NoLostUpdate, with the row that is still ahead named: it is the newest  *)
(* one of its key, and no witness has passed it.                           *)
AheadInv ==
    \A w \in Watchers, c \in Controllers : \A k \in Filter[w] :
        Uninformed(w, k) /\ subState[w] = "active" /\ phase[c] # "down" =>
            k \in changeSet[w] \/ Ahead(c, k)

SysInv ==
    /\ DeliveryInv
    /\ SysTypeInv
    /\ TermHandshake
    /\ MuxIdle
    /\ SubscriptionInv
    /\ OfferInv
    /\ LatestInv
    /\ AheadInv

-----------------------------------------------------------------------------
(* The stream's part of a step.                                            *)

\* Every step of the system is a step of ChangeStream, or leaves it alone.
LEMMA SysStepIsStreamStep ==
    ASSUME [SysNext]_sysVars
    PROVE  [Next]_vars
<1> USE DEF Next, StreamNext
<1>1. ASSUME NEW k \in Keys, NEW e \in Edits, Commit(k, e) PROVE Next
  BY <1>1 DEF Commit, Write
<1>2. CASE SysPrune
  BY <1>2 DEF SysPrune
<1>3. ASSUME NEW c \in Controllers,
             \/ SysCreateWatermark(c) \/ SysReadChanges(c)
             \/ SysUpdateWatermark(c) \/ SysBlock(c)
             \/ HandTerm(c) \/ FinishTerm(c) \/ StreamDies(c)
             \/ NewWatchableDB(c)
      PROVE  Next
  BY <1>3 DEF SysCreateWatermark, SysReadChanges, SysUpdateWatermark, SysBlock,
              HandTerm, FinishTerm, StreamDies, NewWatchableDB
<1>4. ASSUME NEW c \in Controllers, AbortTerm(c) PROVE [Next]_vars
  BY <1>4 DEF AbortTerm
<1>5. ASSUME NEW c \in Controllers, KillWatchableDB(c) PROVE UNCHANGED vars
  BY <1>5 DEF KillWatchableDB
<1>6. ASSUME NEW w \in Watchers,
             \/ Deliver(w) \/ Drain(w) \/ SkipDying(w) \/ DispatchTimeout(w)
             \/ Subscribe(w) \/ SubscribeFails(w) \/ InitialQuery(w)
             \/ ClientReads(w) \/ SubscriptionClosed(w)
             \/ WatcherStops(w) \/ ClientRetries(w)
      PROVE  UNCHANGED vars
  BY <1>6 DEF Deliver, Drain, SkipDying, DispatchTimeout, Subscribe,
              SubscribeFails, InitialQuery, ClientReads, SubscriptionClosed,
              WatcherStops, ClientRetries
<1>7. CASE MuxDies
  BY <1>7 DEF MuxDies
<1>8. CASE UNCHANGED sysVars
  BY <1>8 DEF sysVars
<1> QED
  BY <1>1, <1>2, <1>3, <1>4, <1>5, <1>6, <1>7, <1>8 DEF SysNext

\* So the invariants of the log, the stream and the pruner are kept.
LEMMA StreamInvariantsKept ==
    ASSUME DeliveryInv, [SysNext]_sysVars
    PROVE  DeliveryInv'
BY SysStepIsStreamStep, IInvStep, TermInvStep DEF DeliveryInv

-----------------------------------------------------------------------------
(* Types.                                                                  *)

\* The actions in which a watcher w is the actor.
WatcherStep(w) ==
    \/ Deliver(w) \/ Drain(w) \/ SkipDying(w) \/ DispatchTimeout(w)
    \/ Subscribe(w) \/ SubscribeFails(w) \/ InitialQuery(w)
    \/ ClientReads(w) \/ SubscriptionClosed(w)
    \/ WatcherStops(w) \/ ClientRetries(w)

\* The actions of the stream in which the multiplexer takes part.
MuxStep(c) ==
    HandTerm(c) \/ FinishTerm(c) \/ AbortTerm(c) \/ NewWatchableDB(c)

\* The actions that only the log or the stream notices.
StreamOnly(c) ==
    \/ SysCreateWatermark(c) \/ SysReadChanges(c)
    \/ SysUpdateWatermark(c) \/ SysBlock(c) \/ StreamDies(c)

\* A step, by the part of the system that takes it.
LEMMA SysCases ==
    ASSUME [SysNext]_sysVars
    PROVE  \/ \E k \in Keys, e \in Edits : Commit(k, e)
           \/ SysPrune
           \/ \E c \in Controllers : StreamOnly(c)
           \/ \E c \in Controllers : MuxStep(c)
           \/ \E c \in Controllers : KillWatchableDB(c)
           \/ \E w \in Watchers : WatcherStep(w)
           \/ MuxDies
           \/ UNCHANGED sysVars
BY DEF SysNext, StreamOnly, MuxStep, WatcherStep

\* Steps of the log and the stream alone leave the consumers' state as it is.
LEMMA StreamOnlyQuiet ==
    ASSUME NEW c, StreamOnly(c)
    PROVE  Quiet
BY DEF StreamOnly, SysCreateWatermark, SysReadChanges, SysUpdateWatermark,
       SysBlock, StreamDies

\* A watcher's step leaves the log, the stream and the newest changes alone.
LEMMA WatcherStepFrame ==
    ASSUME NEW w \in Watchers, WatcherStep(w)
    PROVE  UNCHANGED <<vars, latest, killed>>
BY DEF WatcherStep, Deliver, Drain, SkipDying, DispatchTimeout, Subscribe,
       SubscribeFails, InitialQuery, ClientReads, SubscriptionClosed,
       WatcherStops, ClientRetries

\* What a watcher is routed is a key it asked for.
LEMMA GatheredAreFiltered ==
    ASSUME NEW w, NEW changes
    PROVE  GatherSubscriptions(w, changes) \subseteq Filter[w]
BY DEF GatherSubscriptions

\* The multiplexer's types are kept.
LEMMA MuxTypes ==
    ASSUME MuxTypeOK, [SysNext]_sysVars
    PROVE  MuxTypeOK'
<1> USE DEF MuxTypeOK, muxVars, MuxPhases
<1>1. ASSUME NEW k \in Keys, NEW e \in Edits, Commit(k, e) PROVE MuxTypeOK'
  BY <1>1 DEF Commit
<1>2. CASE SysPrune
  BY <1>2 DEF SysPrune, Quiet
<1>3. ASSUME NEW c \in Controllers, StreamOnly(c) PROVE MuxTypeOK'
  BY <1>3, StreamOnlyQuiet DEF Quiet
<1>4. ASSUME NEW c \in Controllers, MuxStep(c) PROVE MuxTypeOK'
  <2>1. CASE HandTerm(c)
    BY <2>1, GatheredAreFiltered DEF HandTerm, MuxReceiveTerm
  <2>2. CASE FinishTerm(c) \/ AbortTerm(c)
    BY <2>2 DEF FinishTerm, AbortTerm, MuxTermFinished, Alive
  <2>3. CASE NewWatchableDB(c)
    BY <2>3 DEF NewWatchableDB, MuxStart
  <2> QED
    BY <1>4, <2>1, <2>2, <2>3 DEF MuxStep
<1>5. ASSUME NEW c \in Controllers, KillWatchableDB(c) PROVE MuxTypeOK'
  BY <1>5 DEF KillWatchableDB
<1>6. ASSUME NEW w \in Watchers, WatcherStep(w) PROVE MuxTypeOK'
  <2>1. CASE Deliver(w) \/ Drain(w) \/ SkipDying(w) \/ DispatchTimeout(w)
    <3>1. Dispatched(w) /\ (UNCHANGED subState
                            \/ subState' = [subState EXCEPT ![w] = "dying"])
      BY <2>1 DEF Deliver, Drain, SkipDying, DispatchTimeout, MuxDeliver,
                  MuxUnsubscribing, MuxDispatchTimeout
    <3> QED
      BY <3>1 DEF Dispatched
  <2>2. CASE Subscribe(w)
    BY <2>2 DEF Subscribe, MuxSubscribe, Alive
  <2>3. CASE WatcherStops(w)
    BY <2>3 DEF WatcherStops, Unsubscribe
  <2>4. CASE \/ SubscribeFails(w) \/ InitialQuery(w) \/ ClientReads(w)
             \/ SubscriptionClosed(w) \/ ClientRetries(w)
    BY <2>4 DEF SubscribeFails, InitialQuery, ClientReads, SubscriptionClosed,
                ClientRetries
  <2> QED
    BY <1>6, <2>1, <2>2, <2>3, <2>4 DEF WatcherStep
<1>7. CASE MuxDies
  BY <1>7 DEF MuxDies, MuxExit
<1>8. CASE UNCHANGED sysVars
  BY <1>8 DEF sysVars
<1> QED
  BY <1>1, <1>2, <1>3, <1>4, <1>5, <1>6, <1>7, <1>8, SysCases

\* The newest changes keep their types.
LEMMA LatestTypes ==
    ASSUME TypeOK, SysTypeInv, [SysNext]_sysVars
    PROVE  /\ latest' \in [Keys -> [id : Nat, edit : Edits \union {"none"}]]
           /\ killed' \in BOOLEAN
<1> DEFINE L == [Keys -> [id : Nat, edit : Edits \union {"none"}]]
<1>t. latest \in L /\ killed \in BOOLEAN /\ nextId \in Nat
  BY DEF SysTypeInv, SysTypeOK, TypeOK, Ids
<1>1. ASSUME NEW k \in Keys, NEW e \in Edits, Commit(k, e)
      PROVE  latest' \in L /\ killed' = killed
  BY <1>1, <1>t DEF Commit
<1>2. CASE SysPrune
  BY <1>2, <1>t DEF SysPrune, Quiet
<1>3. ASSUME NEW c \in Controllers, StreamOnly(c)
      PROVE  UNCHANGED <<latest, killed>>
  BY <1>3, StreamOnlyQuiet DEF Quiet
<1>4. ASSUME NEW c \in Controllers, MuxStep(c)
      PROVE  UNCHANGED latest /\ killed' \in {killed, FALSE}
  BY <1>4 DEF MuxStep, HandTerm, FinishTerm, AbortTerm, NewWatchableDB
<1>5. ASSUME NEW c \in Controllers, KillWatchableDB(c)
      PROVE  UNCHANGED latest /\ killed' = TRUE
  BY <1>5 DEF KillWatchableDB
<1>6. ASSUME NEW w \in Watchers, WatcherStep(w)
      PROVE  UNCHANGED <<latest, killed>>
  BY <1>6, WatcherStepFrame
<1>7. CASE MuxDies
  BY <1>7, <1>t DEF MuxDies
<1>8. CASE UNCHANGED sysVars
  BY <1>8, <1>t DEF sysVars
<1>9. latest' \in L
  BY <1>1, <1>2, <1>3, <1>4, <1>5, <1>6, <1>7, <1>8, <1>t, SysCases
<1>10. killed' \in BOOLEAN
  <2>1. killed' = killed \/ killed' = TRUE \/ killed' = FALSE
    <3>1. CASE SysPrune \/ MuxDies \/ UNCHANGED sysVars
      BY <3>1 DEF SysPrune, Quiet, MuxDies, sysVars
    <3> QED
      BY <3>1, <1>1, <1>3, <1>4, <1>5, <1>6, SysCases, Zenon
  <2> QED
    BY <2>1, <1>t, Zenon
<1> QED
  BY <1>9, <1>10

\* A step of a watcher that only changes its own state, and how.
OwnStep(w) ==
    /\ \A v \in Watchers \ {w} :
          wphase'[v] = wphase[v] /\ pending'[v] = pending[v] /\ seen'[v] = seen[v]
    /\ wphase' \in [Watchers -> WatcherPhases]
    /\ DOMAIN pending' = Watchers /\ DOMAIN seen' = Watchers
    /\ pending'[w] \subseteq Filter[w]
    /\ seen'[w] \in [Filter[w] -> Nat]

\* A step is one watcher's own, or leaves the watchers as they are.
LEMMA WatcherMoves ==
    ASSUME SysTypeInv, [SysNext]_sysVars
    PROVE  UNCHANGED watcherVars \/ \E w \in Watchers : WatcherStep(w) /\ OwnStep(w)
<1> USE DEF watcherVars
<1>1. ASSUME NEW k \in Keys, NEW e \in Edits, Commit(k, e)
      PROVE  UNCHANGED watcherVars
  BY <1>1 DEF Commit
<1>2. ASSUME NEW c \in Controllers,
             StreamOnly(c) \/ MuxStep(c) \/ KillWatchableDB(c)
      PROVE  UNCHANGED watcherVars
  BY <1>2, StreamOnlyQuiet
  DEF Quiet, MuxStep, HandTerm, FinishTerm, AbortTerm, NewWatchableDB,
      KillWatchableDB
<1>3. ASSUME SysPrune \/ MuxDies \/ UNCHANGED sysVars
      PROVE  UNCHANGED watcherVars
  BY <1>3 DEF SysPrune, Quiet, MuxDies, sysVars
<1>4. ASSUME NEW w \in Watchers, WatcherStep(w)
      PROVE  UNCHANGED watcherVars \/ OwnStep(w)
  <2>t. /\ wphase \in [Watchers -> WatcherPhases]
        /\ DOMAIN pending = Watchers /\ DOMAIN seen = Watchers
        /\ pending[w] \subseteq Filter[w]
        /\ seen[w] \in [Filter[w] -> Nat]
        /\ changeSet[w] \subseteq Filter[w]
        /\ Filter[w] \subseteq Keys
        /\ latest \in [Keys -> [id : Nat, edit : Edits \union {"none"}]]
    BY FilterAssumption DEF SysTypeInv, SysTypeOK, WatchersTypeOK, MuxTypeOK
  <2>c. \A k \in Filter[w] : Current[k] \in Nat
    BY <2>t DEF Current
  <2> USE DEF OwnStep, WatcherPhases
  <2>1. CASE SkipDying(w) \/ DispatchTimeout(w)
    BY <2>1 DEF SkipDying, DispatchTimeout
  <2>2. CASE WatcherInitial(w, Existing, Current)
    <3>1. CASE w \in Notifies
      BY <3>1, <2>2, <2>t DEF WatcherInitial
    <3>2. CASE w \notin Notifies
      BY <3>2, <2>2, <2>t, <2>c DEF WatcherInitial
    <3> QED
      BY <3>1, <3>2
  <2>3. CASE WatcherReceive(w, changeSet[w])
    BY <2>3, <2>t DEF WatcherReceive
  <2>4. CASE ClientReceive(w, Current)
    BY <2>4, <2>t, <2>c DEF ClientReceive
  <2>5. CASE WatcherDie(w)
    BY <2>5, <2>t DEF WatcherDie, NothingSeen
  <2>6. CASE WatcherRestart(w) \/ WatcherSubscribed(w)
    BY <2>6, <2>t DEF WatcherRestart, WatcherSubscribed
  <2> QED
    BY <1>4, <2>1, <2>2, <2>3, <2>4, <2>5, <2>6
    DEF WatcherStep, Deliver, Drain, WatcherDrain, Subscribe, SubscribeFails,
        InitialQuery, ClientReads, SubscriptionClosed, WatcherStops,
        ClientRetries
<1> QED
  BY <1>1, <1>2, <1>3, <1>4, SysCases

\* The types are kept.
LEMMA SysTypeStep ==
    ASSUME DeliveryInv, SysTypeInv, [SysNext]_sysVars
    PROVE  SysTypeInv'
<1>1. TypeOK /\ TypeOK'
  BY StreamInvariantsKept DEF DeliveryInv, IInv
<1>2. MuxTypeOK'
  BY MuxTypes DEF SysTypeInv, SysTypeOK
<1>3. WatchersTypeOK' /\ DOMAIN pending' = Watchers /\ DOMAIN seen' = Watchers
  <2>1. CASE UNCHANGED watcherVars
    BY <2>1 DEF SysTypeInv, SysTypeOK, WatchersTypeOK, watcherVars
  <2>2. ASSUME NEW w \in Watchers, OwnStep(w)
        PROVE  /\ WatchersTypeOK'
               /\ DOMAIN pending' = Watchers /\ DOMAIN seen' = Watchers
    <3>1. ASSUME NEW v \in Watchers
          PROVE  pending'[v] \subseteq Filter[v] /\ seen'[v] \in [Filter[v] -> Nat]
      BY <2>2 DEF OwnStep, SysTypeInv, SysTypeOK, WatchersTypeOK
    <3> QED
      BY <2>2, <3>1 DEF OwnStep, WatchersTypeOK
  <2> QED
    BY <2>1, <2>2, WatcherMoves
<1> QED
  BY <1>1, <1>2, <1>3, LatestTypes DEF SysTypeInv, SysTypeOK

-----------------------------------------------------------------------------
(* The handshake between the stream and the multiplexer, the subscriptions *)
(* and the watchers' offers.                                               *)

\* There is one controller: what one stream does is what the stream does.
LEMMA OneStream ==
    ASSUME NEW c \in Controllers, NEW d \in Controllers
    PROVE  c = d
BY OneControllerAssumption

\* One of the four ways in which a dispatch ends.
DispatchEnds(w) ==
    Deliver(w) \/ Drain(w) \/ SkipDying(w) \/ DispatchTimeout(w)

\* The steps of the multiplexer's state.
LEMMA MuxMoves ==
    ASSUME [SysNext]_sysVars
    PROVE  \/ UNCHANGED muxVars
           \/ \E c \in Controllers : MuxStep(c)
           \/ \E w \in Watchers : DispatchEnds(w) \/ Subscribe(w) \/ WatcherStops(w)
           \/ MuxDies
<1>1. ASSUME NEW k \in Keys, NEW e \in Edits, Commit(k, e)
      PROVE  UNCHANGED muxVars
  BY <1>1 DEF Commit
<1>2. ASSUME NEW c \in Controllers, StreamOnly(c) \/ KillWatchableDB(c)
      PROVE  UNCHANGED muxVars
  BY <1>2, StreamOnlyQuiet DEF Quiet, KillWatchableDB
<1>3. ASSUME SysPrune \/ UNCHANGED sysVars PROVE UNCHANGED muxVars
  BY <1>3 DEF SysPrune, Quiet, sysVars
<1>4. ASSUME NEW w \in Watchers, WatcherStep(w)
      PROVE  UNCHANGED muxVars \/ DispatchEnds(w) \/ Subscribe(w) \/ WatcherStops(w)
  BY <1>4 DEF WatcherStep, DispatchEnds, SubscribeFails, InitialQuery,
              ClientReads, SubscriptionClosed, ClientRetries
<1> QED
  BY <1>1, <1>2, <1>3, <1>4, SysCases

\* The end of a dispatch moves the multiplexer and perhaps kills, no more.
LEMMA DispatchEndsFacts ==
    ASSUME NEW w \in Watchers, DispatchEnds(w)
    PROVE  /\ Dispatched(w) /\ UNCHANGED <<vars, latest, killed>>
           /\ \/ UNCHANGED subState
              \/ subState' = [subState EXCEPT ![w] = "dying"]
BY DEF DispatchEnds, Deliver, Drain, SkipDying, DispatchTimeout, MuxDeliver,
       MuxUnsubscribing, MuxDispatchTimeout

\* Steps of the stream alone keep it from or in the wait for its term.
LEMMA StreamOnlyPhase ==
    ASSUME TypeOK, NEW c \in Controllers, StreamOnly(c)
    PROVE  /\ phase'[c] # "wait"
           /\ phase[c] \in {"wait", "down"} => phase'[c] = "down"
           /\ phase'[c] # "down" => phase[c] # "down"
<1>1. phase \in [Controllers -> Phases]
  BY DEF TypeOK
<1> QED
  BY <1>1 DEF StreamOnly, SysCreateWatermark, SysReadChanges,
         SysUpdateWatermark, SysBlock, StreamDies, CreateWatermark,
         ReadChanges, UpdateWatermark, UpdateWatermarkLost, WatermarkDue,
         Block, Unblock, Die

\* The multiplexer holds a term exactly while the stream waits for it.
LEMMA HandshakeStep ==
    ASSUME SysInv, [SysNext]_sysVars
    PROVE  TermHandshake'
<1> SUFFICES ASSUME NEW c \in Controllers
             PROVE  /\ phase'[c] = "wait" => muxPhase' \in {"dispatch", "finish"}
                    /\ muxPhase' \in {"dispatch", "finish"} =>
                          phase'[c] \in {"wait", "down"}
  BY DEF TermHandshake
<1>h. /\ phase[c] = "wait" => muxPhase \in {"dispatch", "finish"}
      /\ muxPhase \in {"dispatch", "finish"} => phase[c] \in {"wait", "down"}
      /\ phase \in [Controllers -> Phases] /\ TypeOK
  BY DEF SysInv, TermHandshake, SysTypeInv, SysTypeOK, TypeOK
<1> USE DEF muxVars, vars, streamVars
<1>1. ASSUME NEW k \in Keys, NEW e \in Edits, Commit(k, e)
      PROVE  UNCHANGED <<phase, muxPhase>>
  BY <1>1 DEF Commit
<1>2. ASSUME SysPrune \/ UNCHANGED sysVars PROVE UNCHANGED <<phase, muxPhase>>
  BY <1>2 DEF SysPrune, Prune, Quiet, sysVars
<1>3. ASSUME NEW d \in Controllers, StreamOnly(d)
      PROVE  /\ UNCHANGED muxPhase /\ phase'[c] # "wait"
             /\ phase[c] \in {"wait", "down"} => phase'[c] = "down"
  <2>1. c = d
    BY OneStream
  <2> QED
    BY <1>3, <2>1, <1>h, StreamOnlyQuiet, StreamOnlyPhase DEF Quiet
<1>4. ASSUME NEW d \in Controllers, MuxStep(d)
      PROVE  /\ phase'[c] = "wait" => muxPhase' \in {"dispatch", "finish"}
             /\ muxPhase' \in {"dispatch", "finish"} =>
                   phase'[c] \in {"wait", "down"}
  <2>1. c = d
    BY OneStream
  <2>2. CASE HandTerm(d)
    BY <2>1, <2>2, <1>h DEF HandTerm, SendTerm, MuxReceiveTerm
  <2>3. CASE FinishTerm(d)
    BY <2>1, <2>3, <1>h DEF FinishTerm, TermDone, MuxTermFinished
  <2>4. CASE AbortTerm(d)
    BY <2>1, <2>4, <1>h DEF AbortTerm, TermAborted, MuxTermFinished
  <2>5. CASE NewWatchableDB(d)
    BY <2>1, <2>5, <1>h DEF NewWatchableDB, StartStream, MuxStart
  <2> QED
    BY <1>4, <2>2, <2>3, <2>4, <2>5 DEF MuxStep
<1>5. ASSUME NEW d \in Controllers, KillWatchableDB(d)
      PROVE  UNCHANGED <<phase, muxPhase>>
  BY <1>5 DEF KillWatchableDB
<1>6. ASSUME NEW w \in Watchers, WatcherStep(w)
      PROVE  /\ UNCHANGED phase
             /\ \/ UNCHANGED muxPhase
                \/ muxPhase = "dispatch" /\ muxPhase' \in {"dispatch", "finish"}
  <2>1. UNCHANGED phase
    BY <1>6, WatcherStepFrame
  <2>2. CASE DispatchEnds(w)
    BY <2>1, <2>2, DispatchEndsFacts DEF Dispatched
  <2>3. CASE ~DispatchEnds(w)
    BY <1>6, <2>1, <2>3
    DEF WatcherStep, DispatchEnds, SubscribeFails, InitialQuery, ClientReads,
        SubscriptionClosed, ClientRetries, Subscribe, MuxSubscribe,
        WatcherStops, Unsubscribe
  <2> QED
    BY <2>2, <2>3
<1>7. ASSUME MuxDies
      PROVE  UNCHANGED phase /\ muxPhase = "select" /\ muxPhase' = "dead"
  BY <1>7 DEF MuxDies, MuxExit
<1> QED
  BY <1>h, <1>1, <1>2, <1>3, <1>4, <1>5, <1>6, <1>7, SysCases

\* The multiplexer holds changes only while it dispatches them.
LEMMA MuxIdleStep ==
    ASSUME SysInv, [SysNext]_sysVars
    PROVE  MuxIdle'
<1>m. MuxIdle
  BY DEF SysInv
<1> USE DEF MuxIdle, NoChanges
<1>1. CASE UNCHANGED muxVars
  BY <1>1, <1>m DEF muxVars
<1>2. ASSUME NEW c \in Controllers, MuxStep(c) PROVE MuxIdle'
  BY <1>2, <1>m DEF MuxStep, HandTerm, MuxReceiveTerm, FinishTerm, AbortTerm,
                    MuxTermFinished, NewWatchableDB, MuxStart
<1>3. ASSUME NEW w \in Watchers, DispatchEnds(w) PROVE MuxIdle'
  BY <1>3, DispatchEndsFacts DEF Dispatched
<1>4. ASSUME NEW w \in Watchers, Subscribe(w) \/ WatcherStops(w)
      PROVE  MuxIdle'
  BY <1>4, <1>m DEF Subscribe, MuxSubscribe, WatcherStops, Unsubscribe
<1>5. CASE MuxDies
  BY <1>5, <1>m DEF MuxDies, MuxExit
<1> QED
  BY <1>1, <1>2, <1>3, <1>4, <1>5, MuxMoves

\* A live subscription is registered, and its watcher runs.
LEMMA SubscriptionStep ==
    ASSUME SysInv, [SysNext]_sysVars
    PROVE  SubscriptionInv'
<1> SUFFICES ASSUME NEW v \in Watchers, subState'[v] = "active"
             PROVE  /\ v \in registered'
                    /\ wphase'[v] \in {"init", "dispatch", "read"}
  BY DEF SubscriptionInv
<1>t. /\ wphase \in [Watchers -> WatcherPhases]
      /\ subState \in [Watchers -> {"none", "active", "dying"}]
      /\ registered \subseteq Watchers
  BY DEF SysInv, SysTypeInv, SysTypeOK, MuxTypeOK, WatchersTypeOK
<1>s. subState[v] = "active" =>
          v \in registered /\ wphase[v] \in {"init", "dispatch", "read"}
  BY DEF SysInv, SubscriptionInv
<1> USE DEF WatcherPhases
<1>1. CASE UNCHANGED watcherVars
  <2>w. UNCHANGED wphase
    BY <1>1 DEF watcherVars
  <2>1. CASE UNCHANGED muxVars
    BY <2>1, <2>w, <1>s DEF muxVars
  <2>2. ASSUME NEW c \in Controllers, MuxStep(c)
        PROVE  v \in registered' /\ subState[v] = "active"
    BY <2>2, <1>s DEF MuxStep, HandTerm, MuxReceiveTerm, FinishTerm, AbortTerm,
                      MuxTermFinished, NewWatchableDB, MuxStart, Alive
  <2>3. ASSUME NEW w \in Watchers, DispatchEnds(w)
        PROVE  v \in registered' /\ subState[v] = "active"
    BY <2>3, <1>s, <1>t, DispatchEndsFacts DEF Dispatched
  <2>4. ASSUME NEW w \in Watchers, Subscribe(w) PROVE FALSE
    BY <2>4, <2>w, <1>t DEF Subscribe, WatcherSubscribed
  <2>5. ASSUME NEW w \in Watchers, WatcherStops(w) PROVE FALSE
    BY <2>5, <2>w, <1>t DEF WatcherStops, WatcherDie
  <2>6. ASSUME MuxDies PROVE FALSE
    BY <2>6, <1>s, <1>t DEF MuxDies, MuxExit
  <2> QED
    BY <2>1, <2>2, <2>3, <2>4, <2>5, <2>6, <2>w, <1>s, MuxMoves
<1>2. ASSUME NEW w \in Watchers, WatcherStep(w)
      PROVE  /\ v \in registered'
             /\ wphase'[v] \in {"init", "dispatch", "read"}
  <2>1. CASE DispatchEnds(w)
    <3>1. v \in registered' /\ subState[v] = "active"
      BY <2>1, <1>s, <1>t, DispatchEndsFacts DEF Dispatched
    <3> QED
      BY <2>1, <3>1, <1>s, <1>t
      DEF DispatchEnds, Deliver, Drain, SkipDying, DispatchTimeout,
          WatcherReceive, WatcherDrain, WatcherInitial, watcherVars
  <2>2. CASE Subscribe(w)
    BY <2>2, <1>s, <1>t DEF Subscribe, MuxSubscribe, WatcherSubscribed, Alive
  <2>3. CASE WatcherStops(w)
    BY <2>3, <1>s, <1>t DEF WatcherStops, Unsubscribe, WatcherDie
  <2>4. CASE \/ SubscribeFails(w) \/ InitialQuery(w) \/ ClientReads(w)
             \/ SubscriptionClosed(w) \/ ClientRetries(w)
    <3>1. UNCHANGED <<registered, subState>>
      BY <2>4 DEF SubscribeFails, InitialQuery, ClientReads,
                  SubscriptionClosed, ClientRetries, muxVars
    <3> QED
      BY <2>4, <3>1, <1>s, <1>t
      DEF SubscribeFails, InitialQuery, WatcherInitial, ClientReads,
          ClientReceive, SubscriptionClosed, WatcherDie, ClientRetries,
          WatcherRestart
  <2> QED
    BY <1>2, <2>1, <2>2, <2>3, <2>4 DEF WatcherStep, DispatchEnds
<1> QED
  BY <1>1, <1>2, WatcherMoves DEF SysInv

\* A watcher that reads its subscription has nothing left to offer.
LEMMA OfferStep ==
    ASSUME SysInv, [SysNext]_sysVars
    PROVE  OfferInv'
<1> SUFFICES ASSUME NEW v \in Watchers, wphase'[v] = "read"
             PROVE  pending'[v] = {}
  BY DEF OfferInv
<1>t. /\ wphase \in [Watchers -> WatcherPhases] /\ DOMAIN pending = Watchers
      /\ wphase[v] = "read" => pending[v] = {}
  BY DEF SysInv, SysTypeInv, SysTypeOK, WatchersTypeOK, OfferInv
<1>1. CASE UNCHANGED watcherVars
  BY <1>1, <1>t DEF watcherVars
<1>2. ASSUME NEW w \in Watchers, WatcherStep(w), OwnStep(w)
      PROVE  pending'[v] = {}
  <2>1. CASE v # w
    BY <1>2, <2>1, <1>t DEF OwnStep
  <2>2. CASE v = w
    BY <1>2, <2>2, <1>t
    DEF WatcherStep, Deliver, WatcherReceive, Drain, WatcherDrain,
        WatcherInitial, SkipDying, DispatchTimeout, Subscribe,
        WatcherSubscribed, SubscribeFails, InitialQuery, ClientReads,
        ClientReceive, SubscriptionClosed, WatcherDie, WatcherStops,
        ClientRetries, WatcherRestart, watcherVars
  <2> QED
    BY <2>1, <2>2
<1> QED
  BY <1>1, <1>2, WatcherMoves DEF SysInv

-----------------------------------------------------------------------------
(* The newest changes.                                                     *)

\* A term's events are rows of the log; otherwise it is kept or given up.
LEMMA TermMoves ==
    ASSUME TypeOK, [Next]_vars, NEW d \in Controllers
    PROVE  \/ term'[d] = term[d]
           \/ term'[d].changes = {}
           \/ \A e \in term'[d].changes :
                 /\ e.id \in DOMAIN change_log
                 /\ e.key = change_log[e.id].key
                 /\ e.edit = change_log[e.id].edit
<1>t. DOMAIN term = Controllers
  BY DEF TypeOK
<1> USE DEF dbVars, streamVars, vars
<1>1. ASSUME \/ \E k \in Keys, e \in Edits : Write(k, e)
             \/ Prune \/ UNCHANGED vars
      PROVE  UNCHANGED term
  BY <1>1 DEF Write, Prune
<1>2. ASSUME NEW c \in Controllers,
             \/ StartStream(c) \/ CreateWatermark(c) \/ SendTerm(c)
             \/ UpdateWatermark(c) \/ UpdateWatermarkLost(c)
             \/ Block(c) \/ Unblock(c)
      PROVE  UNCHANGED term
  BY <1>2 DEF StartStream, CreateWatermark, SendTerm, UpdateWatermark,
              UpdateWatermarkLost, Block, Unblock
<1>3. ASSUME NEW c \in Controllers, TermDone(c) \/ TermAborted(c) \/ Die(c)
      PROVE  term'[d] = term[d] \/ term'[d].changes = {}
  BY <1>3, <1>t DEF TermDone, TermAborted, Die, NoTerm
<1>4. ASSUME NEW c \in Controllers, ReadChanges(c)
      PROVE  \/ term'[d] = term[d]
             \/ \A e \in term'[d].changes :
                   /\ e.id \in DOMAIN change_log
                   /\ e.key = change_log[e.id].key
                   /\ e.edit = change_log[e.id].edit
  <2>1. CASE c # d
    BY <1>4, <2>1, <1>t DEF ReadChanges
  <2>2. CASE c = d
    <3>1. term'[d].changes = Coalesce(Unread(d))
      BY <1>4, <2>2, <1>t DEF ReadChanges
    <3> QED
      BY <3>1 DEF Coalesce, Unread
  <2> QED
    BY <2>1, <2>2
<1> QED
  BY <1>1, <1>2, <1>3, <1>4 DEF Next, StreamNext

\* A step of the system commits a change, or leaves the newest ones as they are.
LEMMA LatestMoves ==
    ASSUME [SysNext]_sysVars
    PROVE  \/ \E k \in Keys, e \in Edits : Commit(k, e)
           \/ UNCHANGED <<latest>>
<1>1. ASSUME NEW c \in Controllers,
             StreamOnly(c) \/ MuxStep(c) \/ KillWatchableDB(c)
      PROVE  UNCHANGED latest
  BY <1>1, StreamOnlyQuiet
  DEF Quiet, MuxStep, HandTerm, FinishTerm, AbortTerm, NewWatchableDB,
      KillWatchableDB
<1>2. ASSUME SysPrune \/ MuxDies \/ UNCHANGED sysVars PROVE UNCHANGED latest
  BY <1>2 DEF SysPrune, Quiet, MuxDies, sysVars
<1>3. ASSUME NEW w \in Watchers, WatcherStep(w) PROVE UNCHANGED latest
  BY <1>3, WatcherStepFrame
<1> QED
  BY <1>1, <1>2, <1>3, SysCases

\* Without a commit the log only loses rows, and the sequence stays.
LEMMA LogWithoutCommit ==
    ASSUME TypeOK, [SysNext]_sysVars, UNCHANGED <<latest>>,
           ~ \E k \in Keys, e \in Edits : Commit(k, e)
    PROVE  /\ nextId' = nextId
           /\ DOMAIN change_log' \subseteq DOMAIN change_log
           /\ \A i \in DOMAIN change_log' : change_log'[i] = change_log[i]
<1> USE DEF vars, dbVars, streamVars
<1>1. ASSUME NEW c \in Controllers, StreamOnly(c)
      PROVE  UNCHANGED <<change_log, nextId>>
  BY <1>1
  DEF StreamOnly, SysCreateWatermark, SysReadChanges, SysUpdateWatermark,
      SysBlock, StreamDies, CreateWatermark, ReadChanges, UpdateWatermark,
      UpdateWatermarkLost, Block, Unblock, Die
<1>2. ASSUME NEW c \in Controllers, MuxStep(c) \/ KillWatchableDB(c)
      PROVE  UNCHANGED <<change_log, nextId>>
  BY <1>2
  DEF MuxStep, HandTerm, SendTerm, FinishTerm, TermDone, AbortTerm,
      TermAborted, NewWatchableDB, StartStream, KillWatchableDB
<1>3. ASSUME MuxDies \/ UNCHANGED sysVars PROVE UNCHANGED <<change_log, nextId>>
  BY <1>3 DEF MuxDies, sysVars
<1>4. ASSUME NEW w \in Watchers, WatcherStep(w)
      PROVE  UNCHANGED <<change_log, nextId>>
  BY <1>4, WatcherStepFrame
<1>5. CASE SysPrune
  <2>1. nextId' = nextId
    BY <1>5 DEF SysPrune, Prune
  <2>2. PICK m : DeleteChangeLog(m)
    BY <1>5 DEF SysPrune, Prune
  <2> QED
    BY <2>1, <2>2 DEF DeleteChangeLog
<1> QED
  BY <1>1, <1>2, <1>3, <1>4, <1>5, SysCases

\* latest is as new as what the log and the terms tell.
LEMMA LatestStep ==
    ASSUME SysInv, [SysNext]_sysVars
    PROVE  LatestInv'
<1>t. /\ TypeOK /\ TypeOK' /\ [Next]_vars
      /\ latest \in [Keys -> [id : Nat, edit : Edits \union {"none"}]]
      /\ nextId \in Nat /\ LatestInv
  BY SysStepIsStreamStep, StreamInvariantsKept
  DEF SysInv, DeliveryInv, IInv, SysTypeInv, SysTypeOK, TypeOK, Ids
<1>e. ASSUME NEW c \in Controllers, NEW e \in term[c].changes
      PROVE  e.key \in Keys /\ e.id \in Nat
  BY <1>t DEF TypeOK, Events, Ids
<1>r. ASSUME NEW i \in DOMAIN change_log
      PROVE  change_log[i].key \in Keys /\ i \in Nat
  BY <1>t DEF TypeOK, Rows, Ids
<1>1. ASSUME NEW k \in Keys, NEW e \in Edits, Commit(k, e) PROVE LatestInv'
  <2>1. /\ latest' = [latest EXCEPT ![k] = [id |-> nextId, edit |-> e]]
        /\ nextId' = nextId + 1 /\ UNCHANGED term
        /\ change_log' = [i \in DOMAIN change_log \union {nextId} |->
                            IF i = nextId THEN [key |-> k, edit |-> e]
                                          ELSE change_log[i]]
    BY <1>1 DEF Commit, WriteRow, streamVars
  <2>2. ASSUME NEW j \in Keys
        PROVE  /\ latest'[j].id < nextId'
               /\ latest'[j] = IF j = k THEN [id |-> nextId, edit |-> e]
                                        ELSE latest[j]
               /\ latest[j].id < nextId /\ latest[j].id \in Nat
    BY <2>1, <1>t DEF LatestInv
  <2>3. ASSUME NEW i \in Nat, NEW r, r.key \in Keys, NoNewer(i, r)
        PROVE  NoNewer(i, r)'
    <3>1. CASE r.key = k
      <4>1. i < nextId /\ latest'[r.key].id = nextId
        BY <3>1, <2>2, <2>3, <1>t DEF NoNewer
      <4> QED
        BY <4>1, <1>t DEF NoNewer
    <3>2. CASE r.key # k
      BY <3>2, <2>2, <2>3 DEF NoNewer
    <3> QED
      BY <3>1, <3>2
  <2>4. ASSUME NEW i \in DOMAIN change_log' PROVE NoNewer(i, change_log[i])'
    <3>1. CASE i = nextId
      <4>1. change_log'[i] = [key |-> k, edit |-> e]
        BY <3>1, <2>1
      <4>2. latest'[k] = [id |-> nextId, edit |-> e]
        BY <2>2
      <4> QED
        BY <3>1, <4>1, <4>2, <1>t DEF NoNewer
    <3>2. CASE i # nextId
      <4>1. i \in DOMAIN change_log /\ change_log'[i] = change_log[i]
        BY <3>2, <2>1
      <4>2. NoNewer(i, change_log[i]) /\ change_log[i].key \in Keys /\ i \in Nat
        BY <4>1, <1>t, <1>r DEF LatestInv
      <4>3. /\ i <= latest'[change_log[i].key].id
            /\ i = latest'[change_log[i].key].id =>
                  change_log[i].edit = latest'[change_log[i].key].edit
        BY <4>2, <2>3 DEF NoNewer
      <4> QED
        BY <4>1, <4>3 DEF NoNewer
    <3> QED
      BY <3>1, <3>2
  <2>5. ASSUME NEW c \in Controllers, NEW x \in term'[c].changes
        PROVE  NoNewer(x.id, x)'
    <3>1. x \in term[c].changes
      BY <2>1, <2>5
    <3>2. NoNewer(x.id, x) /\ x.key \in Keys /\ x.id \in Nat
      BY <3>1, <1>t, <1>e DEF LatestInv
    <3> QED
      BY <3>2, <2>3 DEF NoNewer
  <2> QED
    BY <2>2, <2>4, <2>5 DEF LatestInv
<1>2. CASE UNCHANGED <<latest>> /\ ~ \E k \in Keys, e \in Edits : Commit(k, e)
  <2>1. /\ nextId' = nextId
        /\ DOMAIN change_log' \subseteq DOMAIN change_log
        /\ \A i \in DOMAIN change_log' : change_log'[i] = change_log[i]
    BY <1>2, <1>t, LogWithoutCommit
  <2>2. ASSUME NEW c \in Controllers, NEW x \in term'[c].changes
        PROVE  NoNewer(x.id, x)'
    <3>1. CASE x \in term[c].changes
      BY <3>1, <1>2, <1>t DEF LatestInv, NoNewer
    <3>2. CASE /\ x.id \in DOMAIN change_log
               /\ x.key = change_log[x.id].key
               /\ x.edit = change_log[x.id].edit
      BY <3>2, <1>2, <1>t DEF LatestInv, NoNewer
    <3> QED
      BY <2>2, <3>1, <3>2, <1>t, TermMoves
  <2> QED
    BY <1>2, <1>t, <2>1, <2>2 DEF LatestInv, NoNewer
<1> QED
  BY <1>1, <1>2, LatestMoves

-----------------------------------------------------------------------------
(* The change that an uninformed client waits for.                         *)

\* What the stream's invariants say of its bounds.
LEMMA StreamBounds ==
    ASSUME SysInv, NEW c \in Controllers
    PROVE  /\ UpperBound(c) \in Int /\ UpperBound(c) < nextId
           /\ term[c].upper \in Int /\ nextId \in Nat /\ nextId >= 1
           /\ phase[c] \in {"send", "wait"} =>
                 UpperBound(c) < term[c].upper /\ term[c].upper < nextId
           /\ c \in DOMAIN witness =>
                 witness[c].lower < nextId /\ witness[c].lower \in Int
           /\ DOMAIN change_log \subseteq 1..(nextId - 1)
<1>1. TypeOK /\ StreamInv(c) /\ UpperBound(c) \in Int
      /\ (c \in DOMAIN witness => witness[c].lower < nextId)
  BY UpperBoundType DEF SysInv, DeliveryInv, IInv
<1>2. /\ term[c].upper \in Int /\ term[c].lower \in Int
      /\ nextId \in Nat /\ nextId >= 1
      /\ DOMAIN change_log \subseteq 1..(nextId - 1)
  BY <1>1 DEF TypeOK, Ids
<1>3. c \in DOMAIN witness => witness[c].lower \in Int
  BY <1>1 DEF TypeOK, Views
<1>4. phase[c] \in {"send", "wait"} =>
          UpperBound(c) < term[c].upper /\ term[c].upper < nextId
  BY <1>1, <1>2 DEF StreamInv, TermBounded
<1> QED
  BY <1>1, <1>2, <1>3, <1>4 DEF StreamInv, BufferBounded

\* A step of the stream alone leaves ahead what is ahead of it.
LEMMA AheadOfStream ==
    ASSUME SysInv, NEW c \in Controllers, NEW k \in Keys,
           StreamOnly(c), phase'[c] # "down", phase[c] # "wait", Ahead(c, k)
    PROVE  Ahead(c, k)'
<1> USE DEF dbVars, streamVars
<1>t. /\ TypeOK /\ phase \in [Controllers -> Phases]
      /\ DOMAIN witness \subseteq Controllers
  BY DEF SysInv, SysTypeInv, SysTypeOK, TypeOK
<1>q. latest' = latest /\ phase'[c] # "wait"
  BY StreamOnlyQuiet, StreamOnlyPhase, <1>t DEF Quiet
<1>b. /\ latest[k].id \in Int /\ latest[k].id >= 1
      /\ latest[k].id > UpperBound(c) /\ UpperBound(c) \in Int
  BY StreamBounds DEF Ahead, ReadBound
<1>1. ASSUME UNCHANGED <<change_log, witness, watermarks, lastRecorded>>
      PROVE  Ahead(c, k)'
  <2>1. UpperBound(c)' = UpperBound(c)
    BY <1>1, UpperBoundUnchanged
  <2> QED
    BY <1>1, <1>q, <1>b, <2>1 DEF Ahead, ReadBound
<1>2. CASE SysCreateWatermark(c)
  <2>1. /\ UNCHANGED <<change_log, watermarks, lastRecorded>>
        /\ witness'[c] = IF c \in DOMAIN witness THEN witness[c] ELSE NoView
    BY <1>2 DEF SysCreateWatermark, CreateWatermark
  <2>2. UpperBound(c)' = UpperBound(c)
    BY <2>1, UpperBoundUnchanged
  <2>3. latest[k].id > witness'[c].lower
    BY <2>1, <1>b DEF Ahead, NoView
  <2> QED
    BY <2>1, <2>2, <2>3, <1>q, <1>b DEF Ahead, ReadBound
<1>3. CASE SysReadChanges(c) \/ SysBlock(c)
  BY <1>1, <1>3 DEF SysReadChanges, ReadChanges, SysBlock, Block, Unblock
<1>4. CASE SysUpdateWatermark(c)
  <2>1. /\ WatermarkDue(c) /\ PopWatermark(c) /\ UNCHANGED change_log
        /\ \/ witness' = witness
           \/ witness' = [witness EXCEPT ![c] = Head(watermarks[c])]
    BY <1>4 DEF SysUpdateWatermark, UpdateWatermark, UpdateWatermarkLost
  <2>2. UpperBound(c)' = UpperBound(c)
    BY <2>1, <1>t, PopKeepsUpperBound
  <2>3. /\ Head(watermarks[c]) = watermarks[c][1] /\ 1 \in DOMAIN watermarks[c]
        /\ watermarks[c] \in Seq(Views)
    BY <2>1, <1>t, NumTermWatermarksAssumption DEF WatermarkDue, TypeOK
  <2>4. /\ watermarks[c][1].lower <= watermarks[c][1].upper
        /\ watermarks[c][1].upper <= UpperBound(c)
    BY <2>3 DEF SysInv, DeliveryInv, IInv, StreamInv, BufferBounded
  <2>5. watermarks[c][1] \in Views
    BY <2>3
  <2>6. latest[k].id > Head(watermarks[c]).lower
    BY <2>3, <2>4, <2>5, <1>b DEF Views
  <2>7. c \in DOMAIN witness' => latest[k].id > witness'[c].lower
    BY <2>1, <2>6 DEF Ahead
  <2> QED
    BY <2>1, <2>2, <2>7, <1>q, <1>b DEF Ahead, ReadBound
<1>5. ASSUME StreamDies(c) PROVE FALSE
  BY <1>5, <1>t DEF StreamDies, Die
<1> QED
  BY <1>2, <1>3, <1>4, <1>5 DEF StreamOnly

\* The pruner deletes nothing that is ahead.
LEMMA AheadOfPruner ==
    ASSUME SysInv, NEW c \in Controllers, NEW k \in Keys, SysPrune, Ahead(c, k)
    PROVE  Ahead(c, k)'
<1> USE DEF streamVars
<1>1. UNCHANGED <<witness, phase, term, watermarks, lastRecorded, latest>>
  BY DEF SysPrune, Prune, Quiet
<1>2. UpperBound(c)' = UpperBound(c)
  BY <1>1, UpperBoundUnchanged
<1>3. PICK m : /\ DeleteChangeLog(m)
               /\ \/ m = 0
                  \/ \E d \in LowestWatermarks : m = witness[d].lower
  BY DEF SysPrune, Prune
<1>4. latest[k].id > m
  <2>1. CASE m = 0
    BY <2>1, StreamBounds DEF Ahead
  <2>2. ASSUME NEW d \in LowestWatermarks, m = witness[d].lower
        PROVE  latest[k].id > m
    <3>1. d \in DOMAIN witness /\ d = c
      BY OneStream DEF LowestWatermarks, SysInv, SysTypeInv, SysTypeOK, TypeOK
    <3> QED
      BY <2>2, <3>1 DEF Ahead
  <2> QED
    BY <1>3, <2>1, <2>2
<1> QED
  BY <1>1, <1>2, <1>3, <1>4 DEF Ahead, ReadBound, DeleteChangeLog

\* After a commit its row is ahead, and what was ahead still is.
LEMMA AheadAfterCommit ==
    ASSUME SysInv, NEW c \in Controllers, NEW k \in Keys, NEW e \in Edits,
           Commit(k, e), NEW j \in Keys, j = k \/ Ahead(c, j)
    PROVE  Ahead(c, j)'
<1>1. /\ latest' = [latest EXCEPT ![k] = [id |-> nextId, edit |-> e]]
      /\ UNCHANGED <<witness, phase, term, watermarks, lastRecorded>>
      /\ change_log' = [i \in DOMAIN change_log \union {nextId} |->
                          IF i = nextId THEN [key |-> k, edit |-> e]
                                        ELSE change_log[i]]
  BY DEF Commit, WriteRow, streamVars
<1>2. UpperBound(c)' = UpperBound(c)
  BY <1>1, UpperBoundUnchanged
<1>3. DOMAIN latest = Keys
  BY DEF SysInv, SysTypeInv, SysTypeOK
<1>4. CASE j = k
  <2>1. latest'[j].id = nextId
    BY <1>1, <1>3, <1>4
  <2>2. nextId \in DOMAIN change_log' /\ change_log'[nextId].key = k
    BY <1>1
  <2>3. ReadBound(c)' < nextId
    BY <1>1, <1>2, StreamBounds DEF ReadBound
  <2> QED
    BY <2>1, <2>2, <2>3, <1>1, <1>4, StreamBounds DEF Ahead, ReadBound
<1>5. CASE j # k
  <2>1. latest'[j] = latest[j]
    BY <1>1, <1>3, <1>5
  <2>2. latest[j].id # nextId
    BY <1>5, StreamBounds DEF Ahead
  <2> QED
    BY <1>1, <1>2, <1>5, <2>1, <2>2 DEF Ahead, ReadBound
<1> QED
  BY <1>4, <1>5

\* A change that is ahead when a term is handed on is dispatched with it.
LEMMA AheadHandedOn ==
    ASSUME SysInv, NEW c \in Controllers, HandTerm(c), NEW w \in Watchers,
           NEW k \in Filter[w], k \in Keys, latest[k].edit \in Mask[w],
           w \in registered, Ahead(c, k)
    PROVE  k \in changeSet'[w] \/ Ahead(c, k)'
<1> USE DEF dbVars, streamVars
<1>1. /\ UNCHANGED <<change_log, witness, term, watermarks, lastRecorded, latest>>
      /\ phase[c] = "send" /\ phase' = [phase EXCEPT ![c] = "wait"]
      /\ changeSet'[w] = GatherSubscriptions(w, term[c].changes)
  BY DEF HandTerm, SendTerm, MuxReceiveTerm
<1>2. phase'[c] = "wait"
  BY <1>1 DEF SysInv, SysTypeInv, SysTypeOK, TypeOK
<1> DEFINE i == latest[k].id
<1>3. /\ i \in DOMAIN change_log /\ i \in Int /\ change_log[i].key = k
      /\ i > UpperBound(c) /\ term[c].upper \in Int
      /\ c \in DOMAIN witness => i > witness[c].lower
  BY <1>1, StreamBounds DEF Ahead, ReadBound
<1>4. CASE i > term[c].upper
  BY <1>1, <1>2, <1>3, <1>4 DEF Ahead, ReadBound
<1>5. CASE i <= term[c].upper
  <2>1. KeysCovered(c) /\ LatestInv
    BY DEF SysInv, DeliveryInv, TermInv
  <2>2. PICK e \in term[c].changes : e.key = k /\ e.id >= i
    BY <2>1, <1>1, <1>3, <1>5 DEF KeysCovered
  <2>3. e.id <= i /\ (e.id = i => e.edit = latest[k].edit)
    BY <2>1, <2>2 DEF LatestInv, NoNewer
  <2>4. e.id \in Int
    BY <2>2 DEF SysInv, SysTypeInv, SysTypeOK, TypeOK, Events, Ids
  <2>5. e.edit = latest[k].edit
    BY <2>2, <2>3, <2>4, <1>3
  <2> QED
    BY <2>2, <2>5, <1>1 DEF GatherSubscriptions
<1> QED
  BY <1>3, <1>4, <1>5

\* A completed term moves the bound to where reading had got already.
LEMMA AheadOfFinished ==
    ASSUME SysInv, NEW c \in Controllers, NEW k \in Keys,
           FinishTerm(c) \/ AbortTerm(c), phase'[c] # "down", Ahead(c, k)
    PROVE  Ahead(c, k)'
<1> USE DEF dbVars, streamVars, vars
<1>t. /\ phase \in [Controllers -> Phases] /\ DOMAIN watermarks = Controllers
      /\ watermarks[c] \in Seq(Views) /\ term[c].upper \in Int
      /\ term[c].lower \in Int
  BY DEF SysInv, SysTypeInv, SysTypeOK, TypeOK
<1>1. /\ UNCHANGED <<change_log, witness, latest, lastRecorded>>
      /\ phase[c] = "wait" /\ phase'[c] = "loop"
  BY <1>t DEF FinishTerm, TermDone, AbortTerm, TermAborted
<1>2. /\ latest[k].id > term[c].upper /\ latest[k].id \in Int
      /\ UpperBound(c) \in Int /\ UpperBound(c) < term[c].upper
  BY <1>1, StreamBounds DEF Ahead, ReadBound
<1>3. latest[k].id > UpperBound(c)'
  <2>1. CASE FinishTerm(c)
    <3> DEFINE view == [lower |-> term[c].lower, upper |-> term[c].upper]
               r == RecordTermView(watermarks[c], view)
    <3>1. view \in Views
      BY <1>t DEF Views
    <3>2. watermarks'[c] = r
      BY <2>1, <1>t DEF FinishTerm, TermDone
    <3>3. r # <<>> /\ r[Len(r)] = view
      BY <3>1, <1>t, RecordTermViewFacts
    <3>4. view.upper = term[c].upper
      OBVIOUS
    <3> HIDE DEF view, r
    <3>5. UpperBound(c)' = term[c].upper
      BY <3>2, <3>3, <3>4 DEF UpperBound
    <3> QED
      BY <3>5, <1>2
  <2>2. CASE AbortTerm(c)
    <3>1. UNCHANGED watermarks
      BY <2>2, <1>1 DEF AbortTerm, TermAborted
    <3>2. UpperBound(c)' = UpperBound(c)
      BY <3>1, <1>1, UpperBoundUnchanged
    <3>3. latest[k].id > UpperBound(c)
      BY <1>2, <1>t
    <3> QED
      BY <3>2, <3>3
  <2> QED
    BY <2>1, <2>2
<1> QED
  BY <1>1, <1>3 DEF Ahead, ReadBound

\* A watcher's step informs its client, or leaves ahead what it waits for.
LEMMA WatcherStepAhead ==
    ASSUME SysInv, NEW w \in Watchers, WatcherStep(w),
           UNCHANGED watcherVars \/ OwnStep(w),
           NEW v \in Watchers, NEW c \in Controllers, NEW k \in Filter[v],
           Uninformed(v, k)', subState'[v] = "active", phase'[c] # "down"
    PROVE  k \in changeSet'[v] \/ Ahead(c, k)'
<1>f. /\ UNCHANGED <<change_log, witness, phase, term, watermarks,
                     lastRecorded, latest>>
      /\ UpperBound(c)' = UpperBound(c)
  BY WatcherStepFrame, UpperBoundUnchanged DEF vars, dbVars, streamVars
<1>a. Ahead(c, k) => Ahead(c, k)'
  BY <1>f DEF Ahead, ReadBound
<1>t. /\ subState \in [Watchers -> {"none", "active", "dying"}]
      /\ DOMAIN changeSet = Watchers /\ DOMAIN pending = Watchers
      /\ DOMAIN seen = Watchers /\ wphase \in [Watchers -> WatcherPhases]
      /\ k \in Keys
  BY FilterAssumption
  DEF SysInv, SysTypeInv, SysTypeOK, MuxTypeOK, WatchersTypeOK
<1>o. OfferInv /\ AheadInv
  BY DEF SysInv
<1>h. Uninformed(v, k) /\ subState[v] = "active" =>
          k \in changeSet[v] \/ Ahead(c, k)
  BY <1>o, <1>f DEF AheadInv
<1>u. /\ wphase'[v] \in {"dispatch", "read"} /\ latest[k].edit \in Mask[v]
      /\ seen'[v][k] # latest[k].id /\ k \notin pending'[v]
  BY <1>f DEF Uninformed, Watching
<1>1. CASE w # v
  <2>1. /\ wphase'[v] = wphase[v] /\ pending'[v] = pending[v]
        /\ seen'[v] = seen[v]
    BY <1>1 DEF OwnStep, watcherVars
  <2>2. Uninformed(v, k)
    BY <2>1, <1>u DEF Uninformed, Watching
  <2>3. subState[v] = "active" /\ changeSet'[v] = changeSet[v]
    <3>1. CASE DispatchEnds(w)
      BY <3>1, <1>1, <1>t, DispatchEndsFacts DEF Dispatched
    <3>2. CASE ~DispatchEnds(w)
      BY <3>2, <1>1, <1>t
      DEF WatcherStep, DispatchEnds, SubscribeFails, InitialQuery, ClientReads,
          SubscriptionClosed, ClientRetries, Subscribe, MuxSubscribe,
          WatcherStops, Unsubscribe, muxVars
    <3> QED
      BY <3>1, <3>2
  <2> QED
    BY <2>2, <2>3, <1>h, <1>a
<1>2. CASE w = v
  <2>1. CASE Deliver(v)
    <3>1. /\ Dispatched(v) /\ subState[v] = "active"
          /\ WatcherReceive(v, changeSet[v]) /\ UNCHANGED seen
      BY <2>1 DEF Deliver, MuxDeliver, WatcherReceive
    <3>2. v \notin Notifies
      BY <3>1, <1>u, <1>t DEF WatcherReceive
    <3>3. pending'[v] = changeSet[v] /\ wphase[v] = "read"
      BY <3>1, <3>2, <1>t DEF WatcherReceive
    <3>4. pending[v] = {}
      BY <3>3, <1>o DEF OfferInv
    <3>5. Uninformed(v, k)
      BY <3>1, <3>3, <3>4, <1>u DEF Uninformed, Watching
    <3> QED
      BY <3>1, <3>3, <3>5, <1>u, <1>h, <1>a
  <2>2. ASSUME WatcherInitial(v, Existing, Current) PROVE FALSE
    <3>1. CASE v \in Notifies
      BY <2>2, <3>1, <1>u, <1>t DEF WatcherInitial
    <3>2. CASE v \notin Notifies
      <4>1. seen'[v][k] = Current[k]
        BY <2>2, <3>2, <1>t DEF WatcherInitial
      <4> QED
        BY <4>1, <1>u, <1>t DEF Current
    <3> QED
      BY <3>1, <3>2
  <2>3. ASSUME SkipDying(v) \/ DispatchTimeout(v) PROVE FALSE
    BY <2>3, <1>t DEF SkipDying, DispatchTimeout, MuxUnsubscribing,
                      MuxDispatchTimeout
  <2>4. ASSUME WatcherSubscribed(v) \/ WatcherDie(v) \/ WatcherRestart(v)
        PROVE  FALSE
    BY <2>4, <1>u, <1>t DEF WatcherSubscribed, WatcherDie, WatcherRestart
  <2>5. CASE ClientReads(v)
    <3>1. /\ ClientReceive(v, Current) /\ UNCHANGED <<changeSet, subState>>
      BY <2>5 DEF ClientReads, muxVars
    <3>2. seen'[v][k] = IF k \in pending[v] THEN Current[k] ELSE seen[v][k]
      BY <3>1, <1>t DEF ClientReceive
    <3>3. k \notin pending[v] /\ seen[v][k] # latest[k].id
      BY <3>2, <1>u, <1>t DEF Current
    <3>4. Uninformed(v, k)
      BY <3>1, <3>3, <1>u DEF Uninformed, Watching, ClientReceive
    <3> QED
      BY <3>1, <3>4, <1>h, <1>a
  <2> QED
    BY <1>2, <2>1, <2>2, <2>3, <2>4, <2>5
    DEF WatcherStep, Drain, WatcherDrain, InitialQuery, Subscribe,
        SubscribeFails, SubscriptionClosed, WatcherStops, ClientRetries
<1> QED
  BY <1>1, <1>2

\* What an uninformed client waits for is being dispatched or still ahead.
LEMMA AheadStep ==
    ASSUME SysInv, [SysNext]_sysVars
    PROVE  AheadInv'
<1> SUFFICES ASSUME NEW v \in Watchers, NEW c \in Controllers,
                    NEW k \in Filter[v], Uninformed(v, k)',
                    subState'[v] = "active", phase'[c] # "down"
             PROVE  k \in changeSet'[v] \/ Ahead(c, k)'
  BY DEF AheadInv
<1>t. /\ k \in Keys /\ TypeOK /\ TermHandshake /\ MuxIdle /\ SubscriptionInv
      /\ AheadInv /\ SysTypeInv /\ DOMAIN latest = Keys
      /\ phase \in [Controllers -> Phases]
  BY FilterAssumption DEF SysInv, SysTypeInv, SysTypeOK, TypeOK
<1>q. ASSUME UNCHANGED <<watcherVars>>, latest'[k] = latest[k],
             subState[v] = "active", phase[c] # "down"
      PROVE  /\ latest[k].edit \in Mask[v]
             /\ k \in changeSet[v] \/ Ahead(c, k)
  <2>1. Uninformed(v, k)
    BY <1>q DEF Uninformed, Watching, watcherVars
  <2> QED
    BY <2>1, <1>q, <1>t DEF AheadInv, Uninformed
<1>1. ASSUME NEW j \in Keys, NEW e \in Edits, Commit(j, e)
      PROVE  k \in changeSet'[v] \/ Ahead(c, k)'
  <2>1. CASE j = k
    BY <1>1, <2>1, <1>t, AheadAfterCommit
  <2>2. CASE j # k
    <3>1. /\ latest'[k] = latest[k]
          /\ UNCHANGED <<watcherVars, changeSet, subState, phase>>
      BY <1>1, <2>2, <1>t DEF Commit, muxVars, streamVars
    <3>2. k \in changeSet[v] \/ Ahead(c, k)
      BY <3>1, <1>q
    <3> QED
      BY <1>1, <3>1, <3>2, <1>t, AheadAfterCommit
  <2> QED
    BY <2>1, <2>2
<1>2. CASE SysPrune
  <2>1. UNCHANGED <<watcherVars, changeSet, subState, phase, latest>>
    BY <1>2 DEF SysPrune, Prune, Quiet, muxVars, streamVars
  <2>2. k \in changeSet[v] \/ Ahead(c, k)
    BY <2>1, <1>q
  <2> QED
    BY <1>2, <2>1, <2>2, <1>t, AheadOfPruner
<1>3. ASSUME NEW d \in Controllers, StreamOnly(d)
      PROVE  k \in changeSet'[v] \/ Ahead(c, k)'
  <2>1. c = d /\ UNCHANGED <<watcherVars, changeSet, subState, latest>>
    BY <1>3, OneStream, StreamOnlyQuiet DEF Quiet, muxVars
  <2>2. phase[c] # "down" /\ phase[c] # "wait"
    BY <1>3, <2>1, <1>t, StreamOnlyPhase
  <2>3. k \in changeSet[v] \/ Ahead(c, k)
    BY <2>1, <2>2, <1>q
  <2> QED
    BY <1>3, <2>1, <2>2, <2>3, <1>t, AheadOfStream
<1>4. ASSUME NEW d \in Controllers, MuxStep(d)
      PROVE  k \in changeSet'[v] \/ Ahead(c, k)'
  <2>1. c = d /\ UNCHANGED <<watcherVars, latest, subState>>
    BY <1>4, OneStream
    DEF MuxStep, HandTerm, FinishTerm, AbortTerm, NewWatchableDB,
        MuxReceiveTerm, MuxTermFinished, MuxStart
  <2>2. subState[v] = "active" /\ v \in registered
    BY <2>1, <1>t DEF SubscriptionInv
  <2>3. CASE HandTerm(d)
    <3>1. phase[c] # "down" /\ changeSet = NoChanges
      BY <2>1, <2>3, <1>t DEF HandTerm, SendTerm, MuxReceiveTerm, MuxIdle
    <3>2. Ahead(c, k) /\ latest[k].edit \in Mask[v]
      BY <2>1, <2>2, <3>1, <1>q DEF NoChanges
    <3> QED
      BY <2>1, <2>2, <2>3, <3>2, <1>t, AheadHandedOn
  <2>4. CASE FinishTerm(d) \/ AbortTerm(d)
    <3>1. phase[c] # "down" /\ changeSet = NoChanges
      BY <2>1, <2>4, <1>t
      DEF FinishTerm, TermDone, AbortTerm, TermAborted, MuxTermFinished,
          MuxIdle, vars, streamVars
    <3>2. Ahead(c, k)
      BY <2>1, <2>2, <3>1, <1>q DEF NoChanges
    <3> QED
      BY <2>1, <2>4, <3>2, <1>t, AheadOfFinished
  <2>5. ASSUME NewWatchableDB(d) PROVE FALSE
    BY <2>2, <2>5, <1>t DEF NewWatchableDB, MuxStart, MuxIdle
  <2> QED
    BY <1>4, <2>3, <2>4, <2>5 DEF MuxStep
<1>5. ASSUME UNCHANGED <<vars, watcherVars, latest, changeSet, subState>>
      PROVE  k \in changeSet'[v] \/ Ahead(c, k)'
  <2>1. /\ UNCHANGED <<change_log, witness, phase, term>>
        /\ UpperBound(c)' = UpperBound(c)
    BY <1>5, UpperBoundUnchanged DEF vars, dbVars, streamVars
  <2>2. k \in changeSet[v] \/ Ahead(c, k)
    BY <1>5, <2>1, <1>q
  <2> QED
    BY <1>5, <2>1, <2>2 DEF Ahead, ReadBound
<1>6. ASSUME NEW d \in Controllers, KillWatchableDB(d)
      PROVE  UNCHANGED <<vars, watcherVars, latest, changeSet, subState>>
  BY <1>6 DEF KillWatchableDB, muxVars
<1>7. CASE UNCHANGED watcherVars \/ \E w \in Watchers : WatcherStep(w) /\ OwnStep(w)
  <2>1. ASSUME NEW w \in Watchers, WatcherStep(w)
        PROVE  k \in changeSet'[v] \/ Ahead(c, k)'
    <3>1. CASE UNCHANGED watcherVars
      BY <2>1, <3>1, WatcherStepAhead
    <3>2. ASSUME NEW u \in Watchers, WatcherStep(u), OwnStep(u)
          PROVE  k \in changeSet'[v] \/ Ahead(c, k)'
      BY <3>2, WatcherStepAhead
    <3> QED
      BY <1>7, <3>1, <3>2
  <2> QED
    BY <2>1, <1>1, <1>2, <1>3, <1>4, <1>5, <1>6, SysCases, <1>t
    DEF sysVars, muxVars, MuxDies, MuxExit, SubscriptionInv
<1> QED
  BY <1>7, <1>t, WatcherMoves

-----------------------------------------------------------------------------
(* The theorems.                                                           *)

\* The invariant holds always.
LEMMA SysInvariant == SysSpec => []SysInv
<1>1. SysInit => SysInv
  <2> SUFFICES ASSUME SysInit PROVE SysInv
    OBVIOUS
  <2>1. DeliveryInv
    <3>1. IInv
      BY InitIInv DEF SysInit
    <3>2. ASSUME NEW c \in Controllers PROVE TermInv(c)
      BY DEF SysInit, Init, TermInv, ViewsOrdered, TermHeld, KeysCovered
    <3> QED
      BY <3>1, <3>2 DEF DeliveryInv
  <2>2. SysTypeInv
    BY <2>1
    DEF SysInit, SysTypeInv, SysTypeOK, DeliveryInv, IInv, MuxInit, MuxTypeOK,
        MuxPhases, NoChanges, WatchersInit, WatchersTypeOK, WatcherPhases,
        NothingSeen
  <2>3. TermHandshake /\ MuxIdle /\ SubscriptionInv /\ OfferInv
    BY DEF SysInit, Init, MuxInit, WatchersInit, TermHandshake, MuxIdle,
           SubscriptionInv, OfferInv
  <2>4. LatestInv
    BY DEF SysInit, Init, NoTerm, LatestInv
  <2>5. AheadInv
    BY DEF SysInit, Init, AheadInv
  <2> QED
    BY <2>1, <2>2, <2>3, <2>4, <2>5 DEF SysInv
<1>2. SysInv /\ [SysNext]_sysVars => SysInv'
  <2> SUFFICES ASSUME SysInv, [SysNext]_sysVars PROVE SysInv'
    OBVIOUS
  <2>1. DeliveryInv' /\ SysTypeInv'
    BY StreamInvariantsKept, SysTypeStep DEF SysInv
  <2> QED
    BY <2>1, HandshakeStep, MuxIdleStep, SubscriptionStep, OfferStep,
       LatestStep, AheadStep
    DEF SysInv
<1> QED
  BY <1>1, <1>2, PTL DEF SysSpec

(* The composed state is well typed; in particular the multiplexer         *)
(* dispatches to a subscription only keys it asked for (gatherSubscriptions *)
(* by namespace and predicate), and a watcher offers only those.           *)
THEOREM SystemTypes == SysSpec => []SysTypeOK
<1>1. SysInv => SysTypeOK
  BY DEF SysInv, SysTypeInv
<1> QED
  BY <1>1, SysInvariant, PTL

(* The multiplexer is dispatching or finishing a term exactly while its    *)
(* stream waits for that term, or has died waiting: no term is completed   *)
(* under a dispatch, whoever is killed first.                              *)
THEOREM HandshakeHolds == SysSpec => []TermHandshake
<1>1. SysInv => TermHandshake
  BY DEF SysInv
<1> QED
  BY <1>1, SysInvariant, PTL

(* A watcher that runs on a live subscription is registered with the       *)
(* multiplexer: the clean-up at the top of its loop, its exit and a        *)
(* subscription made anew never leave one behind that nobody serves.       *)
THEOREM LiveSubscriptionServed == SysSpec => []WatchedIsRegistered
<1>1. SysInv => WatchedIsRegistered
  BY DEF SysInv, SubscriptionInv, WatchedIsRegistered
<1> QED
  BY <1>1, SysInvariant, PTL

(* No lost updates, for any number of watchers, keys and commits: a client *)
(* whose knowledge is out of date is being offered the key, is being       *)
(* dispatched it, or the change is in the log where the stream will read   *)
(* it; or its subscription or its stream has died.                         *)
THEOREM NoUpdateLost == SysSpec => []NoLostUpdate
<1>1. SysInv => NoLostUpdate
  <2> SUFFICES ASSUME SysInv, NEW w \in Watchers, NEW c \in Controllers,
                      NEW k \in Filter[w], Uninformed(w, k),
                      subState[w] = "active", phase[c] # "down",
                      k \notin changeSet[w]
               PROVE  \E i \in NotYetRead(c) : change_log[i].key = k
    BY DEF NoLostUpdate
  <2>1. Ahead(c, k)
    BY DEF SysInv, AheadInv
  <2> QED
    BY <2>1 DEF Ahead, ReadBound, NotYetRead
<1> QED
  BY <1>1, SysInvariant, PTL
=============================================================================
