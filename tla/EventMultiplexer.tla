-------------------------- MODULE EventMultiplexer --------------------------
(***************************************************************************)
(* The event multiplexer of one WatchableDB: it takes the change stream's  *)
(* terms one at a time, works out which subscriptions each change is for,  *)
(* dispatches to them in parallel and marks the term done.                 *)
(*                                                                         *)
(* Each watcher has one subscription at a time, so a subscription is named *)
(* by its watcher. Its filters (namespaces, predicate) are the set of keys *)
(* they let through and its change mask a set of edit types. The actions   *)
(* are halves of channel operations; ChangeNotification joins them with    *)
(* the stream's and the watchers' halves.                                  *)
(***************************************************************************)
EXTENDS Integers, FiniteSets

CONSTANTS
    Watchers,   \* watchers, and by name their subscriptions
    Filter,     \* Filter[w]: the keys w's subscription options let through
    Mask        \* Mask[w]: the edit types of w's change mask

VARIABLES
    muxPhase,       \* where the loop is
    registered,     \* EventMultiplexer.subscriptions
    changeSet,      \* the keys still to be dispatched, per subscription
    subState        \* the subscription's tomb: none, active or dying

muxVars == <<muxPhase, registered, changeSet, subState>>

(* "select": waiting for a term or a request. "dispatch": in dispatchSet.  *)
(* "finish": calling term.Done. "dead": the loop has returned.             *)
MuxPhases == {"select", "dispatch", "finish", "dead"}

NoChanges == [w \in Watchers |-> {}]

MuxInit ==
    /\ muxPhase = "dead"
    /\ registered = {}
    /\ changeSet = NoChanges
    /\ subState = [w \in Watchers |-> "none"]

\* A new multiplexer, with no subscriptions.
MuxStart ==
    /\ muxPhase = "dead"
    /\ muxPhase' = "select"
    /\ UNCHANGED <<registered, changeSet, subState>>

\* Mutant of Alive: the loop forgets the live subscriptions.
AliveInverted(subs) == {w \in subs : subState[w] = "dying"}

\* cleanupDeadSubscriptions, at the top of every turn of the loop.
Alive(subs) == {w \in subs : subState[w] # "dying"}

\* Mutant of GatherSubscriptions: by change mask only, not by namespace.
GatherSubscriptionsByMask(w, changes) ==
    {e.key : e \in {x \in changes : x.edit \in Mask[w]}}

\* The keys of a term's changes that gatherSubscriptions routes to w.
GatherSubscriptions(w, changes) ==
    {e.key : e \in {x \in changes : x.key \in Filter[w] /\ x.edit \in Mask[w]}}

\* Mutant of MuxReceiveTerm: a term that is for nobody is not marked done.
MuxReceiveTermForgotten(changes) ==
    /\ muxPhase = "select"
    /\ changeSet' = [w \in Watchers |->
                       IF w \in registered
                       THEN GatherSubscriptions(w, changes) ELSE {}]
    /\ muxPhase' = IF changeSet' = NoChanges THEN "select" ELSE "dispatch"
    /\ UNCHANGED <<registered, subState>>

\* A term arrives. One that is for nobody is done at once.
MuxReceiveTerm(changes) ==
    /\ muxPhase = "select"
    /\ changeSet' = [w \in Watchers |->
                       IF w \in registered
                       THEN GatherSubscriptions(w, changes) ELSE {}]
    /\ muxPhase' = IF changeSet' = NoChanges THEN "finish" ELSE "dispatch"
    /\ UNCHANGED <<registered, subState>>

\* One of dispatchSet's goroutines ends; with the last one, so does the set.
Dispatched(w) ==
    /\ muxPhase = "dispatch"
    /\ changeSet[w] # {}
    /\ changeSet' = [changeSet EXCEPT ![w] = {}]
    /\ muxPhase' = IF changeSet' = NoChanges THEN "finish" ELSE "dispatch"
    /\ UNCHANGED registered

\* The subscriber takes the changes.
MuxDeliver(w) ==
    /\ Dispatched(w)
    /\ UNCHANGED subState

\* The subscriber is unsubscribing: skip it.
MuxUnsubscribing(w) ==
    /\ subState[w] = "dying"
    /\ Dispatched(w)
    /\ UNCHANGED subState

\* Mutant of MuxDispatchTimeout: the slow subscription is left alive.
MuxDispatchTimeoutSpared(w) ==
    /\ Dispatched(w)
    /\ UNCHANGED subState

\* The subscriber did not take them in time (or we are dying): kill it.
MuxDispatchTimeout(w) ==
    /\ Dispatched(w)
    /\ subState' = [subState EXCEPT ![w] = "dying"]

\* term.Done has been received, or aborted: back to the top of the loop.
MuxTermFinished ==
    /\ muxPhase = "finish"
    /\ muxPhase' = "select"
    /\ registered' = Alive(registered)
    /\ UNCHANGED <<changeSet, subState>>

\* A subscription request: register a new subscription with its filters.
MuxSubscribe(w) ==
    /\ muxPhase = "select"
    /\ registered' = Alive(registered \ {w}) \union {w}
    /\ subState' = [subState EXCEPT ![w] = "active"]
    /\ UNCHANGED <<muxPhase, changeSet>>

\* The watcher goes away and kills its subscription.
Unsubscribe(w) ==
    /\ subState' = [subState EXCEPT
                      ![w] = IF @ = "active" THEN "dying" ELSE @]
    /\ UNCHANGED <<muxPhase, registered, changeSet>>

\* The loop returns: every subscription is killed.
MuxExit ==
    /\ muxPhase = "select"
    /\ muxPhase' = "dead"
    /\ subState' = [w \in Watchers |->
                      IF w \in registered THEN "dying" ELSE subState[w]]
    /\ registered' = {}
    /\ UNCHANGED changeSet

(* Types; nothing is dispatched to a subscription that did not ask for it. *)
MuxTypeOK ==
    /\ muxPhase \in MuxPhases
    /\ registered \subseteq Watchers
    /\ DOMAIN changeSet = Watchers
    /\ \A w \in Watchers : changeSet[w] \subseteq Filter[w]
    /\ subState \in [Watchers -> {"none", "active", "dying"}]
=============================================================================
