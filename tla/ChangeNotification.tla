------------------------- MODULE ChangeNotification -------------------------
(***************************************************************************)
(* From a committed write to the client that has to hear of it: the change *)
(* log, one controller's change stream, its event multiplexer, and the     *)
(* watchers subscribed to it. The stream and the multiplexer live and die  *)
(* together in a WatchableDB.                                              *)
(*                                                                         *)
(* ChangeStream covers several controllers and the pruner; here one is     *)
(* enough, as controllers only meet in the log and the witness table.      *)
(***************************************************************************)
EXTENDS ChangeStream, EventSource

ASSUME OneControllerAssumption == \E c \in Controllers : Controllers = {c}
ASSUME NotifiesAssumption == Notifies \subseteq Watchers
ASSUME FilterAssumption == \A w \in Watchers : Filter[w] \subseteq Keys
ASSUME MaskAssumption == \A w \in Watchers : Mask[w] \subseteq Edits

VARIABLES
    latest,     \* latest[k]: the newest change of k, [id, edit]
    killed      \* WatchableDB's catacomb is dying

sysVars == <<vars, muxVars, watcherVars, latest, killed>>

Existing == {k \in Keys : latest[k].edit \in {"create", "update"}}
Current == [k \in Keys |-> latest[k].id]

SysInit ==
    /\ Init /\ MuxInit /\ WatchersInit
    /\ latest = [k \in Keys |-> [id |-> 0, edit |-> "none"]]
    /\ killed = TRUE

(* Some transaction changes the row k.                                     *)
Commit(k, e) ==
    /\ e = "create" <=> k \notin Existing
    /\ WriteRow(k, e)
    /\ latest' = [latest EXCEPT ![k] = [id |-> nextId, edit |-> e]]
    /\ UNCHANGED <<witness, streamVars, muxVars, watcherVars, killed>>

Quiet == UNCHANGED <<muxVars, watcherVars, latest, killed>>

SysPrune == Prune /\ Quiet

\* Steps of the stream that its consumer does not notice.
SysCreateWatermark(c) == CreateWatermark(c) /\ Quiet
SysReadChanges(c) == ReadChanges(c) /\ Quiet
SysUpdateWatermark(c) == (UpdateWatermark(c) \/ UpdateWatermarkLost(c)) /\ Quiet
SysBlock(c) == (Block(c) \/ Unblock(c)) /\ Quiet

\* The term crosses the terms channel.
HandTerm(c) ==
    /\ SendTerm(c) /\ MuxReceiveTerm(term[c].changes)
    /\ UNCHANGED <<watcherVars, latest, killed>>

\* The changes cross the subscription's channel.
Deliver(w) ==
    /\ MuxDeliver(w) /\ WatcherReceive(w, changeSet[w])
    /\ UNCHANGED <<vars, latest, killed>>

Drain(w) ==
    /\ MuxDeliver(w) /\ WatcherDrain(w, Existing, Current)
    /\ UNCHANGED <<vars, latest, killed>>

SkipDying(w) ==
    MuxUnsubscribing(w) /\ UNCHANGED <<vars, watcherVars, latest, killed>>

DispatchTimeout(w) ==
    MuxDispatchTimeout(w) /\ UNCHANGED <<vars, watcherVars, latest, killed>>

\* term.Done: the stream takes the answer, or, when dying, the term is closed.
FinishTerm(c) ==
    /\ TermDone(c) /\ MuxTermFinished
    /\ UNCHANGED <<watcherVars, latest, killed>>

AbortTerm(c) ==
    /\ killed
    /\ TermAborted(c) \/ (phase[c] = "down" /\ UNCHANGED vars)
    /\ MuxTermFinished
    /\ UNCHANGED <<watcherVars, latest, killed>>

Subscribe(w) ==
    /\ ~killed
    /\ MuxSubscribe(w) /\ WatcherSubscribed(w)
    /\ UNCHANGED <<vars, latest, killed>>

SubscribeFails(w) ==
    /\ killed
    /\ wphase[w] = "new"
    /\ WatcherDie(w)
    /\ UNCHANGED <<vars, muxVars, latest, killed>>

InitialQuery(w) ==
    /\ WatcherInitial(w, Existing, Current)
    /\ UNCHANGED <<vars, muxVars, latest, killed>>

ClientReads(w) ==
    /\ ClientReceive(w, Current)
    /\ UNCHANGED <<vars, muxVars, latest, killed>>

\* The watcher sees that its subscription is dying.
SubscriptionClosed(w) ==
    /\ wphase[w] \in {"dispatch", "read"}
    /\ subState[w] = "dying"
    /\ WatcherDie(w)
    /\ UNCHANGED <<vars, muxVars, latest, killed>>

\* The watcher is killed by its client or fails, and kills its subscription.
WatcherStops(w) ==
    /\ wphase[w] \notin {"new", "dead"}
    /\ WatcherDie(w) /\ Unsubscribe(w)
    /\ UNCHANGED <<vars, latest, killed>>

ClientRetries(w) ==
    WatcherRestart(w) /\ UNCHANGED <<vars, muxVars, latest, killed>>

-----------------------------------------------------------------------------
(* The WatchableDB worker *)

StreamDies(c) == Die(c) /\ Quiet

\* A stream that failed, a dead database or Kill: the catacomb is dying.
KillWatchableDB(c) ==
    /\ ~killed
    /\ killed' = TRUE
    /\ UNCHANGED <<vars, muxVars, watcherVars, latest>>

MuxDies ==
    /\ killed
    /\ MuxExit
    /\ UNCHANGED <<vars, watcherVars, latest, killed>>

\* The change stream worker makes a new WatchableDB.
NewWatchableDB(c) ==
    /\ killed
    /\ StartStream(c) /\ MuxStart
    /\ killed' = FALSE
    /\ UNCHANGED <<watcherVars, latest>>

SysNext ==
    \/ \E k \in Keys, e \in Edits : Commit(k, e)
    \/ SysPrune
    \/ \E c \in Controllers :
          \/ SysCreateWatermark(c) \/ SysReadChanges(c)
          \/ SysUpdateWatermark(c) \/ SysBlock(c)
          \/ HandTerm(c) \/ FinishTerm(c) \/ AbortTerm(c)
          \/ StreamDies(c) \/ KillWatchableDB(c) \/ NewWatchableDB(c)
    \/ \E w \in Watchers :
          \/ Deliver(w) \/ Drain(w) \/ SkipDying(w) \/ DispatchTimeout(w)
          \/ Subscribe(w) \/ SubscribeFails(w) \/ InitialQuery(w)
          \/ ClientReads(w) \/ SubscriptionClosed(w)
          \/ WatcherStops(w) \/ ClientRetries(w)
    \/ MuxDies

(* The workers' goroutines run, the dispatch timer fires, and a worker     *)
(* that failed takes its catacomb down. Nothing is assumed of the clients, *)
(* of the database's writers, or of the operator who blocks the stream.    *)
SysFairness ==
    /\ \A c \in Controllers :
          /\ WF_sysVars(SysCreateWatermark(c)) /\ WF_sysVars(SysReadChanges(c))
          /\ WF_sysVars(HandTerm(c))
          /\ WF_sysVars(FinishTerm(c)) /\ WF_sysVars(AbortTerm(c))
          /\ WF_sysVars(killed /\ StreamDies(c))
          /\ WF_sysVars(phase[c] = "down" /\ KillWatchableDB(c))
    /\ \A w \in Watchers :
          /\ WF_sysVars(Deliver(w) \/ Drain(w) \/ SkipDying(w) \/ DispatchTimeout(w))
          /\ WF_sysVars(SubscriptionClosed(w))
    /\ WF_sysVars(MuxDies)

SysSpec == SysInit /\ [][SysNext]_sysVars
FairSysSpec == SysSpec /\ SysFairness

-----------------------------------------------------------------------------
(* Properties *)

(* Types of the composed state: the log, the stream, the multiplexer (whose *)
(* dispatches carry only keys their subscription asked for), the watchers.  *)
SysTypeOK ==
    /\ TypeOK /\ MuxTypeOK /\ WatchersTypeOK
    /\ latest \in [Keys -> [id : Nat, edit : Edits \union {"none"}]]
    /\ killed \in BOOLEAN

Watching(w) == wphase[w] \in {"dispatch", "read"}

(* The client of w should know of the newest change of k, does not, and is *)
(* not being offered it either.                                            *)
Uninformed(w, k) ==
    /\ Watching(w)
    /\ latest[k].edit \in Mask[w]
    /\ seen[w][k] # latest[k].id
    /\ k \notin pending[w]

\* Rows the stream has read neither into a completed term nor the one in hand.
NotYetRead(c) ==
    {i \in DOMAIN change_log :
        i > IF phase[c] = "wait" THEN term[c].upper ELSE UpperBound(c)}

(* No lost updates: a client whose knowledge of a key is out of date is    *)
(* being offered the key, is about to be by the dispatch under way, or the *)
(* change is still ahead in the log; unless its subscription or the stream *)
(* has died, which the client gets to know. This is what the watchers'     *)
(* order (subscribe, then query), the stream's bound (moved only once a    *)
(* term is done) and the pruner have to ensure together.                   *)
NoLostUpdate ==
    \A w \in Watchers, c \in Controllers : \A k \in Filter[w] :
        Uninformed(w, k) /\ subState[w] = "active" /\ phase[c] # "down" =>
            \/ k \in changeSet[w]
            \/ \E i \in NotYetRead(c) : change_log[i].key = k

(* The multiplexer holds a term exactly while the stream waits for it (or  *)
(* has died waiting): a term is completed only after its dispatches ended. *)
TermHandshake ==
    \A c \in Controllers :
        /\ phase[c] = "wait" => muxPhase \in {"dispatch", "finish"}
        /\ muxPhase \in {"dispatch", "finish"} => phase[c] \in {"wait", "down"}

(* A watcher that runs on a live subscription is known to the multiplexer; *)
(* otherwise it would wait for ever for changes that nobody sends it.      *)
WatchedIsRegistered ==
    \A w \in Watchers :
        wphase[w] \in {"init", "dispatch", "read"} /\ subState[w] = "active"
            => w \in registered

(* Every client that watches is eventually offered the newest change it    *)
(* asked for, or finds its watcher dead; unless the operator blocks the    *)
(* change stream.                                                          *)
EventuallyInformed ==
    \A w \in Watchers, c \in Controllers : \A k \in Filter[w] :
        Uninformed(w, k) ~> (~Uninformed(w, k) \/ phase[c] = "blocked")
=============================================================================
