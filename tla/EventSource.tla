---------------------------- MODULE EventSource ----------------------------
(***************************************************************************)
(* The watchers of package eventsource on top of a subscription, and the   *)
(* clients that read them.                                                 *)
(*                                                                         *)
(* NamespaceWatcher  sends the keys an initial query found, then the keys  *)
(*                   that changed; while it has some to send it does not   *)
(*                   read its subscription.                                *)
(* NotifyWatcher     sends an empty notification, at once and after each   *)
(*                   change; it reads its subscription all the time.       *)
(*                                                                         *)
(* A client that is told of a key reads it from the database: "seen" is    *)
(* the newest change it has read. The clients read at the moment they are  *)
(* told, the earliest and so the least favourable one.                     *)
(***************************************************************************)
EXTENDS EventMultiplexer

CONSTANT Notifies   \* the watchers that are NotifyWatchers

VARIABLES
    wphase,     \* where the watcher's loop is
    pending,    \* the keys it offers on its out channel
    seen        \* seen[w][k]: the last change of k the client has read

watcherVars == <<wphase, pending, seen>>

(* "new": not subscribed yet. "init": subscribed, before the initial query *)
(* (or, in a NotifyWatcher, before drainInitialEvent). "dispatch": out is  *)
(* open. "read": out is nil. "dead": the loop has returned.                *)
WatcherPhases == {"new", "init", "dispatch", "read", "dead"}

NothingSeen(w) == [k \in Filter[w] |-> 0]

WatchersInit ==
    /\ wphase = [w \in Watchers |-> "new"]
    /\ pending = [w \in Watchers |-> {}]
    /\ seen = [w \in Watchers |-> NothingSeen(w)]

\* Subscribe returned a subscription.
WatcherSubscribed(w) ==
    /\ wphase[w] = "new"
    /\ wphase' = [wphase EXCEPT ![w] = "init"]
    /\ UNCHANGED <<pending, seen>>

(* The initial query: rows are the keys that exist, current the newest     *)
(* change of every key. What is not in the answer the client knows to be   *)
(* absent. The NotifyWatcher has none: its first notification stands for   *)
(* everything it is about.                                                 *)
WatcherInitial(w, rows, current) ==
    /\ wphase[w] = "init"
    /\ wphase' = [wphase EXCEPT ![w] = "dispatch"]
    /\ IF w \in Notifies
       THEN /\ pending' = [pending EXCEPT ![w] = Filter[w]]
            /\ UNCHANGED seen
       ELSE /\ pending' = [pending EXCEPT ![w] = rows \intersect Filter[w]]
            /\ seen' = [seen EXCEPT ![w] = [k \in Filter[w] |-> current[k]]]

\* drainInitialEvent throws away what was being dispatched to it.
WatcherDrain(w, rows, current) ==
    /\ w \in Notifies
    /\ WatcherInitial(w, rows, current)

\* The loop receives changes from the subscription.
WatcherReceive(w, keys) ==
    /\ wphase[w] \in IF w \in Notifies THEN {"dispatch", "read"} ELSE {"read"}
    /\ wphase' = [wphase EXCEPT ![w] = "dispatch"]
    /\ pending' = [pending EXCEPT
                     ![w] = IF w \in Notifies THEN Filter[w] ELSE keys]
    /\ UNCHANGED seen

\* The client receives what is offered and reads those keys.
ClientReceive(w, current) ==
    /\ wphase[w] = "dispatch"
    /\ wphase' = [wphase EXCEPT ![w] = "read"]
    /\ pending' = [pending EXCEPT ![w] = {}]
    /\ seen' = [seen EXCEPT
                  ![w] = [k \in Filter[w] |->
                            IF k \in pending[w] THEN current[k] ELSE @[k]]]

\* The loop returns: its tomb or its subscription is dying, or an error.
WatcherDie(w) ==
    /\ wphase[w] # "dead"
    /\ wphase' = [wphase EXCEPT ![w] = "dead"]
    /\ pending' = [pending EXCEPT ![w] = {}]
    /\ seen' = [seen EXCEPT ![w] = NothingSeen(w)]

\* The client makes a new watcher in place of the dead one.
WatcherRestart(w) ==
    /\ wphase[w] = "dead"
    /\ wphase' = [wphase EXCEPT ![w] = "new"]
    /\ UNCHANGED <<pending, seen>>

(* Types; a watcher offers, and its client reads, only what it watches.    *)
WatchersTypeOK ==
    /\ wphase \in [Watchers -> WatcherPhases]
    /\ \A w \in Watchers : pending[w] \subseteq Filter[w]
    /\ \A w \in Watchers : seen[w] \in [Filter[w] -> Nat]
=============================================================================
