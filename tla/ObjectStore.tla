---------------------------- MODULE ObjectStore ----------------------------
(***************************************************************************)
(* The object store of one model in a set of controllers, and its move     *)
(* from files to S3.  Each controller has a store worker (file or S3), one *)
(* request at a time in its loop, a fortress around writes, and a worker   *)
(* that follows the drain: the drainer on the primary, the guard on the    *)
(* others.  The fortress is used by its contract, GuardedAccess.           *)
(*                                                                         *)
(* The lock on a hash is not a state of this model: it is a lease in the   *)
(* object-store namespace, which has no lease type, so that a claim writes *)
(* no row and always succeeds (LeaseStore's ClaimLease).                   *)
(***************************************************************************)
EXTENDS Naturals, FiniteSets

CONSTANTS Controllers,
          Primary,      \* the controller with the singular lease at first
          Paths,        \* what clients name blobs by
          Hashes,       \* the contents
          None,
          MaxAttempts,  \* drainWorker.maxRetries
          MaxFaults,    \* bound: workers that die or change their role
          MaxRequests   \* bound: requests the stores take

ASSUME ObjectStoreAssumption ==
  Primary \in Controllers /\ None \notin Hashes \cup Controllers \cup Paths
  /\ MaxAttempts \in Nat \ {0} /\ MaxFaults \in Nat
  /\ MaxRequests \in Nat

VARIABLES
  \* the controller and model databases
  meta,      \* path -> hash: the rows of object_store_metadata(_path)
  drain,     \* the phase of the row of object_store_drain_info, "none" without
  fileLife,  \* life of the file backend; the S3 backend is alive once it is not
  \* where the blobs are
  files,     \* the files in each controller's directory
  bucket,    \* the objects in the S3 bucket
  \* in each controller
  store,     \* the running store worker: "none", "file" or "s3"
  req,       \* the request in its loop
  asked,     \* how many requests the stores have taken
  gate,      \* the fortress lets visits in
  role,      \* "drainer" or "guard": which of the two workers runs
  sync,      \* where that worker is
  dirty,     \* its watcher has an event for it
  faults,
  \* history
  early,     \* rows that were there when the drain began and still are
  acked      \* path -> the controller whose file store acknowledged the row

dbVars == <<meta, drain, fileLife>>
blobVars == <<files, bucket>>
storeVars == <<store, req, asked>>
syncVars == <<role, sync, dirty, faults>>
vars == <<dbVars, blobVars, storeVars, gate, syncVars, early, acked>>

\* A request in a store's loop.  refs: for prune, the hashes it has listed, then
\* those it will delete.  caller: its client still waits for the answer.
RequestSet ==
  [op : {"none", "put", "remove", "prune"},
   at : {"", "persist", "row", "refs", "blob", "blobs", "delete"},
   path : Paths \cup {None}, hash : Hashes \cup {None}, refs : SUBSET Hashes,
   caller : BOOLEAN]
NoReq == [op |-> "none", at |-> "", path |-> None, hash |-> None, refs |-> {}, caller |-> FALSE]

\* Where a drainer is once it has read that a drain is under way.
DrainPcs == {"lockToDrain", "waitToDrain", "list", "copy", "flushDrained", "commit", "fail"}

\* Where the worker is, and of a drain the rows left, those listed, the attempts.
SyncSet ==
  [pc : {"idle", "phase", "lock", "wait", "flush", "unlock"} \cup DrainPcs,
   rows : SUBSET (Paths \X Hashes), listed : SUBSET (Paths \X Hashes), tries : 0..MaxAttempts]
Idle == [pc |-> "idle", rows |-> {}, listed |-> {}, tries |-> 0]

Refs == {meta[p] : p \in {q \in Paths : meta[q] # None}}
Rows == {<<p, meta[p]>> : p \in {q \in Paths : meta[q] # None}}

\* GetActiveObjectStoreBackend: the one that is alive.
ActiveBackend == IF fileLife = "alive" THEN "file" ELSE "s3"

\* A write of a client is inside the fortress of c: its Visit lasts until the
\* store has answered or the client's context is done.
Visiting(c) == req[c].op \in {"put", "remove"} /\ req[c].caller

\* Controllers at work, their gates open, with some blobs stored, each of them
\* in the files of the controller that took it and of those that have fetched
\* it since, and with what a Put that failed before its row was written has
\* left behind.
Init ==
  /\ meta \in [Paths -> Hashes \cup {None}] /\ drain = "none" /\ fileLife = "alive"
  /\ \E keepers \in SUBSET Controllers \ {{}}, d \in Controllers, left \in SUBSET Hashes :
       files = [c \in Controllers |-> (IF c \in keepers THEN Refs ELSE {})
                                      \cup (IF c = d THEN left ELSE {})]
  /\ bucket = {}
  /\ store = [c \in Controllers |-> "none"]
  /\ req = [c \in Controllers |-> NoReq] /\ asked = 0
  /\ gate = [c \in Controllers |-> TRUE]
  /\ role = [c \in Controllers |-> IF c = Primary THEN "drainer" ELSE "guard"]
  /\ sync = [c \in Controllers |-> Idle]
  /\ dirty = [c \in Controllers |-> FALSE]
  /\ faults = 0 /\ early = {} /\ acked = [p \in Paths |-> None]

----------------------------------------------------------------------------
(* The store workers.                                                      *)

\* objectStoreWorker.initObjectStore, for any GetObjectStore: not guarded.
StartStore(c) ==
  /\ store[c] = "none"
  /\ store' = [store EXCEPT ![c] = ActiveBackend]
  /\ UNCHANGED <<dbVars, blobVars, req, asked, gate, syncVars, early, acked>>

Blobs(c) == IF store[c] = "file" THEN files[c] ELSE bucket

Write(c, h) ==
  IF store[c] = "file" THEN files' = [files EXCEPT ![c] = @ \cup {h}] /\ UNCHANGED bucket
                       ELSE bucket' = bucket \cup {h} /\ UNCHANGED files

Delete(c, h) ==
  IF store[c] = "file" THEN files' = [files EXCEPT ![c] = @ \ {h}] /\ UNCHANGED bucket
                       ELSE bucket' = bucket \ {h} /\ UNCHANGED files

Request(c, r) ==
  /\ store[c] # "none" /\ req[c] = NoReq /\ asked < MaxRequests
  /\ req' = [req EXCEPT ![c] = r] /\ asked' = asked + 1
  /\ UNCHANGED <<dbVars, blobVars, store, gate, syncVars, early, acked>>

\* The request goes on to its next step, unless its client has gone: the step
\* that was under way then is the last one, as its context is done.
Goes(c, at) == IF req[c].caller THEN [req[c] EXCEPT !.at = at] ELSE NoReq

\* A client's Put, admitted to the fortress and taken by the store's loop.
BeginPut(c, p, h) ==
  /\ gate[c]
  /\ Request(c, [NoReq EXCEPT !.op = "put", !.at = "persist", !.path = p, !.hash = h, !.caller = TRUE])

\* persistTmpFile: the blob, if it is not there yet.
PutPersist(c) ==
  /\ req[c].op = "put" /\ req[c].at = "persist"
  /\ Write(c, req[c].hash)
  /\ req' = [req EXCEPT ![c] = Goes(c, "row")]
  /\ UNCHANGED <<dbVars, store, asked, gate, syncVars, early, acked>>

\* PutMetadata(WithControllerIDHint): refused for a path that has a row.  The
\* commit may come through although the client has gone.
PutRow(c) ==
  /\ req[c].op = "put" /\ req[c].at = "row"
  /\ LET p == req[c].path IN
       IF meta[p] = None
         THEN /\ meta' = [meta EXCEPT ![p] = req[c].hash]
              /\ acked' = [acked EXCEPT ![p] =
                    IF req[c].caller /\ store[c] = "file" THEN c ELSE None]
         ELSE UNCHANGED <<meta, acked>>
  /\ req' = [req EXCEPT ![c] = NoReq]
  /\ UNCHANGED <<drain, fileLife, blobVars, store, asked, gate, syncVars, early>>

\* A client's Remove; the row is looked up before the lock.
BeginRemove(c, p) ==
  /\ gate[c] /\ meta[p] # None
  /\ Request(c, [NoReq EXCEPT !.op = "remove", !.at = "row", !.path = p, !.hash = meta[p],
                         !.caller = TRUE])

\* RemoveMetadata, an error if the row has gone.
RemoveRow(c) ==
  /\ req[c].op = "remove" /\ req[c].at = "row"
  /\ LET p == req[c].path IN
       IF meta[p] # None
         THEN /\ meta' = [meta EXCEPT ![p] = None]
              /\ acked' = [acked EXCEPT ![p] = None]
              /\ early' = early \ {<<p, meta[p]>>}
              /\ req' = [req EXCEPT ![c] = Goes(c, "refs")]
         ELSE req' = [req EXCEPT ![c] = NoReq] /\ UNCHANGED <<meta, acked, early>>
  /\ UNCHANGED <<drain, fileLife, blobVars, store, asked, gate, syncVars>>

\* GetMetadataBySHA256: the blob stays if another path has it.
RemoveRefs(c) ==
  /\ req[c].op = "remove" /\ req[c].at = "refs"
  /\ req' = [req EXCEPT ![c] = IF req[c].hash \in Refs THEN NoReq
                               ELSE Goes(c, "blob")]
  /\ UNCHANGED <<dbVars, blobVars, store, asked, gate, syncVars, early, acked>>

\* deleteObject.
RemoveBlob(c) ==
  /\ req[c].op = "remove" /\ req[c].at = "blob"
  /\ Delete(c, req[c].hash)
  /\ req' = [req EXCEPT ![c] = NoReq]
  /\ UNCHANGED <<dbVars, store, asked, gate, syncVars, early, acked>>

\* The timer of the loop: prune lists the rows, then the blobs, then deletes
\* what no row had.  Not a visit to the fortress.
BeginPrune(c) == Request(c, [NoReq EXCEPT !.op = "prune", !.at = "blobs", !.refs = Refs])

PruneList(c) ==
  /\ req[c].op = "prune" /\ req[c].at = "blobs"
  /\ req' = [req EXCEPT ![c] = IF Blobs(c) \subseteq req[c].refs THEN NoReq
                ELSE [req[c] EXCEPT !.at = "delete", !.refs = Blobs(c) \ @]]
  /\ UNCHANGED <<dbVars, blobVars, store, asked, gate, syncVars, early, acked>>

PruneDelete(c, h) ==
  /\ req[c].op = "prune" /\ req[c].at = "delete" /\ h \in req[c].refs
  /\ Delete(c, h)
  /\ req' = [req EXCEPT ![c] = IF req[c].refs = {h} THEN NoReq
                               ELSE [req[c] EXCEPT !.refs = @ \ {h}]]
  /\ UNCHANGED <<dbVars, store, asked, gate, syncVars, early, acked>>

\* The fetch worker of a file store, told of a row, copies the file of another
\* controller; a Get with RemoteFallback does the same.  By the time the file is
\* written the row may have gone, so any hash that another one has may come.
Fetch(c, h) ==
  /\ store[c] = "file" /\ h \notin files[c]
  /\ \E d \in Controllers \ {c} : h \in files[d]
  /\ files' = [files EXCEPT ![c] = @ \cup {h}]
  /\ UNCHANGED <<dbVars, bucket, storeVars, gate, syncVars, early, acked>>

\* The client's context is done: its Visit is over, the request is not.
CallerLeaves(c) ==
  /\ Visiting(c)
  /\ req' = [req EXCEPT ![c].caller = FALSE]
  /\ UNCHANGED <<dbVars, blobVars, store, asked, gate, syncVars, early, acked>>

\* Any step of a request may fail instead: lease, database, S3, context.
RequestFails(c) ==
  /\ req[c] # NoReq
  /\ req' = [req EXCEPT ![c] = NoReq]
  /\ UNCHANGED <<dbVars, blobVars, store, asked, gate, syncVars, early, acked>>

StoreStep(c) ==
  \/ StartStore(c) \/ PutPersist(c) \/ PutRow(c) \/ RemoveRow(c) \/ RemoveRefs(c)
  \/ RemoveBlob(c) \/ BeginPrune(c) \/ PruneList(c) \/ CallerLeaves(c) \/ RequestFails(c)
  \/ \E p \in Paths : BeginRemove(c, p) \/ \E h \in Hashes : BeginPut(c, p, h)
  \/ \E h \in Hashes : PruneDelete(c, h) \/ Fetch(c, h)

----------------------------------------------------------------------------
(* The drain.  Its start is a request of the operator.                     *)

Notify == dirty' = [c \in Controllers |-> TRUE]

\* The transaction of TransitionBackendToS3; repeated, it changes nothing.
TransitionBackendToS3 ==
  /\ drain = "none" /\ fileLife = "alive"
  /\ drain' = "draining" /\ fileLife' = "dying"
  /\ early' = Rows
  /\ Notify
  /\ UNCHANGED <<meta, blobVars, storeVars, gate, role, sync, faults, acked>>

\* Both workers: a step that only moves the worker.
Goto(c, pc) ==
  /\ sync' = [sync EXCEPT ![c].pc = pc]
  /\ UNCHANGED <<dbVars, blobVars, storeVars, gate, role, faults, early, acked>>

\* An event of the watcher; GetDrainingPhase first looks for an active drain...
ReadPhase(c) ==
  /\ sync[c].pc = "idle" /\ dirty[c]
  /\ dirty' = [dirty EXCEPT ![c] = FALSE]
  /\ Goto(c, IF drain # "draining" THEN "phase"
             ELSE IF role[c] = "drainer" THEN "lockToDrain" ELSE "lock")

\* Mutant of ReadBackends: the guard opens the gate without refreshing the stores.
ReadBackendsNoFlush(c) ==
  /\ sync[c].pc = "phase"
  /\ Goto(c, IF drain = "draining" \/ fileLife = "dying" THEN "lock" ELSE "unlock")
  /\ UNCHANGED dirty

\* ...and, in another transaction, for a dying backend, which means an error.
\* IsObjectStoreUsable reads the same again, together with the number of alive
\* backends, and is part of this step: a change in between would make it answer
\* no, as a later look here does.  The guard refreshes the stores first.
ReadBackends(c) ==
  /\ sync[c].pc = "phase"
  /\ Goto(c, IF drain = "draining" \/ fileLife = "dying" THEN "lock"
             ELSE IF role[c] = "drainer" THEN "unlock" ELSE "flush")
  /\ UNCHANGED dirty

\* Lockdown: the gate is shut at once, and the call waits for the visits.
BeginLockdown(c) ==
  /\ sync[c].pc \in {"lock", "lockToDrain"}
  /\ gate' = [gate EXCEPT ![c] = FALSE]
  /\ sync' = [sync EXCEPT ![c].pc = IF @ = "lock" THEN "wait" ELSE "waitToDrain"]
  /\ UNCHANGED <<dbVars, blobVars, storeVars, role, dirty, faults, early, acked>>

\* Mutant of EndLockdown: does not wait for the visits.
EndLockdownAtOnce(c) ==
  /\ sync[c].pc \in {"wait", "waitToDrain"}
  /\ Goto(c, IF sync[c].pc = "wait" THEN "idle" ELSE "list")
  /\ UNCHANGED dirty

EndLockdown(c) ==
  /\ sync[c].pc \in {"wait", "waitToDrain"} /\ ~Visiting(c)
  /\ Goto(c, IF sync[c].pc = "wait" THEN "idle" ELSE "list")
  /\ UNCHANGED dirty

\* Mutant of Flush: the request in the store outlives it.
FlushKeepsRequest(c) ==
  /\ sync[c].pc \in {"flush", "flushDrained"}
  /\ store' = [store EXCEPT ![c] = "none"]
  /\ sync' = [sync EXCEPT ![c].pc = IF @ = "flush" THEN "unlock" ELSE "commit"]
  /\ UNCHANGED <<dbVars, blobVars, req, asked, gate, role, dirty, faults, early, acked>>

\* FlushWorkers: the store worker is stopped, a request in it with it.
Flush(c) ==
  /\ sync[c].pc \in {"flush", "flushDrained"}
  /\ store' = [store EXCEPT ![c] = "none"]
  /\ req' = [req EXCEPT ![c] = NoReq]
  /\ sync' = [sync EXCEPT ![c].pc = IF @ = "flush" THEN "unlock" ELSE "commit"]
  /\ UNCHANGED <<dbVars, blobVars, asked, gate, role, dirty, faults, early, acked>>

Unlock(c) ==
  /\ sync[c].pc = "unlock"
  /\ gate' = [gate EXCEPT ![c] = TRUE]
  /\ sync' = [sync EXCEPT ![c] = Idle]
  /\ UNCHANGED <<dbVars, blobVars, storeVars, role, dirty, faults, early, acked>>

\* drainWorker.run: the rows of the model.
ListMetadata(c) ==
  /\ sync[c].pc = "list"
  /\ sync' = [sync EXCEPT ![c] = [@ EXCEPT !.pc = "copy", !.rows = Rows, !.listed = Rows]]
  /\ UNCHANGED <<dbVars, blobVars, storeVars, gate, role, dirty, faults, early, acked>>

\* Mutant of DrainFile: a blob that is not here is taken to be in S3.
DrainFileUnchecked(c, r) ==
  /\ sync[c].pc = "copy" /\ r \in sync[c].rows
  /\ bucket' = bucket \cup ({r[2]} \cap files[c])
  /\ sync' = [sync EXCEPT ![c].rows = @ \ {r}]
  /\ UNCHANGED <<dbVars, files, storeVars, gate, role, dirty, faults, early, acked>>

\* drainFile: a blob that is here is put unless S3 has it; one that is not here
\* must be in S3 already.  The file stays.
DrainFile(c, r) ==
  /\ sync[c].pc = "copy" /\ r \in sync[c].rows
  /\ r[2] \in files[c] \cup bucket
  /\ bucket' = bucket \cup {r[2]}
  /\ sync' = [sync EXCEPT ![c].rows = @ \ {r}]
  /\ UNCHANGED <<dbVars, files, storeVars, gate, role, dirty, faults, early, acked>>

\* An attempt of the drain worker fails, for a blob that is nowhere or for any
\* other reason; the next one starts from the list, the last one is an error.
\* So is a failure of completeDraining, at once.
DrainFails(c) ==
  /\ sync[c].pc \in {"list", "copy", "flushDrained", "commit"}
  /\ sync' = [sync EXCEPT ![c] =
       IF sync[c].pc \in {"list", "copy"} /\ sync[c].tries + 1 < MaxAttempts
         THEN [sync[c] EXCEPT !.pc = "list", !.tries = sync[c].tries + 1]
         ELSE [sync[c] EXCEPT !.pc = "fail"]]
  /\ UNCHANGED <<dbVars, blobVars, storeVars, gate, role, dirty, faults, early, acked>>

\* waitForDraining has its result; completeDraining starts with the flush.
Drained(c) ==
  /\ sync[c].pc = "copy" /\ sync[c].rows = {}
  /\ Goto(c, "flushDrained")
  /\ UNCHANGED dirty

\* TransitionDrainingPhase to a terminal phase: nothing if no drain is active.
\* A completed drain marks the file backend dead, a failed one leaves it dying.
SetPhase(phase) ==
  IF drain = "draining"
    THEN /\ drain' = phase
         /\ fileLife' = IF phase = "completed" THEN "dead" ELSE fileLife
         /\ Notify
    ELSE UNCHANGED <<drain, fileLife, dirty>>

CompleteDraining(c) ==
  /\ sync[c].pc = "commit"
  /\ SetPhase("completed")
  /\ sync' = [sync EXCEPT ![c] = Idle]
  /\ UNCHANGED <<meta, blobVars, storeVars, gate, role, faults, early, acked>>

\* The phase is set to error; the worker returns and is started again, which
\* its watcher's initial event stands for.
DrainError(c) ==
  /\ sync[c].pc = "fail"
  /\ IF drain = "draining" THEN drain' = "error" ELSE UNCHANGED drain
  /\ dirty' = [d \in Controllers |-> dirty[d] \/ drain = "draining" \/ d = c]
  /\ sync' = [sync EXCEPT ![c] = Idle]
  /\ UNCHANGED <<meta, fileLife, blobVars, storeVars, gate, role, faults, early, acked>>

\* The worker of c is stopped, wherever it is, and comes back in the same role
\* or, when the primary has moved, in the other one.  Its context is done, so
\* the phase is not set.  A new primary may start before the old one is gone.
WorkerRestarts(c, r) ==
  /\ faults < MaxFaults
  /\ r = "guard" => role[c] = "guard" \/ \E d \in Controllers \ {c} : role[d] = "drainer"
  /\ faults' = faults + 1
  /\ role' = [role EXCEPT ![c] = r]
  /\ sync' = [sync EXCEPT ![c] = Idle]
  /\ dirty' = [dirty EXCEPT ![c] = TRUE]
  /\ UNCHANGED <<dbVars, blobVars, storeVars, gate, early, acked>>

SyncStep(c) ==
  \/ ReadPhase(c) \/ ReadBackends(c) \/ BeginLockdown(c)
  \/ EndLockdown(c) \/ Flush(c) \/ Unlock(c) \/ ListMetadata(c)
  \/ Drained(c) \/ CompleteDraining(c) \/ DrainError(c)
  \/ \E r \in sync[c].rows : DrainFile(c, r)

Next ==
  \/ \E c \in Controllers : \/ StoreStep(c) \/ SyncStep(c) \/ DrainFails(c)
                            \/ \E r \in {"drainer", "guard"} : WorkerRestarts(c, r)
  \/ TransitionBackendToS3

\* The workers run; requests in a store end, by success or failure; a blob that
\* cannot be drained makes the attempt fail.  Clients, timers, the operator and
\* faults owe nothing.
Fairness ==
  \A c \in Controllers :
    /\ WF_vars(SyncStep(c) \/ DrainFails(c))
    /\ WF_vars(RequestFails(c))

Spec == Init /\ [][Next]_vars /\ Fairness

----------------------------------------------------------------------------
(* Properties.                                                             *)

\* The variables have their types; a store worker only has a request while it
\* runs, and only the drainer is in the middle of a drain.
ObjectStoreTypeOK ==
  /\ meta \in [Paths -> Hashes \cup {None}]
  /\ drain \in {"none", "draining", "error", "completed"}
  /\ fileLife \in {"alive", "dying", "dead"}
  /\ files \in [Controllers -> SUBSET Hashes] /\ bucket \subseteq Hashes
  /\ store \in [Controllers -> {"none", "file", "s3"}]
  /\ req \in [Controllers -> RequestSet] /\ asked \in 0..MaxRequests
  /\ role \in [Controllers -> {"drainer", "guard"}] /\ sync \in [Controllers -> SyncSet]
  /\ faults \in 0..MaxFaults
  /\ gate \in [Controllers -> BOOLEAN] /\ dirty \in [Controllers -> BOOLEAN]
  /\ \A c \in Controllers :
       /\ req[c].op # "none" => store[c] # "none"
       /\ req[c].op \in {"put", "remove"} => req[c].path \in Paths /\ req[c].hash \in Hashes
       /\ sync[c].pc \in DrainPcs => role[c] = "drainer"
  /\ early \subseteq Rows
  /\ acked \in [Paths -> Controllers \cup {None}]

\* Rows that were there before the drain and have not been removed have their
\* blob in S3 from the moment the file backend is dead, whatever retries,
\* restarts, a second drainer, or the S3 stores that other controllers already
\* run do meanwhile (drainWorker.run, completeDraining, remove, prune).
EarlyRowsKept ==
  fileLife = "dead" => \A r \in early : r[2] \in bucket

\* The controller that completes the drain has listed every write its own file
\* store ever acknowledged: Lockdown is the fence the loop takes it to be.
DrainListsOwnWrites ==
  [][\A c \in Controllers :
       (sync[c].pc = "commit" /\ drain = "draining" /\ drain' = "completed")
         => \A p \in Paths : acked[p] = c => <<p, meta[p]>> \in sync[c].listed]_vars

\* A drain ends.  Completed, every gate opens again and no guard is left with a
\* file store; in error, every gate is shut for the operator to step in.
DrainSettles ==
  drain = "draining" ~>
    \/ /\ drain = "completed"
       /\ \A c \in Controllers : gate[c] /\ (role[c] = "guard" => store[c] # "file")
    \/ drain = "error" /\ \A c \in Controllers : ~gate[c]
=============================================================================
