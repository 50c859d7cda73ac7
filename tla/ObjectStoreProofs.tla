------------------------- MODULE ObjectStoreProofs -------------------------
(***************************************************************************)
(* Proofs about ObjectStore: its type invariant, that no blob stored       *)
(* before the drain is missing from S3 once the drain has completed, and   *)
(* that the controller that completes it has listed its own writes.        *)
(***************************************************************************)
EXTENDS ObjectStore, TLAPS

\* Before the drain no store is on S3 and nobody drains; the backend says so.
NotStarted ==
  /\ drain = "none" <=> fileLife = "alive"
  /\ drain = "none" =>
       \A c \in Controllers : store[c] # "s3" /\ sync[c].pc \notin DrainPcs

\* A drainer that has its list has every early row on it, and the blobs of those
\* that are no longer left are in S3.
ListCovers ==
  \A c \in Controllers :
    /\ sync[c].pc = "copy" => \A r \in early : r \in sync[c].rows \/ r[2] \in bucket
    /\ sync[c].pc \in {"flushDrained", "commit"} => \A r \in early : r[2] \in bucket

\* No S3 store is about to delete the blob of an early row.
EarlySpared ==
  \A c \in Controllers : \A r \in early :
    store[c] = "s3" =>
      /\ req[c].op = "remove" /\ req[c].at = "blob" => req[c].hash # r[2]
      /\ req[c].op = "prune" /\ req[c].at = "blobs" => r[2] \in req[c].refs
      /\ req[c].op = "prune" /\ req[c].at = "delete" => r[2] \notin req[c].refs

IInv == ObjectStoreTypeOK /\ NotStarted /\ ListCovers /\ EarlySpared /\ EarlyRowsKept

----------------------------------------------------------------------------

\* The rows are pairs of a path and the hash the path has, which is among Refs.
LEMMA RowsFacts ==
  ASSUME ObjectStoreTypeOK
  PROVE  /\ Rows \subseteq Paths \X Hashes
         /\ Refs \subseteq Hashes
         /\ \A r \in Rows : r[1] \in Paths /\ r[2] = meta[r[1]] /\ r[2] # None /\ r[2] \in Refs
         /\ \A p \in Paths : meta[p] # None => <<p, meta[p]>> \in Rows
BY ObjectStoreAssumption DEF ObjectStoreTypeOK, Rows, Refs

\* The empty request is one.
LEMMA NoReqType == NoReq \in RequestSet /\ NoReq.op = "none"
BY DEF NoReq, RequestSet

\* A worker that waits for an event is not draining.
LEMMA IdleType == Idle \in SyncSet /\ Idle.pc = "idle" /\ Idle.pc \notin DrainPcs
BY ObjectStoreAssumption DEF Idle, SyncSet, DrainPcs

\* Controllers at work before the drain have no early row and no S3 store.
LEMMA InitIInv == Init => IInv
<1> SUFFICES ASSUME Init PROVE IInv
  OBVIOUS
<1>1. ObjectStoreTypeOK
  BY ObjectStoreAssumption, NoReqType, IdleType DEF Init, ObjectStoreTypeOK, Refs, Rows
<1>2. NotStarted /\ ListCovers /\ EarlySpared /\ EarlyRowsKept
  BY DEF Init, NotStarted, ListCovers, EarlySpared, EarlyRowsKept, Idle, DrainPcs
<1> QED BY <1>1, <1>2 DEF IInv

\* A step of a store keeps the types; a row is early only while it is there.
LEMMA StoreTyped ==
  ASSUME ObjectStoreTypeOK, NEW c \in Controllers, StoreStep(c)
  PROVE  ObjectStoreTypeOK'
<1>r. \A r \in RequestSet :
        /\ req' = [req EXCEPT ![c] = r]
        /\ store' = store
        /\ r.op # "none" => store[c] # "none"
        /\ r.op \in {"put", "remove"} => r.path \in Paths /\ r.hash \in Hashes
        => /\ req' \in [Controllers -> RequestSet]
           /\ \A d \in Controllers :
                /\ req'[d].op # "none" => store'[d] # "none"
                /\ req'[d].op \in {"put", "remove"}
                     => req'[d].path \in Paths /\ req'[d].hash \in Hashes
  BY DEF ObjectStoreTypeOK
<1>s. req[c] \in RequestSet
  BY DEF ObjectStoreTypeOK
<1> USE ObjectStoreAssumption, NoReqType DEF ObjectStoreTypeOK, dbVars, blobVars, storeVars, syncVars
<1>0. Refs \subseteq Hashes
  BY RowsFacts
<1> DEFINE ReqOK == /\ req' \in [Controllers -> RequestSet]
                    /\ \A d \in Controllers :
                         /\ req'[d].op # "none" => store'[d] # "none"
                         /\ req'[d].op \in {"put", "remove"}
                              => req'[d].path \in Paths /\ req'[d].hash \in Hashes
           BlobsOK == files' \in [Controllers -> SUBSET Hashes] /\ bucket' \subseteq Hashes
<1>1. CASE StartStore(c)
  <2>1. early' \subseteq Rows'
    BY <1>1 DEF StartStore, ActiveBackend, Rows
  <2>2. ReqOK
    BY <1>1, <1>0 DEF StartStore, ActiveBackend, RequestSet, NoReq
  <2>3. BlobsOK
    BY <1>1 DEF StartStore, ActiveBackend
  <2> QED
    BY <1>1, <2>1, <2>2, <2>3 DEF StartStore, ActiveBackend
<1>2. CASE PutPersist(c)
  <2>1. early' \subseteq Rows'
    BY <1>2 DEF PutPersist, Write, Goes, Rows
  <2>2. ReqOK
    BY <1>2, <1>0, ZenonT(60) DEF PutPersist, Write, Goes, RequestSet, NoReq
  <2>3. BlobsOK
    BY <1>2 DEF PutPersist, Write, Goes
  <2> QED
    BY <1>2, <2>1, <2>2, <2>3 DEF PutPersist, Write, Goes
<1>3. CASE PutRow(c)
  <2>1. early' \subseteq Rows'
    BY <1>3 DEF PutRow, Rows
  <2>2. ReqOK
    BY <1>3, <1>0, ZenonT(60) DEF PutRow, RequestSet, NoReq
  <2>3. BlobsOK
    BY <1>3 DEF PutRow
  <2> QED
    BY <1>3, <2>1, <2>2, <2>3 DEF PutRow
<1>4. CASE RemoveRow(c)
  <2>1. early' \subseteq Rows'
    BY <1>4 DEF RemoveRow, Goes, Rows
  <2>2. ReqOK
    <3>1. [req[c] EXCEPT !.at = "refs"] \in RequestSet
      BY <1>s DEF RequestSet
    <3> QED
      BY <1>4, <1>r, <3>1 DEF RemoveRow, Goes, RequestSet, NoReq
  <2>3. BlobsOK
    BY <1>4 DEF RemoveRow, Goes
  <2> QED
    BY <1>4, <2>1, <2>2, <2>3 DEF RemoveRow, Goes
<1>5. CASE RemoveRefs(c)
  <2>1. early' \subseteq Rows'
    BY <1>5 DEF RemoveRefs, Goes, Rows
  <2>2. ReqOK
    BY <1>5, <1>0, ZenonT(60) DEF RemoveRefs, Goes, RequestSet, NoReq
  <2>3. BlobsOK
    BY <1>5 DEF RemoveRefs, Goes
  <2> QED
    BY <1>5, <2>1, <2>2, <2>3 DEF RemoveRefs, Goes
<1>6. CASE RemoveBlob(c)
  <2>1. early' \subseteq Rows'
    BY <1>6 DEF RemoveBlob, Delete, Rows
  <2>2. ReqOK
    BY <1>6, <1>0, ZenonT(60) DEF RemoveBlob, Delete, RequestSet, NoReq
  <2>3. BlobsOK
    BY <1>6 DEF RemoveBlob, Delete
  <2> QED
    BY <1>6, <2>1, <2>2, <2>3 DEF RemoveBlob, Delete
<1>7. CASE BeginPrune(c)
  <2>1. early' \subseteq Rows'
    BY <1>7 DEF BeginPrune, Request, Rows
  <2>2. ReqOK
    BY <1>7, <1>0, ZenonT(60) DEF BeginPrune, Request, RequestSet, NoReq
  <2>3. BlobsOK
    BY <1>7 DEF BeginPrune, Request
  <2> QED
    BY <1>7, <2>1, <2>2, <2>3 DEF BeginPrune, Request
<1>8. CASE PruneList(c)
  <2>1. early' \subseteq Rows'
    BY <1>8 DEF PruneList, Blobs, Rows
  <2>2. ReqOK
    <3>1. [req[c] EXCEPT !.at = "delete", !.refs = Blobs(c) \ @] \in RequestSet
      BY <1>s DEF RequestSet, Blobs
    <3> QED
      BY <1>8, <1>r, <3>1 DEF PruneList, RequestSet, NoReq
  <2>3. BlobsOK
    BY <1>8 DEF PruneList, Blobs
  <2> QED
    BY <1>8, <2>1, <2>2, <2>3 DEF PruneList, Blobs
<1>9. CASE CallerLeaves(c)
  <2>1. early' \subseteq Rows'
    BY <1>9 DEF CallerLeaves, Visiting, Rows
  <2>2. ReqOK
    <3>1. [req[c] EXCEPT !.caller = FALSE] \in RequestSet
      BY <1>s DEF RequestSet
    <3> QED
      BY <1>9, <1>r, <3>1 DEF CallerLeaves, Visiting, RequestSet
  <2>3. BlobsOK
    BY <1>9 DEF CallerLeaves, Visiting
  <2> QED
    BY <1>9, <2>1, <2>2, <2>3 DEF CallerLeaves, Visiting
<1>10. CASE RequestFails(c)
  <2>1. early' \subseteq Rows'
    BY <1>10 DEF RequestFails, Rows
  <2>2. ReqOK
    BY <1>10, <1>0, ZenonT(60) DEF RequestFails, RequestSet, NoReq
  <2>3. BlobsOK
    BY <1>10 DEF RequestFails
  <2> QED
    BY <1>10, <2>1, <2>2, <2>3 DEF RequestFails
<1>11. CASE \E p \in Paths : BeginRemove(c, p)
  <2>1. early' \subseteq Rows'
    BY <1>11 DEF BeginRemove, Request, Rows
  <2>2. ReqOK
    <3> PICK p \in Paths : BeginRemove(c, p)
      BY <1>11
    <3> DEFINE r == [NoReq EXCEPT !.op = "remove", !.at = "row", !.path = p, !.hash = meta[p],
                                  !.caller = TRUE]
    <3>0. meta[p] \in Hashes
      BY DEF BeginRemove
    <3>1. r \in RequestSet /\ r.path = p /\ r.hash = meta[p]
      BY <3>0 DEF RequestSet, NoReq
    <3>2. req' = [req EXCEPT ![c] = r] /\ store' = store /\ store[c] # "none"
      BY DEF BeginRemove, Request
    <3> HIDE DEF r
    <3> QED
      BY <1>r, <3>0, <3>1, <3>2
  <2>3. BlobsOK
    BY <1>11 DEF BeginRemove, Request
  <2> QED
    BY <1>11, <2>1, <2>2, <2>3 DEF BeginRemove, Request
<1>12. CASE \E p \in Paths : \E h \in Hashes : BeginPut(c, p, h)
  <2>1. early' \subseteq Rows'
    BY <1>12 DEF BeginPut, Request, Rows
  <2>2. ReqOK
    <3> PICK p \in Paths, h \in Hashes : BeginPut(c, p, h)
      BY <1>12
    <3> DEFINE r == [NoReq EXCEPT !.op = "put", !.at = "persist", !.path = p, !.hash = h,
                                  !.caller = TRUE]
    <3>1. r \in RequestSet /\ r.path = p /\ r.hash = h
      BY DEF RequestSet, NoReq
    <3>2. req' = [req EXCEPT ![c] = r] /\ store' = store /\ store[c] # "none"
      BY DEF BeginPut, Request
    <3> HIDE DEF r
    <3> QED
      BY <1>r, <3>1, <3>2
  <2>3. BlobsOK
    BY <1>12 DEF BeginPut, Request
  <2> QED
    BY <1>12, <2>1, <2>2, <2>3 DEF BeginPut, Request
<1>13. CASE \E h \in Hashes : PruneDelete(c, h)
  <2>1. early' \subseteq Rows'
    BY <1>13 DEF PruneDelete, Delete, Rows
  <2>2. ReqOK
    <3> PICK h \in Hashes : PruneDelete(c, h)
      BY <1>13
    <3>1. [req[c] EXCEPT !.refs = @ \ {h}] \in RequestSet
      BY <1>s DEF RequestSet
    <3> QED
      BY <1>r, <3>1 DEF PruneDelete, RequestSet, NoReq
  <2>3. BlobsOK
    BY <1>13 DEF PruneDelete, Delete
  <2> QED
    BY <1>13, <2>1, <2>2, <2>3 DEF PruneDelete, Delete
<1>14. CASE \E h \in Hashes : Fetch(c, h)
  <2>1. early' \subseteq Rows'
    BY <1>14 DEF Fetch, Rows
  <2>2. ReqOK
    BY <1>14, <1>0, ZenonT(60) DEF Fetch, RequestSet, NoReq
  <2>3. BlobsOK
    BY <1>14 DEF Fetch
  <2> QED
    BY <1>14, <2>1, <2>2, <2>3 DEF Fetch
<1> QED
  BY <1>1, <1>2, <1>3, <1>4, <1>5, <1>6, <1>7, <1>8, <1>9, <1>10, <1>11, <1>12, <1>13, <1>14 DEF StoreStep

\* So does a step, a failure or a restart of a worker that follows the drain.
LEMMA SyncTyped ==
  ASSUME ObjectStoreTypeOK, NEW c \in Controllers,
         SyncStep(c) \/ DrainFails(c) \/ \E r \in {"drainer", "guard"} : WorkerRestarts(c, r)
  PROVE  ObjectStoreTypeOK'
<1>s. sync[c] \in SyncSet
  BY DEF ObjectStoreTypeOK
<1> USE ObjectStoreAssumption, NoReqType, IdleType
    DEF ObjectStoreTypeOK, dbVars, blobVars, storeVars, syncVars
<1>0. Rows \subseteq Paths \X Hashes
  BY RowsFacts
<1> DEFINE SyncOK == /\ sync' \in [Controllers -> SyncSet]
                     /\ \A d \in Controllers :
                          sync'[d].pc \in DrainPcs => role'[d] = "drainer"
<1>1. CASE ReadPhase(c)
  <2>1. early' \subseteq Rows'
    BY <1>1 DEF ReadPhase, Goto, Rows
  <2>2. SyncOK
    <3>1. PICK pc \in {"phase", "lockToDrain", "lock"} :
            /\ sync' = [sync EXCEPT ![c].pc = pc] /\ role' = role
            /\ pc = "lockToDrain" => role[c] = "drainer"
      BY <1>1 DEF ReadPhase, Goto
    <3> DEFINE s == [sync[c] EXCEPT !.pc = pc]
    <3>2. s \in SyncSet /\ (s.pc \in DrainPcs => role[c] = "drainer")
      BY <1>s, <3>1 DEF SyncSet, DrainPcs
    <3>3. sync' = [sync EXCEPT ![c] = s] /\ role' = role
      BY <3>1
    <3> HIDE DEF s
    <3> QED
      BY <3>2, <3>3
  <2> QED
    BY <1>1, <2>1, <2>2 DEF ReadPhase, Goto
<1>2. CASE ReadBackends(c)
  <2>1. early' \subseteq Rows'
    BY <1>2 DEF ReadBackends, Goto, Rows
  <2>2. SyncOK
    BY <1>2, <1>0, <1>s, ZenonT(60) DEF ReadBackends, Goto, SyncSet, DrainPcs
  <2> QED
    BY <1>2, <2>1, <2>2 DEF ReadBackends, Goto
<1>3. CASE BeginLockdown(c)
  <2>1. early' \subseteq Rows'
    BY <1>3 DEF BeginLockdown, Rows
  <2>2. SyncOK
    BY <1>3, <1>0, <1>s, ZenonT(60) DEF BeginLockdown, SyncSet, DrainPcs
  <2> QED
    BY <1>3, <2>1, <2>2 DEF BeginLockdown
<1>4. CASE EndLockdown(c)
  <2>1. early' \subseteq Rows'
    BY <1>4 DEF EndLockdown, Goto, Rows
  <2>2. SyncOK
    BY <1>4, <1>0, <1>s, ZenonT(60) DEF EndLockdown, Goto, SyncSet, DrainPcs
  <2> QED
    BY <1>4, <2>1, <2>2 DEF EndLockdown, Goto
<1>5. CASE Flush(c)
  <2>1. early' \subseteq Rows'
    BY <1>5 DEF Flush, Rows
  <2>2. SyncOK
    BY <1>5, <1>0, <1>s, ZenonT(60) DEF Flush, SyncSet, DrainPcs
  <2> QED
    BY <1>5, <2>1, <2>2 DEF Flush
<1>6. CASE Unlock(c)
  <2>1. early' \subseteq Rows'
    BY <1>6 DEF Unlock, Rows
  <2>2. SyncOK
    BY <1>6, <1>0, <1>s DEF Unlock, SyncSet, DrainPcs
  <2> QED
    BY <1>6, <2>1, <2>2 DEF Unlock
<1>7. CASE ListMetadata(c)
  <2>1. early' \subseteq Rows'
    BY <1>7 DEF ListMetadata, Rows
  <2>2. SyncOK
    BY <1>7, <1>0, <1>s, ZenonT(60) DEF ListMetadata, SyncSet, DrainPcs
  <2> QED
    BY <1>7, <2>1, <2>2 DEF ListMetadata
<1>8. CASE Drained(c)
  <2>1. early' \subseteq Rows'
    BY <1>8 DEF Drained, Goto, Rows
  <2>2. SyncOK
    BY <1>8, <1>0, <1>s, ZenonT(60) DEF Drained, Goto, SyncSet, DrainPcs
  <2> QED
    BY <1>8, <2>1, <2>2 DEF Drained, Goto
<1>9. CASE CompleteDraining(c)
  <2>1. early' \subseteq Rows'
    BY <1>9 DEF CompleteDraining, SetPhase, Notify, Rows
  <2>2. SyncOK
    BY <1>9, <1>0, <1>s DEF CompleteDraining, SetPhase, Notify, SyncSet, DrainPcs
  <2> QED
    BY <1>9, <2>1, <2>2 DEF CompleteDraining, SetPhase, Notify
<1>10. CASE DrainError(c)
  <2>1. early' \subseteq Rows'
    BY <1>10 DEF DrainError, Rows
  <2>2. SyncOK
    BY <1>10, <1>0, <1>s DEF DrainError, SyncSet, DrainPcs
  <2> QED
    BY <1>10, <2>1, <2>2 DEF DrainError
<1>11. CASE \E r \in sync[c].rows : DrainFile(c, r)
  <2>1. early' \subseteq Rows'
    BY <1>11 DEF DrainFile, Rows
  <2>2. SyncOK
    BY <1>11, <1>0, <1>s, SMTT(60) DEF DrainFile, SyncSet, DrainPcs
  <2> QED
    BY <1>11, <2>1, <2>2 DEF DrainFile
<1>12. CASE DrainFails(c)
  <2>1. early' \subseteq Rows'
    BY <1>12 DEF DrainFails, Rows
  <2>2. SyncOK
    <3>1. sync[c].tries + 1 < MaxAttempts =>
             [sync[c] EXCEPT !.pc = "list", !.tries = sync[c].tries + 1] \in SyncSet
      <4>1. sync[c].tries \in 0..MaxAttempts
        BY <1>s DEF SyncSet
      <4>2. sync[c].tries + 1 < MaxAttempts => sync[c].tries + 1 \in 0..MaxAttempts
        BY <4>1
      <4> QED
        BY <1>s, <4>2 DEF SyncSet, DrainPcs
    <3>2. [sync[c] EXCEPT !.pc = "fail"] \in SyncSet
      BY <1>s DEF SyncSet, DrainPcs
    <3>3. role[c] = "drainer"
      BY <1>12 DEF DrainFails, DrainPcs
    <3> DEFINE s == IF sync[c].pc \in {"list", "copy"} /\ sync[c].tries + 1 < MaxAttempts
                      THEN [sync[c] EXCEPT !.pc = "list", !.tries = sync[c].tries + 1]
                      ELSE [sync[c] EXCEPT !.pc = "fail"]
    <3>4. s \in SyncSet /\ sync' = [sync EXCEPT ![c] = s] /\ role' = role
      BY <1>12, <3>1, <3>2 DEF DrainFails
    <3> HIDE DEF s
    <3> QED
      BY <3>3, <3>4
  <2> QED
    BY <1>12, <2>1, <2>2 DEF DrainFails
<1>13. CASE \E r \in {"drainer", "guard"} : WorkerRestarts(c, r)
  <2>1. early' \subseteq Rows'
    BY <1>13 DEF WorkerRestarts, Rows
  <2>2. SyncOK
    BY <1>13, <1>0, <1>s DEF WorkerRestarts, SyncSet, DrainPcs
  <2> QED
    BY <1>13, <2>1, <2>2 DEF WorkerRestarts
<1> QED
  BY <1>1, <1>2, <1>3, <1>4, <1>5, <1>6, <1>7, <1>8, <1>9, <1>10, <1>11, <1>12, <1>13 DEF SyncStep

\* What a store does to S3 spares the blobs of early rows, and no row becomes early.
LEMMA StoreSpares ==
  ASSUME IInv, NEW c \in Controllers, StoreStep(c)
  PROVE  /\ UNCHANGED <<drain, fileLife, sync>>
         /\ early' \subseteq early
         /\ \A r \in early' : r[2] \in bucket => r[2] \in bucket'
         /\ \A d \in Controllers : store'[d] = "s3" => store[d] = "s3" \/ fileLife # "alive"
<1> USE DEF IInv, ObjectStoreTypeOK, EarlySpared, dbVars, blobVars, storeVars, syncVars
<1>1. CASE StartStore(c)
  BY <1>1 DEF StartStore, ActiveBackend
<1>2. CASE PutPersist(c)
  BY <1>2 DEF PutPersist, Write, Goes
<1>3. CASE PutRow(c)
  BY <1>3 DEF PutRow
<1>4. CASE RemoveRow(c)
  BY <1>4 DEF RemoveRow, Goes
<1>5. CASE RemoveRefs(c)
  BY <1>5 DEF RemoveRefs, Goes
<1>6. CASE RemoveBlob(c)
  BY <1>6 DEF RemoveBlob, Delete
<1>7. CASE BeginPrune(c)
  BY <1>7 DEF BeginPrune, Request
<1>8. CASE PruneList(c)
  BY <1>8 DEF PruneList, Blobs
<1>9. CASE CallerLeaves(c)
  BY <1>9 DEF CallerLeaves, Visiting
<1>10. CASE RequestFails(c)
  BY <1>10 DEF RequestFails
<1>11. CASE \E p \in Paths : BeginRemove(c, p)
  BY <1>11 DEF BeginRemove, Request
<1>12. CASE \E p \in Paths : \E h \in Hashes : BeginPut(c, p, h)
  BY <1>12 DEF BeginPut, Request
<1>13. CASE \E h \in Hashes : PruneDelete(c, h)
  BY <1>13 DEF PruneDelete, Delete
<1>14. CASE \E h \in Hashes : Fetch(c, h)
  BY <1>14 DEF Fetch
<1> QED
  BY <1>1, <1>2, <1>3, <1>4, <1>5, <1>6, <1>7, <1>8, <1>9, <1>10, <1>11, <1>12, <1>13, <1>14 DEF StoreStep

\* No store is brought to the point of deleting the blob of an early row.
LEMMA StoreKeepsSparing ==
  ASSUME IInv, NEW c \in Controllers, StoreStep(c)
  PROVE  EarlySpared'
<1>0. \A r \in early : r[2] \in Refs
  BY RowsFacts DEF IInv, ObjectStoreTypeOK
<1>r. req \in [Controllers -> RequestSet] /\ req[c] \in RequestSet
  BY DEF IInv, ObjectStoreTypeOK
<1>e. early' \subseteq early
  BY StoreSpares
<1>n. NoReq.op = "none"
  BY NoReqType
<1> SUFFICES ASSUME NEW d \in Controllers, NEW r \in early, store'[d] = "s3"
    PROVE  /\ req'[d].op = "remove" /\ req'[d].at = "blob" => req'[d].hash # r[2]
           /\ req'[d].op = "prune" /\ req'[d].at = "blobs" => r[2] \in req'[d].refs
           /\ req'[d].op = "prune" /\ req'[d].at = "delete" => r[2] \notin req'[d].refs
  BY <1>e DEF EarlySpared
<1>s. r[2] \in Refs
  BY <1>0
<1> USE DEF IInv, EarlySpared, storeVars
<1>1. CASE StartStore(c)
  BY <1>1 DEF StartStore, ObjectStoreTypeOK
<1>2. CASE PutPersist(c)
  BY <1>2, <1>s, <1>r, <1>n DEF PutPersist, Write, Goes, RequestSet
<1>3. CASE PutRow(c)
  BY <1>3, <1>s, <1>r, <1>n DEF PutRow, RequestSet
<1>4. CASE RemoveRow(c)
  <2>1. Goes(c, "refs").op # "none" => Goes(c, "refs").at = "refs"
    BY <1>r, <1>n DEF Goes, RequestSet
  <2>2. store' = store /\ (req' = [req EXCEPT ![c] = Goes(c, "refs")]
                             \/ req' = [req EXCEPT ![c] = NoReq])
    BY <1>4 DEF RemoveRow
  <2> QED
    BY <2>1, <2>2, <1>r, <1>n
<1>5. CASE RemoveRefs(c)
  BY <1>5, <1>s, <1>r, <1>n DEF RemoveRefs, Goes, RequestSet
<1>6. CASE RemoveBlob(c)
  BY <1>6, <1>s, <1>r, <1>n DEF RemoveBlob, Delete, RequestSet
<1>7. CASE BeginPrune(c)
  BY <1>7, <1>s, <1>r, <1>n DEF BeginPrune, Request, RequestSet
<1>8. CASE PruneList(c)
  BY <1>8, <1>s, <1>r, <1>n DEF PruneList, Blobs, RequestSet
<1>9. CASE CallerLeaves(c)
  BY <1>9, <1>s, <1>r, <1>n, ZenonT(60) DEF CallerLeaves, Visiting, RequestSet
<1>10. CASE RequestFails(c)
  BY <1>10, <1>s, <1>r, <1>n DEF RequestFails, RequestSet
<1>11. CASE \E p \in Paths : BeginRemove(c, p)
  <2>1. PICK p \in Paths : BeginRemove(c, p)
    BY <1>11
  <2>2. [NoReq EXCEPT !.op = "remove", !.at = "row", !.path = p, !.hash = meta[p],
                      !.caller = TRUE].at = "row"
    BY DEF NoReq
  <2> QED
    BY <2>1, <2>2, <1>r DEF BeginRemove, Request
<1>12. CASE \E p \in Paths : \E h \in Hashes : BeginPut(c, p, h)
  <2>1. PICK p \in Paths, h \in Hashes : BeginPut(c, p, h)
    BY <1>12
  <2>2. [NoReq EXCEPT !.op = "put", !.at = "persist", !.path = p, !.hash = h,
                      !.caller = TRUE].at = "persist"
    BY DEF NoReq
  <2> QED
    BY <2>1, <2>2, <1>r DEF BeginPut, Request
<1>13. CASE \E h \in Hashes : PruneDelete(c, h)
  <2>1. PICK h \in Hashes : PruneDelete(c, h)
    BY <1>13
  <2>2. LET q == [req[c] EXCEPT !.refs = @ \ {h}]
        IN  q.op = req[c].op /\ q.at = req[c].at /\ q.refs = req[c].refs \ {h}
    BY <1>r DEF RequestSet
  <2> QED
    BY <2>1, <2>2, <1>r, <1>n DEF PruneDelete
<1>14. CASE \E h \in Hashes : Fetch(c, h)
  BY <1>14, <1>s, <1>r, <1>n, ZenonT(60) DEF Fetch, RequestSet
<1> QED
  BY <1>1, <1>2, <1>3, <1>4, <1>5, <1>6, <1>7, <1>8, <1>9, <1>10, <1>11, <1>12, <1>13, <1>14 DEF StoreStep

\* A step of a worker that follows the drain only adds to S3, and what it does to
\* the stores is to stop one.
LEMMA SyncAdds ==
  ASSUME IInv, NEW c \in Controllers,
         SyncStep(c) \/ DrainFails(c) \/ \E r \in {"drainer", "guard"} : WorkerRestarts(c, r)
  PROVE  /\ early' = early /\ bucket \subseteq bucket'
         /\ \A d \in Controllers : \/ store'[d] = store[d] /\ req'[d] = req[d]
                                   \/ store'[d] = "none"
         /\ \/ fileLife' = fileLife
            \/ sync[c].pc = "commit" /\ drain # "none" /\ fileLife' = "dead"
         /\ drain' = drain \/ (drain # "none" /\ drain' # "none")
<1>s. store \in [Controllers -> {"none", "file", "s3"}] /\ req \in [Controllers -> RequestSet]
  BY DEF IInv, ObjectStoreTypeOK
<1> USE DEF dbVars, blobVars, storeVars, syncVars, DrainPcs
<1>1. CASE ReadPhase(c)
  BY <1>1 DEF ReadPhase, Goto
<1>2. CASE ReadBackends(c)
  BY <1>2 DEF ReadBackends, Goto
<1>3. CASE BeginLockdown(c)
  BY <1>3 DEF BeginLockdown
<1>4. CASE EndLockdown(c)
  BY <1>4 DEF EndLockdown, Goto
<1>5. CASE Flush(c)
  BY <1>5, <1>s DEF Flush
<1>6. CASE Unlock(c)
  BY <1>6 DEF Unlock, Idle
<1>7. CASE ListMetadata(c)
  BY <1>7 DEF ListMetadata
<1>8. CASE Drained(c)
  BY <1>8 DEF Drained, Goto
<1>9. CASE CompleteDraining(c)
  BY <1>9 DEF CompleteDraining, SetPhase, Idle
<1>10. CASE DrainError(c)
  BY <1>10 DEF DrainError, Idle
<1>11. CASE \E r \in sync[c].rows : DrainFile(c, r)
  BY <1>11 DEF DrainFile
<1>12. CASE DrainFails(c)
  BY <1>12 DEF DrainFails
<1>13. CASE \E r \in {"drainer", "guard"} : WorkerRestarts(c, r)
  BY <1>13 DEF WorkerRestarts, Idle
<1> QED
  BY <1>1, <1>2, <1>3, <1>4, <1>5, <1>6, <1>7, <1>8, <1>9, <1>10, <1>11, <1>12, <1>13 DEF SyncStep

\* Before the drain no worker gets to its steps, and a drainer's list stays covered.
LEMMA SyncCovers ==
  ASSUME IInv, NEW c \in Controllers,
         SyncStep(c) \/ DrainFails(c) \/ \E r \in {"drainer", "guard"} : WorkerRestarts(c, r)
  PROVE  /\ drain' = "none" => sync'[c].pc \notin DrainPcs
         /\ sync'[c].pc = "copy" => \A r \in early' : r \in sync'[c].rows \/ r[2] \in bucket'
         /\ sync'[c].pc \in {"flushDrained", "commit"} => \A r \in early' : r[2] \in bucket'
         /\ \A d \in Controllers \ {c} : sync'[d] = sync[d]
<1>s. sync[c] \in SyncSet /\ sync \in [Controllers -> SyncSet] /\ early \subseteq Rows
  BY DEF IInv, ObjectStoreTypeOK
<1>b. early' = early /\ bucket \subseteq bucket'
  BY SyncAdds
<1>n. drain' = "none" => drain = "none"
  BY SyncAdds
<1> USE DEF IInv, NotStarted, ListCovers, DrainPcs, SyncSet
<1>1. CASE ReadPhase(c)
  BY <1>1, <1>s, <1>b, <1>n DEF ReadPhase, Goto
<1>2. CASE ReadBackends(c)
  BY <1>2, <1>s, <1>b, <1>n DEF ReadBackends, Goto
<1>3. CASE BeginLockdown(c)
  BY <1>3, <1>s, <1>b, <1>n DEF BeginLockdown
<1>4. CASE EndLockdown(c)
  BY <1>4, <1>s, <1>b, <1>n DEF EndLockdown, Goto
<1>5. CASE Flush(c)
  BY <1>5, <1>s, <1>b, <1>n DEF Flush
<1>6. CASE Unlock(c)
  BY <1>6, <1>s, <1>b, <1>n DEF Unlock, Idle
<1>7. CASE ListMetadata(c)
  BY <1>7, <1>s, <1>b, <1>n DEF ListMetadata
<1>8. CASE Drained(c)
  BY <1>8, <1>s, <1>b, <1>n DEF Drained, Goto
<1>9. CASE CompleteDraining(c)
  BY <1>9, <1>s, <1>b, <1>n DEF CompleteDraining, SetPhase, Idle
<1>10. CASE DrainError(c)
  BY <1>10, <1>s, <1>b, <1>n DEF DrainError, Idle
<1>11. CASE \E r \in sync[c].rows : DrainFile(c, r)
  BY <1>11, <1>s, <1>b, <1>n DEF DrainFile
<1>12. CASE DrainFails(c)
  BY <1>12, <1>s, <1>b, <1>n DEF DrainFails
<1>13. CASE \E r \in {"drainer", "guard"} : WorkerRestarts(c, r)
  BY <1>13, <1>s, <1>b, <1>n DEF WorkerRestarts, Idle
<1> QED
  BY <1>1, <1>2, <1>3, <1>4, <1>5, <1>6, <1>7, <1>8, <1>9, <1>10, <1>11, <1>12, <1>13 DEF SyncStep

\* The start of the drain: nobody drains, no store is on S3 yet.
LEMMA TransitionIInv ==
  ASSUME IInv, TransitionBackendToS3
  PROVE  IInv'
<1> USE DEF IInv, TransitionBackendToS3, blobVars, storeVars
<1>1. Rows' = Rows
  BY DEF Rows
<1>2. ObjectStoreTypeOK'
  BY <1>1 DEF ObjectStoreTypeOK, Notify
<1>3. NotStarted'
  BY DEF NotStarted
<1>4. ListCovers' /\ EarlySpared' /\ EarlyRowsKept'
  BY DEF ListCovers, EarlySpared, EarlyRowsKept, NotStarted, DrainPcs
<1> QED
  BY <1>2, <1>3, <1>4

\* The stores preserve the invariant: they can only lose what is not early.
LEMMA StoreIInv ==
  ASSUME IInv, NEW c \in Controllers, StoreStep(c)
  PROVE  IInv'
<1>1. ObjectStoreTypeOK'
  BY StoreTyped DEF IInv
<1>2. EarlySpared'
  BY StoreKeepsSparing
<1>3. NotStarted'
  BY StoreSpares DEF IInv, NotStarted
<1>4. ListCovers'
  BY StoreSpares DEF IInv, ListCovers
<1>5. EarlyRowsKept'
  BY StoreSpares DEF IInv, EarlyRowsKept
<1> QED
  BY <1>1, <1>2, <1>3, <1>4, <1>5 DEF IInv

\* The drainer and the guard preserve it: only a drained list gets to the commit.
LEMMA SyncIInv ==
  ASSUME IInv, NEW c \in Controllers,
         SyncStep(c) \/ DrainFails(c) \/ \E r \in {"drainer", "guard"} : WorkerRestarts(c, r)
  PROVE  IInv'
<1>1. ObjectStoreTypeOK'
  BY SyncTyped DEF IInv
<1>2. EarlySpared'
  BY SyncAdds DEF IInv, EarlySpared
<1>3. NotStarted'
  BY SyncAdds, SyncCovers DEF IInv, NotStarted
<1>4. ListCovers'
  BY SyncAdds, SyncCovers DEF IInv, ListCovers
<1>5. EarlyRowsKept'
  BY SyncAdds DEF IInv, EarlyRowsKept, ListCovers
<1> QED
  BY <1>1, <1>2, <1>3, <1>4, <1>5 DEF IInv

\* The invariant is inductive.
LEMMA NextIInv == IInv /\ [Next]_vars => IInv'
<1> SUFFICES ASSUME IInv, [Next]_vars PROVE IInv'
  OBVIOUS
<1>1. CASE UNCHANGED vars
  BY <1>1 DEF vars, dbVars, blobVars, storeVars, syncVars, IInv, ObjectStoreTypeOK, NotStarted,
              ListCovers, EarlySpared, EarlyRowsKept, Rows
<1>2. CASE TransitionBackendToS3
  BY <1>2, TransitionIInv
<1>3. ASSUME NEW c \in Controllers, StoreStep(c) PROVE IInv'
  BY <1>3, StoreIInv
<1>4. ASSUME NEW c \in Controllers,
             SyncStep(c) \/ DrainFails(c) \/ \E r \in {"drainer", "guard"} : WorkerRestarts(c, r)
      PROVE IInv'
  BY <1>4, SyncIInv
<1> QED
  BY <1>1, <1>2, <1>3, <1>4 DEF Next

\* The type invariant holds: a stopped store has no request left in it, and only
\* the drainer is ever in a drain (worker.go loop, FlushWorkers).
THEOREM ObjectStoreTypeCorrect == Spec => []ObjectStoreTypeOK
<1>1. IInv => ObjectStoreTypeOK
  BY DEF IInv
<1> QED
  BY InitIInv, NextIInv, <1>1, PTL DEF Spec

\* Once the file backend is dead, every row that was there when the drain began and
\* has not been removed has its blob in S3, for any number of controllers, paths,
\* contents, attempts, restarts and drainers (drainWorker.run, completeDraining,
\* remove and prune of the S3 stores).  The fortress is not needed for it.
THEOREM EarlyRowsAreKept == Spec => []EarlyRowsKept
<1>1. IInv => EarlyRowsKept
  BY DEF IInv
<1> QED
  BY InitIInv, NextIInv, <1>1, PTL DEF Spec

----------------------------------------------------------------------------
(* The fence of the drain.                                                 *)

\* What a file store acknowledged has a row.
AckedHasRow == \A p \in Paths : acked[p] # None => meta[p] # None

\* From the end of its Lockdown to its commit no write is inside the fortress of
\* the drainer, and its list has every write that its store acknowledged.
Fenced(c) ==
  /\ sync[c].pc \in {"waitToDrain", "list", "copy", "flushDrained", "commit"} => ~gate[c]
  /\ sync[c].pc \in {"list", "copy", "flushDrained", "commit"} => ~Visiting(c)
  /\ sync[c].pc \in {"copy", "flushDrained", "commit"} =>
       \A p \in Paths : acked[p] = c => <<p, meta[p]>> \in sync[c].listed

FenceInv == IInv /\ AckedHasRow /\ \A c \in Controllers : Fenced(c)

\* A step of a store lets a write in only through an open gate, and only a write
\* inside the fortress is acknowledged.
LEMMA StoreVisits ==
  ASSUME ObjectStoreTypeOK, NEW c \in Controllers, StoreStep(c)
  PROVE  /\ UNCHANGED <<gate, sync>>
         /\ \A d \in Controllers : Visiting(d)' => Visiting(d) \/ gate[d]
         /\ \A p \in Paths : \/ acked'[p] = acked[p] /\ meta'[p] = meta[p]
                             \/ acked'[p] = None
                             \/ acked'[p] = c /\ Visiting(c) /\ meta'[p] # None
<1> USE ObjectStoreAssumption DEF dbVars, blobVars, storeVars, syncVars, Visiting
<1>0. /\ req \in [Controllers -> RequestSet] /\ req[c] \in RequestSet
      /\ acked \in [Paths -> Controllers \cup {None}] /\ meta \in [Paths -> Hashes \cup {None}]
      /\ NoReq.op = "none" /\ NoReq \in RequestSet /\ NoReq.caller = FALSE
      /\ req[c].op = "put" => req[c].hash \in Hashes /\ req[c].path \in Paths
  BY NoReqType DEF ObjectStoreTypeOK, NoReq
\* The step puts a request r into the loop of c and leaves the rows.
<1>r. ASSUME NEW r \in RequestSet, req' = [req EXCEPT ![c] = r], UNCHANGED <<gate, sync, acked, meta>>,
             r.op \in {"put", "remove"} /\ r.caller => Visiting(c) \/ gate[c]
      PROVE  /\ UNCHANGED <<gate, sync>>
             /\ \A d \in Controllers : Visiting(d)' => Visiting(d) \/ gate[d]
             /\ \A p \in Paths : acked'[p] = acked[p] /\ meta'[p] = meta[p]
  BY <1>0, <1>r
<1>g. ASSUME NEW at \in {"", "persist", "row", "refs", "blob", "blobs", "delete"}
      PROVE  /\ Goes(c, at) \in RequestSet
             /\ Goes(c, at).op \in {"put", "remove"} /\ Goes(c, at).caller => Visiting(c)
  BY <1>0, <1>g DEF Goes, RequestSet
<1>1. CASE StartStore(c)
  BY <1>1 DEF StartStore
<1>2. CASE PutPersist(c)
  BY <1>g, <1>r, <1>2 DEF PutPersist
<1>3. CASE PutRow(c)
  <2> DEFINE p == req[c].path
  <2>1. UNCHANGED <<gate, sync>> /\ req' = [req EXCEPT ![c] = NoReq]
    BY <1>3 DEF PutRow
  <2>2. CASE meta[p] # None
    BY <1>0, <1>r, <1>3, <2>1, <2>2 DEF PutRow
  <2>3. CASE meta[p] = None
    <3>1. /\ meta' = [meta EXCEPT ![p] = req[c].hash] /\ req[c].op = "put" /\ p \in Paths
          /\ acked' = [acked EXCEPT ![p] = IF req[c].caller /\ store[c] = "file" THEN c ELSE None]
      BY <1>0, <1>3, <2>3 DEF PutRow
    <3> QED
      BY <1>0, <2>1, <3>1
  <2> QED
    BY <2>2, <2>3
<1>4. CASE RemoveRow(c)
  <2> DEFINE p == req[c].path
  <2>1. UNCHANGED <<gate, sync>>
    BY <1>4 DEF RemoveRow
  <2>2. CASE meta[p] # None
    <3>1. /\ meta' = [meta EXCEPT ![p] = None] /\ acked' = [acked EXCEPT ![p] = None]
          /\ req' = [req EXCEPT ![c] = Goes(c, "refs")]
      BY <1>4, <2>2 DEF RemoveRow
    <3> QED
      BY <1>0, <1>g, <2>1, <3>1
  <2>3. CASE meta[p] = None
    BY <1>0, <1>r, <1>4, <2>3 DEF RemoveRow
  <2> QED
    BY <2>2, <2>3
<1>5. CASE RemoveRefs(c)
  BY <1>0, <1>g, <1>r, <1>5 DEF RemoveRefs
<1>6. CASE RemoveBlob(c)
  BY <1>0, <1>r, <1>6 DEF RemoveBlob
<1>7. CASE BeginPrune(c)
  <2>1. [NoReq EXCEPT !.op = "prune", !.at = "blobs", !.refs = Refs] \in RequestSet
    BY <1>0, RowsFacts DEF NoReq, RequestSet
  <2> QED
    BY <1>0, <1>r, <1>7, <2>1 DEF BeginPrune, Request, NoReq
<1>8. CASE PruneList(c)
  <2>1. req[c].op = "prune" /\ UNCHANGED <<gate, sync, acked, meta>>
    BY <1>8 DEF PruneList
  <2>2. /\ req'[c] \in {NoReq, [req[c] EXCEPT !.at = "delete", !.refs = Blobs(c) \ req[c].refs]}
        /\ \A d \in Controllers \ {c} : req'[d] = req[d]
    BY <1>0, <1>8 DEF PruneList
  <2>3. req'[c].op \in {"none", "prune"}
    BY <1>0, <2>1, <2>2 DEF RequestSet
  <2> QED
    BY <2>1, <2>2, <2>3
<1>9. CASE CallerLeaves(c)
  BY <1>0, <1>9 DEF CallerLeaves, RequestSet
<1>10. CASE RequestFails(c)
  BY <1>0, <1>r, <1>10 DEF RequestFails
<1>11. ASSUME NEW p \in Paths, BeginRemove(c, p) PROVE UNCHANGED <<gate, sync, acked, meta>> /\ gate[c]
                                                       /\ \A d \in Controllers \ {c} : req'[d] = req[d]
  BY <1>0, <1>11 DEF BeginRemove, Request
<1>12. ASSUME NEW p \in Paths, NEW h \in Hashes, BeginPut(c, p, h)
       PROVE UNCHANGED <<gate, sync, acked, meta>> /\ gate[c] /\ \A d \in Controllers \ {c} : req'[d] = req[d]
  BY <1>0, <1>12 DEF BeginPut, Request
<1>13. ASSUME NEW h \in Hashes, PruneDelete(c, h)
       PROVE  /\ UNCHANGED <<gate, sync, acked, meta>>
              /\ \A d \in Controllers : Visiting(d)' => Visiting(d)
  BY <1>0, <1>13 DEF PruneDelete, RequestSet
<1>14. ASSUME NEW h \in Hashes, Fetch(c, h) PROVE UNCHANGED <<gate, sync, acked, meta, req>>
  BY <1>14 DEF Fetch
<1> QED
  BY <1>0, <1>1, <1>2, <1>3, <1>4, <1>5, <1>6, <1>7, <1>8, <1>9, <1>10, <1>11, <1>12, <1>13, <1>14 DEF StoreStep

\* The stores keep the fence.
LEMMA StoreFence ==
  ASSUME FenceInv, NEW c \in Controllers, StoreStep(c)
  PROVE  FenceInv'
<1>0. IInv /\ ObjectStoreTypeOK /\ AckedHasRow /\ \A d \in Controllers : Fenced(d)
  BY DEF FenceInv, IInv
<1>1. /\ UNCHANGED <<gate, sync>>
      /\ \A d \in Controllers : Visiting(d)' => Visiting(d) \/ gate[d]
      /\ \A p \in Paths : \/ acked'[p] = acked[p] /\ meta'[p] = meta[p]
                          \/ acked'[p] = None
                          \/ acked'[p] = c /\ Visiting(c) /\ meta'[p] # None
  BY <1>0, StoreVisits
<1>2. AckedHasRow'
  BY <1>0, <1>1 DEF AckedHasRow
<1>3. ASSUME NEW d \in Controllers PROVE Fenced(d)'
  <2>1. d # None
    BY ObjectStoreAssumption
  <2>2. sync[d].pc \in {"list", "copy", "flushDrained", "commit"} => ~Visiting(d)'
    BY <1>0, <1>1 DEF Fenced
  <2>3. sync[d].pc \in {"copy", "flushDrained", "commit"} =>
          \A p \in Paths : acked'[p] = d => <<p, meta'[p]>> \in sync[d].listed
    BY <1>0, <1>1, <2>1 DEF Fenced
  <2> QED
    BY <1>0, <1>1, <2>2, <2>3 DEF Fenced
<1> QED
  BY <1>0, <1>2, <1>3, StoreIInv DEF FenceInv

\* The steps of the drainer and the guard, and the start of the drain, keep it:
\* the list is read behind the gate that the Lockdown has shut.
LEMMA SyncFence ==
  ASSUME FenceInv, NEW c \in Controllers,
         SyncStep(c) \/ DrainFails(c) \/ \E r \in {"drainer", "guard"} : WorkerRestarts(c, r)
  PROVE  FenceInv'
<1> USE DEF dbVars, blobVars, storeVars, syncVars
<1>0. IInv /\ ObjectStoreTypeOK /\ AckedHasRow /\ \A d \in Controllers : Fenced(d)
  BY DEF FenceInv, IInv
<1>1. /\ sync \in [Controllers -> SyncSet] /\ sync[c] \in SyncSet /\ gate \in [Controllers -> BOOLEAN]
      /\ req \in [Controllers -> RequestSet] /\ Idle.pc = "idle" /\ NoReq.op = "none"
  BY <1>0, NoReqType, IdleType, SMTT(60) DEF ObjectStoreTypeOK
<1>2. /\ UNCHANGED <<meta, acked>>
      /\ \A d \in Controllers : req'[d] = req[d] \/ req'[d] = NoReq
      /\ \A d \in Controllers \ {c} : sync'[d] = sync[d] /\ gate'[d] = gate[d]
  BY <1>0, <1>1, SyncCovers DEF SyncStep, ReadPhase, ReadBackends, BeginLockdown, EndLockdown, Flush,
     Unlock, ListMetadata, Drained, CompleteDraining, DrainError, DrainFile, DrainFails,
     WorkerRestarts, Goto
<1>3. \A d \in Controllers : Visiting(d)' => Visiting(d)
  BY <1>1, <1>2 DEF Visiting
<1>4. ASSUME NEW d \in Controllers \ {c} PROVE Fenced(d)'
  BY <1>0, <1>2, <1>3 DEF Fenced
<1>5. Fenced(c)'
  <2> DEFINE fence == {"list", "copy", "flushDrained", "commit"}
             full == {"copy", "flushDrained", "commit"}
  <2>0. /\ sync[c].pc \in fence \cup {"waitToDrain"} => ~gate[c]
        /\ sync[c].pc \in fence => ~Visiting(c)
        /\ sync[c].pc \in full => \A p \in Paths : acked[p] = c => <<p, meta[p]>> \in sync[c].listed
    BY <1>0 DEF Fenced
  <2>i. ASSUME sync'[c].pc \notin fence \cup {"waitToDrain"} PROVE Fenced(c)'
    BY <2>i DEF Fenced
  \* The worker goes on behind the gate, with the list it had.
  <2>g. ASSUME gate'[c] = gate[c], sync[c].pc \in fence, sync'[c].listed = sync[c].listed,
               sync'[c].pc \in full => sync[c].pc \in full
        PROVE  Fenced(c)'
    BY <1>2, <1>3, <2>0, <2>g DEF Fenced
  <2>1. CASE ReadPhase(c)
    BY <1>1, <2>i, <2>1 DEF ReadPhase, Goto, SyncSet
  <2>2. CASE ReadBackends(c)
    BY <1>1, <2>i, <2>2 DEF ReadBackends, Goto, SyncSet
  <2>3. CASE BeginLockdown(c)
    <3>1. gate'[c] = FALSE /\ sync'[c].pc \in {"wait", "waitToDrain"}
      BY <1>1, <2>3 DEF BeginLockdown, SyncSet
    <3> QED
      BY <3>1 DEF Fenced
  <2>4. CASE EndLockdown(c)
    <3>1. /\ gate' = gate /\ ~Visiting(c)
          /\ \/ sync'[c].pc = "idle"
             \/ sync'[c].pc = "list" /\ sync[c].pc = "waitToDrain"
      BY <1>1, <2>4 DEF EndLockdown, Goto, SyncSet
    <3> QED
      BY <1>3, <2>0, <3>1 DEF Fenced
  <2>5. CASE Flush(c)
    <3>1. /\ gate' = gate /\ sync'[c].listed = sync[c].listed
          /\ \/ sync'[c].pc = "unlock"
             \/ sync'[c].pc = "commit" /\ sync[c].pc = "flushDrained"
      BY <1>1, <2>5 DEF Flush, SyncSet
    <3> QED
      BY <2>i, <2>g, <3>1
  <2>6. CASE Unlock(c) \/ CompleteDraining(c) \/ DrainError(c) \/ \E r \in {"drainer", "guard"} : WorkerRestarts(c, r)
    <3>1. sync' = [sync EXCEPT ![c] = Idle]
      BY <2>6 DEF Unlock, CompleteDraining, DrainError, WorkerRestarts
    <3> QED
      BY <1>1, <2>i, <3>1
  <2>7. CASE ListMetadata(c)
    <3>1. gate' = gate /\ sync'[c].pc = "copy" /\ sync'[c].listed = Rows /\ sync[c].pc = "list"
      BY <1>1, <2>7 DEF ListMetadata, SyncSet
    <3>2. \A p \in Paths : acked[p] = c => <<p, meta[p]>> \in Rows
      BY <1>0, ObjectStoreAssumption, RowsFacts DEF AckedHasRow
    <3> QED
      BY <1>2, <1>3, <2>0, <3>1, <3>2 DEF Fenced
  <2>8. CASE Drained(c)
    <3>1. /\ gate' = gate /\ sync'[c].listed = sync[c].listed /\ sync[c].pc = "copy"
          /\ sync'[c].pc = "flushDrained"
      BY <1>1, <2>8 DEF Drained, Goto, SyncSet
    <3> QED
      BY <2>g, <3>1
  <2>9. CASE \E r \in sync[c].rows : DrainFile(c, r)
    <3>1. gate' = gate /\ sync'[c].listed = sync[c].listed /\ sync[c].pc = "copy"
      BY <1>1, <2>9 DEF DrainFile, SyncSet
    <3> QED
      BY <2>g, <3>1
  <2>10. CASE DrainFails(c)
    <3>1. /\ gate' = gate /\ sync'[c].listed = sync[c].listed
          /\ sync[c].pc \in {"list", "copy", "flushDrained", "commit"}
          /\ sync'[c].pc \in {"list", "fail"}
      BY <1>1, <2>10 DEF DrainFails, SyncSet
    <3> QED
      BY <2>g, <3>1
  <2> QED
    BY <2>1, <2>2, <2>3, <2>4, <2>5, <2>6, <2>7, <2>8, <2>9, <2>10 DEF SyncStep
<1>6. AckedHasRow'
  BY <1>0, <1>2 DEF AckedHasRow
<1> QED
  BY <1>0, <1>4, <1>5, <1>6, SyncIInv DEF FenceInv

\* The fence is inductive.
LEMMA NextFence == FenceInv /\ [Next]_vars => FenceInv'
<1> SUFFICES ASSUME FenceInv, [Next]_vars PROVE FenceInv'
  OBVIOUS
<1>0. IInv
  BY DEF FenceInv
<1>1. CASE UNCHANGED vars
  <2>1. IInv'
    BY <1>0, <1>1, NextIInv
  <2> QED
    BY <1>1, <2>1 DEF FenceInv, AckedHasRow, Fenced, Visiting, vars, dbVars, blobVars, storeVars, syncVars
<1>2. CASE TransitionBackendToS3
  <2>1. IInv' /\ UNCHANGED <<meta, acked, gate, req, sync>>
    BY <1>0, <1>2, TransitionIInv DEF TransitionBackendToS3, storeVars
  <2> QED
    BY <2>1 DEF FenceInv, AckedHasRow, Fenced, Visiting
<1>3. ASSUME NEW c \in Controllers, StoreStep(c) PROVE FenceInv'
  BY <1>3, StoreFence
<1>4. ASSUME NEW c \in Controllers,
             SyncStep(c) \/ DrainFails(c) \/ \E r \in {"drainer", "guard"} : WorkerRestarts(c, r)
      PROVE FenceInv'
  BY <1>4, SyncFence
<1> QED
  BY <1>1, <1>2, <1>3, <1>4 DEF Next

\* The controller whose drainer completes the drain has listed every write that
\* its own file store acknowledged and that still has its row: Lockdown fences
\* the writes (drainer's loop, completeDraining), for any number of controllers,
\* attempts, restarts and drainers at once.
THEOREM DrainListsWrites == Spec => DrainListsOwnWrites
<1>1. Init => FenceInv
  <2> SUFFICES ASSUME Init PROVE FenceInv
    OBVIOUS
  <2>1. AckedHasRow /\ \A c \in Controllers : Fenced(c)
    BY IdleType DEF Init, AckedHasRow, Fenced
  <2> QED
    BY <2>1, InitIInv DEF FenceInv
<1>2. FenceInv => \A c \in Controllers :
        (sync[c].pc = "commit" /\ drain = "draining" /\ drain' = "completed")
          => \A p \in Paths : acked[p] = c => <<p, meta[p]>> \in sync[c].listed
  BY DEF FenceInv, Fenced
<1>3. Spec => []FenceInv
  BY <1>1, NextFence, PTL DEF Spec
<1> QED
  BY <1>2, <1>3, PTL DEF DrainListsOwnWrites
=============================================================================
