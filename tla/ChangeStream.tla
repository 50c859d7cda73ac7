---------------------------- MODULE ChangeStream ----------------------------
(***************************************************************************)
(* The change log of one Juju database, the change streams that read it    *)
(* (one per controller), and the pruner that shortens it.                  *)
(*                                                                         *)
(*   change_log          rows written by the database's triggers;          *)
(*   change_log_witness  one row per controller: how far it has got;       *)
(*   stream.Stream       polls the log, hands a term of coalesced changes  *)
(*                       to the event multiplexer, waits for the term to   *)
(*                       be done, and now and then writes a watermark;     *)
(*   State.Prune         deletes what every witness has passed.            *)
(*                                                                         *)
(* The consumer of the terms is the environment here (it completes or      *)
(* aborts a term at will); ChangeNotification puts the event multiplexer   *)
(* in its place.                                                           *)
(***************************************************************************)
EXTENDS Integers, Sequences, FiniteSets

CONSTANTS
    Controllers,        \* the controllers, each with a stream on this log
    Keys,               \* (namespace, changed) pairs: what a row is about
    Edits,              \* edit types: create, update, delete
    NumTermWatermarks,  \* changestream.DefaultNumTermWatermarks
    MaxChanges          \* bound: rows ever written to the log

ASSUME NumTermWatermarksAssumption == NumTermWatermarks \in Nat \ {0}
ASSUME MaxChangesAssumption == MaxChanges \in Nat

VARIABLES
    change_log,     \* table: row id -> [key, edit]
    nextId,         \* the AUTOINCREMENT sequence of change_log
    witness,        \* table change_log_witness: controller -> [lower, upper]
    phase,          \* where each stream's loop is
    watermarks,     \* Stream.watermarks, per controller
    lastRecorded,   \* Stream.lastRecordedWatermark
    term,           \* the term the stream has read and not finished
    born            \* history: nextId when the stream began to stream

dbVars == <<change_log, nextId, witness>>
streamVars == <<phase, watermarks, lastRecorded, term, born>>
vars == <<dbVars, streamVars>>

Ids == Nat \ {0}
Rows == [key : Keys, edit : Edits]
Events == [id : Ids, key : Keys, edit : Edits]
Views == [lower : Int, upper : Int]

\* The nil *termView. Its bounds are what upperBound returns for nil.
NoView == [lower |-> -1, upper |-> -1]

NoTerm == [changes |-> {}, lower |-> -1, upper |-> -1]

(* "down": no worker. "starting": before createWatermark. "loop": at the   *)
(* select. "blocked": in the inner loop of the file notifier. "send": a    *)
(* term offered on the terms channel. "wait": for the term to be done.     *)
Phases == {"down", "starting", "loop", "blocked", "send", "wait"}

\* The phases in which the stream has its witness and serves its consumer.
Streaming(c) == phase[c] \notin {"down", "starting"}

Init ==
    /\ change_log = [i \in {} |-> 0]
    /\ nextId = 1
    /\ witness = [c \in {} |-> NoView]
    /\ phase = [c \in Controllers |-> "down"]
    /\ watermarks = [c \in Controllers |-> <<>>]
    /\ lastRecorded = [c \in Controllers |-> NoView]
    /\ term = [c \in Controllers |-> NoTerm]
    /\ born = [c \in Controllers |-> 1]

-----------------------------------------------------------------------------
(* The database *)

\* Mutant of WriteRow: the row is written ahead of the sequence.
WriteRowAhead(k, e) ==
    /\ nextId <= MaxChanges
    /\ change_log' = [i \in DOMAIN change_log \union {nextId + 1} |->
                        IF i = nextId + 1 THEN [key |-> k, edit |-> e]
                                          ELSE change_log[i]]
    /\ nextId' = nextId + 1

\* A trigger appends a row: some transaction changed the thing k.
WriteRow(k, e) ==
    /\ nextId <= MaxChanges
    /\ change_log' = [i \in DOMAIN change_log \union {nextId} |->
                        IF i = nextId THEN [key |-> k, edit |-> e]
                                      ELSE change_log[i]]
    /\ nextId' = nextId + 1

\* Mutant of LowestWatermarks: sorted the other way round.
HighestWatermarks ==
    {c \in DOMAIN witness :
        \A d \in DOMAIN witness : witness[c].lower >= witness[d].lower}

\* The witness rows the pruner sorts first: those with the least lower bound.
LowestWatermarks ==
    {c \in DOMAIN witness :
        \A d \in DOMAIN witness : witness[c].lower <= witness[d].lower}

DeleteChangeLog(lowest) ==
    change_log' = [i \in {j \in DOMAIN change_log : j > lowest} |->
                     change_log[i]]

\* No witnesses leave the zero Watermark, whose lower bound is 0.
Prune ==
    /\ \/ DOMAIN witness = {} /\ DeleteChangeLog(0)
       \/ \E c \in LowestWatermarks : DeleteChangeLog(witness[c].lower)
    /\ UNCHANGED <<nextId, witness, streamVars>>

-----------------------------------------------------------------------------
(* The stream *)

\* The highest change the stream has completed in this incarnation.
UpperBound(c) ==
    IF watermarks[c] = <<>>
    THEN lastRecorded[c].upper
    ELSE watermarks[c][Len(watermarks[c])].upper

\* Mutant of Unread: the query compares with >= instead of >.
UnreadAgain(c) == {i \in DOMAIN change_log : i >= UpperBound(c)}

\* Rows the stream has still to read.
Unread(c) == {i \in DOMAIN change_log : i > UpperBound(c)}

\* Mutant of Coalesce: MIN(id) for MAX(id) among the rows of a key.
CoalesceFirst(ids) ==
    {[id |-> i, key |-> change_log[i].key, edit |-> change_log[i].edit] :
        i \in {j \in ids :
                 \A l \in ids : change_log[l].key = change_log[j].key
                                  => l >= j}}

\* GROUP BY namespace, changed with MAX(id): one event for each key, the last.
Coalesce(ids) ==
    {[id |-> i, key |-> change_log[i].key, edit |-> change_log[i].edit] :
        i \in {j \in ids :
                 \A l \in ids : change_log[l].key = change_log[j].key
                                  => l <= j}}

\* The worker is (re)started, with a buffer of nil views.
StartStream(c) ==
    /\ phase[c] = "down"
    /\ phase' = [phase EXCEPT ![c] = "starting"]
    /\ watermarks' = [watermarks EXCEPT
                        ![c] = [i \in 1..NumTermWatermarks |-> NoView]]
    /\ UNCHANGED <<lastRecorded, term, born, dbVars>>

\* INSERT ... ON CONFLICT DO NOTHING: a former incarnation's row is kept.
CreateWatermark(c) ==
    /\ phase[c] = "starting"
    /\ witness' = [d \in DOMAIN witness \union {c} |->
                     IF d \in DOMAIN witness THEN witness[d] ELSE NoView]
    /\ phase' = [phase EXCEPT ![c] = "loop"]
    /\ born' = [born EXCEPT ![c] = nextId]
    /\ UNCHANGED <<change_log, nextId, watermarks, lastRecorded, term>>

\* The loop's default case. No unread row: back off and poll again.
ReadChanges(c) ==
    /\ phase[c] = "loop"
    /\ LET events == Coalesce(Unread(c)) IN
       \E lo, hi \in events :
          /\ \A e \in events : lo.id <= e.id /\ e.id <= hi.id
          /\ term' = [term EXCEPT ![c] = [changes |-> events,
                                          lower |-> lo.id,
                                          upper |-> hi.id]]
    /\ phase' = [phase EXCEPT ![c] = "send"]
    /\ UNCHANGED <<watermarks, lastRecorded, born, dbVars>>

\* The consumer takes the term from the unbuffered terms channel.
SendTerm(c) ==
    /\ phase[c] = "send"
    /\ phase' = [phase EXCEPT ![c] = "wait"]
    /\ UNCHANGED <<watermarks, lastRecorded, term, born, dbVars>>

\* The last NumTermWatermarks views, v the newest.
RecordTermView(ws, v) ==
    LET all == Append(ws, v) IN
    IF Len(all) > NumTermWatermarks
    THEN SubSeq(all, Len(all) - NumTermWatermarks + 1, Len(all))
    ELSE all

\* The consumer has completed the term.
TermDone(c) ==
    /\ phase[c] = "wait"
    /\ watermarks' = [watermarks EXCEPT
                        ![c] = RecordTermView(@, [lower |-> term[c].lower,
                                                  upper |-> term[c].upper])]
    /\ term' = [term EXCEPT ![c] = NoTerm]
    /\ phase' = [phase EXCEPT ![c] = "loop"]
    /\ UNCHANGED <<lastRecorded, born, dbVars>>

\* The consumer is dying and closed the done channel: read it all again.
TermAborted(c) ==
    /\ phase[c] = "wait"
    /\ term' = [term EXCEPT ![c] = NoTerm]
    /\ phase' = [phase EXCEPT ![c] = "loop"]
    /\ UNCHANGED <<watermarks, lastRecorded, born, dbVars>>

\* processWatermark's guard: the buffer is full and its head is a real view.
WatermarkDue(c) ==
    /\ phase[c] = "loop"
    /\ Len(watermarks[c]) >= NumTermWatermarks
    /\ Head(watermarks[c]) # NoView

\* Mutant of PopWatermark: the views up to the newest go with the oldest.
PopAllWatermarks(c) ==
    /\ watermarks' = [watermarks EXCEPT ![c] = <<>>]
    /\ lastRecorded' = [lastRecorded EXCEPT ![c] = Head(watermarks[c])]

PopWatermark(c) ==
    /\ watermarks' = [watermarks EXCEPT ![c] = Tail(@)]
    /\ lastRecorded' = [lastRecorded EXCEPT ![c] = Head(watermarks[c])]

\* The watermark timer fires and the transaction commits.
UpdateWatermark(c) ==
    /\ WatermarkDue(c)
    /\ c \in DOMAIN witness
    /\ witness' = [witness EXCEPT ![c] = Head(watermarks[c])]
    /\ PopWatermark(c)
    /\ UNCHANGED <<change_log, nextId, phase, term, born>>

(* The same, when the commit fails: the pop, made inside the transaction's *)
(* function, stays. The retry finds a buffer that is no longer full and    *)
(* commits nothing.                                                        *)
UpdateWatermarkLost(c) ==
    /\ WatermarkDue(c)
    /\ PopWatermark(c)
    /\ UNCHANGED <<phase, term, born, dbVars>>

\* The file notifier saw the block file created, then removed.
Block(c) ==
    /\ phase[c] = "loop"
    /\ phase' = [phase EXCEPT ![c] = "blocked"]
    /\ UNCHANGED <<watermarks, lastRecorded, term, born, dbVars>>

Unblock(c) ==
    /\ phase[c] = "blocked"
    /\ phase' = [phase EXCEPT ![c] = "loop"]
    /\ UNCHANGED <<watermarks, lastRecorded, term, born, dbVars>>

(* The worker stops: killed with its controller, a database error, or a    *)
(* term that was not completed in time. What it held in memory is gone.    *)
Die(c) ==
    /\ phase[c] # "down"
    /\ phase' = [phase EXCEPT ![c] = "down"]
    /\ watermarks' = [watermarks EXCEPT ![c] = <<>>]
    /\ lastRecorded' = [lastRecorded EXCEPT ![c] = NoView]
    /\ term' = [term EXCEPT ![c] = NoTerm]
    /\ born' = [born EXCEPT ![c] = 1]
    /\ UNCHANGED dbVars

StreamNext(c) ==
    \/ StartStream(c) \/ CreateWatermark(c)
    \/ ReadChanges(c) \/ SendTerm(c) \/ TermDone(c) \/ TermAborted(c)
    \/ UpdateWatermark(c) \/ UpdateWatermarkLost(c)
    \/ Block(c) \/ Unblock(c) \/ Die(c)

Write(k, e) == WriteRow(k, e) /\ UNCHANGED <<witness, streamVars>>

Next ==
    \/ \E k \in Keys, e \in Edits : Write(k, e)
    \/ Prune
    \/ \E c \in Controllers : StreamNext(c)

Spec == Init /\ [][Next]_vars

-----------------------------------------------------------------------------
(* Properties *)

(* Types of the log, the witness table and the streams' state. Row ids are  *)
(* below the table's AUTOINCREMENT sequence, pruned ones never come back.   *)
TypeOK ==
    /\ nextId \in Ids
    /\ DOMAIN change_log \subseteq 1..(nextId - 1)
    /\ \A i \in DOMAIN change_log : change_log[i] \in Rows
    /\ DOMAIN witness \subseteq Controllers
    /\ \A c \in DOMAIN witness : witness[c] \in Views
    /\ phase \in [Controllers -> Phases]
    /\ watermarks \in [Controllers -> Seq(Views)]
    /\ lastRecorded \in [Controllers -> Views]
    /\ term \in [Controllers ->
                   [changes : SUBSET Events, lower : Int, upper : Int]]
    /\ born \in [Controllers -> Ids]

(* A change made since a stream began to serve its consumer stays in the   *)
(* log until that stream has completed a term with it, whatever the other  *)
(* controllers and the pruner do, and across restarts that keep an old     *)
(* witness row (State.Prune against Stream.updateWatermark).               *)
UnreadNeverPruned ==
    \A c \in Controllers :
        Streaming(c) =>
            \A i \in born[c]..(nextId - 1) :
                i > UpperBound(c) => i \in DOMAIN change_log

(* The term being processed leaves out no key: every row since the last    *)
(* completed term up to the term's own bound is in the term by a row of    *)
(* the same key that is at least as new (Stream.readChanges' GROUP BY), so *)
(* completing it may move the upper bound over all of them.                *)
TermCoversKeys ==
    \A c \in Controllers :
        phase[c] \in {"send", "wait"} =>
            \A i \in DOMAIN change_log :
                i > UpperBound(c) /\ i <= term[c].upper =>
                    \E e \in term[c].changes :
                        e.key = change_log[i].key /\ e.id >= i

(* The comments of recordTermView and processWatermark rely on views that  *)
(* move forward: the buffered views, the last recorded one and the term in *)
(* hand cover disjoint, increasing ranges of ids.                          *)
ViewsAdvance ==
    \A c \in Controllers : Streaming(c) =>
        /\ \A i, j \in DOMAIN watermarks[c] :
              i < j /\ watermarks[c][j] # NoView
                => watermarks[c][i].upper < watermarks[c][j].lower
        /\ \A i \in DOMAIN watermarks[c] :
              watermarks[c][i] # NoView
                => lastRecorded[c].upper < watermarks[c][i].lower
        /\ term[c] # NoTerm => UpperBound(c) < term[c].lower

(* While a stream lives its upper bound never moves back, so it never      *)
(* hands its consumer a completed change again.                            *)
UpperBoundMonotone ==
    [][\A c \in Controllers :
          Streaming(c) /\ Streaming(c)' => UpperBound(c)' >= UpperBound(c)]_vars
=============================================================================
