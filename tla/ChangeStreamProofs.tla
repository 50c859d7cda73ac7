------------------------- MODULE ChangeStreamProofs -------------------------
(***************************************************************************)
(* Proofs about ChangeStream for every set of controllers, keys and edit   *)
(* types, every length of the watermark buffer and every number of         *)
(* changes: its types, that no unread change is pruned, that no stream     *)
(* goes back, that its views advance, and that its terms cover their keys. *)
(***************************************************************************)
EXTENDS ChangeStream, FiniteSetTheorems, WellFoundedInduction, TLAPS

(* The parts of the inductive invariant.                                   *)

\* What a stream holds in memory lies between its bounds and the log's end.
BufferBounded(c) ==
    /\ \A i \in DOMAIN watermarks[c] :
          /\ watermarks[c][i].lower <= watermarks[c][i].upper
          /\ watermarks[c][i].upper <= UpperBound(c)
    /\ lastRecorded[c].upper <= UpperBound(c)
    /\ UpperBound(c) < nextId

\* The term in hand lies above everything completed and below the log's end.
TermBounded(c) ==
    phase[c] \in {"send", "wait"} =>
        /\ UpperBound(c) < term[c].lower
        /\ term[c].lower <= term[c].upper
        /\ term[c].upper < nextId

(* A streaming controller has a witness row, which points below the        *)
(* incarnation's first change or at something it has completed.            *)
WitnessBehind(c) ==
    /\ c \in DOMAIN witness
    /\ witness[c].lower < born[c] \/ witness[c].lower <= UpperBound(c)

StreamInv(c) ==
    /\ BufferBounded(c)
    /\ TermBounded(c)
    /\ born[c] <= nextId
    /\ phase[c] = "down" => lastRecorded[c] = NoView
    /\ Streaming(c) => WitnessBehind(c)

IInv ==
    /\ TypeOK
    /\ \A c \in DOMAIN witness : witness[c].lower < nextId
    /\ \A c \in Controllers : StreamInv(c)
    /\ UnreadNeverPruned

-----------------------------------------------------------------------------
(* Lemmas about the buffer.                                                *)

(* recordTermView keeps the newest view last, and otherwise only views     *)
(* that were there.                                                        *)
LEMMA RecordTermViewFacts ==
    ASSUME NEW ws \in Seq(Views), NEW v \in Views
    PROVE  LET r == RecordTermView(ws, v) IN
           /\ r \in Seq(Views)
           /\ r # <<>>
           /\ r[Len(r)] = v
           /\ \A i \in DOMAIN r : r[i] = v \/ \E j \in DOMAIN ws : r[i] = ws[j]
<1> DEFINE all == Append(ws, v)
           n == NumTermWatermarks
<1>1. /\ all \in Seq(Views) /\ Len(all) = Len(ws) + 1 /\ all[Len(all)] = v
      /\ \A i \in 1..Len(ws) : all[i] = ws[i]
      /\ Len(ws) \in Nat /\ n \in Nat /\ n >= 1
  BY NumTermWatermarksAssumption
<1>2. RecordTermView(ws, v) = IF Len(all) > n
                              THEN SubSeq(all, Len(all) - n + 1, Len(all))
                              ELSE all
  BY DEF RecordTermView
<1> HIDE DEF all, n
<1>3. CASE Len(all) > n
  <2> DEFINE r == SubSeq(all, Len(all) - n + 1, Len(all))
  <2>1. /\ r \in Seq(Views) /\ Len(r) = n
        /\ \A i \in 1..n : r[i] = all[Len(all) - n + i]
    BY <1>1, <1>3
  <2>2. RecordTermView(ws, v) = r
    BY <1>2, <1>3
  <2> HIDE DEF r
  <2>3. r[Len(r)] = v
    BY <1>1, <2>1
  <2>4. ASSUME NEW i \in DOMAIN r
        PROVE  r[i] = v \/ \E j \in DOMAIN ws : r[i] = ws[j]
    <3>1. i \in 1..n
      BY <2>1
    <3>2. CASE i = n
      BY <3>2, <2>1, <2>3
    <3>3. CASE i < n
      <4>1. Len(all) - n + i \in 1..Len(ws)
        BY <3>1, <3>3, <1>1, <1>3
      <4>2. r[i] = ws[Len(all) - n + i]
        BY <4>1, <3>1, <1>1, <2>1
      <4>3. Len(all) - n + i \in DOMAIN ws
        BY <4>1
      <4> QED
        BY <4>2, <4>3
    <3> QED
      BY <3>1, <3>2, <3>3, <1>1
  <2>5. r # <<>>
    BY <2>1, <1>1
  <2> QED
    BY <2>1, <2>2, <2>3, <2>4, <2>5
<1>4. CASE ~(Len(all) > n)
  <2>1. RecordTermView(ws, v) = all
    BY <1>2, <1>4
  <2>2. ASSUME NEW i \in DOMAIN all
        PROVE  all[i] = v \/ \E j \in DOMAIN ws : all[i] = ws[j]
    BY <1>1
  <2>3. all # <<>>
    BY <1>1
  <2> QED
    BY <2>1, <2>2, <2>3, <1>1
<1> QED
  BY <1>3, <1>4

\* An action that moves no stream variable of d but may move the log's end.
LEMMA UpperBoundUnchanged ==
    ASSUME NEW d, watermarks'[d] = watermarks[d], lastRecorded'[d] = lastRecorded[d]
    PROVE  UpperBound(d)' = UpperBound(d)
BY DEF UpperBound

\* The upper bound is an integer.
LEMMA UpperBoundType ==
    ASSUME TypeOK, NEW c \in Controllers
    PROVE  UpperBound(c) \in Int
<1>1. watermarks[c] \in Seq(Views) /\ lastRecorded[c] \in Views
  BY DEF TypeOK
<1>2. CASE watermarks[c] = <<>>
  BY <1>1, <1>2 DEF UpperBound, Views
<1>3. CASE watermarks[c] # <<>>
  <2>1. watermarks[c][Len(watermarks[c])] \in Views
    BY <1>1, <1>3
  <2> QED
    BY <1>3, <2>1 DEF UpperBound, Views
<1> QED
  BY <1>2, <1>3

(* Popping the head of a full buffer keeps the newest view: as the last of  *)
(* the buffer or, when it was alone there, as the last recorded watermark.  *)
LEMMA PopKeepsUpperBound ==
    ASSUME TypeOK, NEW c \in Controllers, WatermarkDue(c), PopWatermark(c)
    PROVE  UpperBound(c)' = UpperBound(c)
<1> DEFINE h == Head(watermarks[c])
           t == Tail(watermarks[c])
           n == Len(watermarks[c])
<1>1. /\ watermarks[c] \in Seq(Views) /\ n \in Nat /\ n # 0
      /\ watermarks'[c] = t /\ lastRecorded'[c] = h
  BY NumTermWatermarksAssumption DEF TypeOK, WatermarkDue, PopWatermark
<1>2. /\ h = watermarks[c][1] /\ t \in Seq(Views) /\ Len(t) = n - 1
      /\ \A i \in 1..Len(t) : t[i] = watermarks[c][i + 1]
  BY <1>1
<1> HIDE DEF h, t
<1>3. CASE n = 1
  <2>1. t = <<>> /\ watermarks[c] # <<>> /\ UpperBound(c) = h.upper
    BY <1>1, <1>2, <1>3 DEF UpperBound
  <2> QED
    BY <2>1, <1>1 DEF UpperBound
<1>4. CASE n > 1
  <2>1. t # <<>> /\ watermarks[c] # <<>> /\ t[Len(t)] = watermarks[c][n]
    BY <1>1, <1>2, <1>4
  <2> QED
    BY <2>1, <1>1 DEF UpperBound
<1>5. \A m \in Nat : m # 0 => m = 1 \/ m > 1
  OBVIOUS
<1> QED
  BY <1>1, <1>3, <1>4, <1>5
-----------------------------------------------------------------------------
(* The inductive invariant.                                                *)

\* The empty log, with no stream running, satisfies the invariant.
LEMMA InitIInv == Init => IInv
<1> SUFFICES ASSUME Init PROVE IInv
  OBVIOUS
<1>1. TypeOK
  BY DEF Init, TypeOK, Ids, Phases, Views, NoView, NoTerm, Events
<1>2. ASSUME NEW c \in Controllers PROVE StreamInv(c)
  BY DEF Init, StreamInv, BufferBounded, TermBounded, UpperBound, Streaming,
         NoView, NoTerm
<1>3. UnreadNeverPruned
  BY DEF Init, UnreadNeverPruned, Streaming
<1>4. \A c \in DOMAIN witness : witness[c].lower < nextId
  BY DEF Init
<1> QED
  BY <1>1, <1>2, <1>3, <1>4 DEF IInv

(* Nothing a controller other than c does touches c's part.                *)
LEMMA OthersKeepStreamInv ==
    ASSUME IInv, NEW d \in Controllers,
           phase'[d] = phase[d], watermarks'[d] = watermarks[d],
           lastRecorded'[d] = lastRecorded[d], term'[d] = term[d],
           born'[d] = born[d], nextId' \in Ids, nextId' >= nextId,
           d \in DOMAIN witness => d \in DOMAIN witness' /\ witness'[d] = witness[d]
    PROVE  StreamInv(d)'
<1>1. UpperBound(d)' = UpperBound(d) /\ UpperBound(d) \in Int
  BY UpperBoundUnchanged, UpperBoundType DEF IInv
<1>2. nextId \in Int /\ nextId' \in Int /\ born[d] \in Int /\ StreamInv(d)
  BY DEF IInv, TypeOK, Ids
<1>3. BufferBounded(d)'
  BY <1>1, <1>2 DEF StreamInv, BufferBounded
<1>4. TermBounded(d)'
  <2>1. term[d].upper \in Int
    BY DEF IInv, TypeOK
  <2> QED
    BY <1>1, <1>2, <2>1 DEF StreamInv, TermBounded
<1>5. Streaming(d)' => WitnessBehind(d)'
  BY <1>1, <1>2 DEF StreamInv, WitnessBehind, Streaming
<1> QED
  BY <1>2, <1>3, <1>4, <1>5 DEF StreamInv

-----------------------------------------------------------------------------
(* Type correctness, one step per action.                                  *)

\* Every step of the writers, the pruner and the streams keeps the types.
LEMMA TypeStep == TypeOK /\ [Next]_vars => TypeOK'
<1> SUFFICES ASSUME TypeOK, [Next]_vars PROVE TypeOK'
  OBVIOUS
<1> USE DEF TypeOK, dbVars, streamVars
<1>1. ASSUME NEW k \in Keys, NEW e \in Edits, Write(k, e) PROVE TypeOK'
  <2>1. /\ DOMAIN change_log' = DOMAIN change_log \union {nextId}
        /\ nextId' = nextId + 1
        /\ change_log'[nextId] = [key |-> k, edit |-> e]
        /\ \A i \in DOMAIN change_log : change_log'[i] = change_log[i]
    BY <1>1 DEF Write, WriteRow, Ids
  <2>2. [key |-> k, edit |-> e] \in Rows
    BY DEF Rows
  <2>3. nextId' \in Ids /\ DOMAIN change_log' \subseteq 1..(nextId' - 1)
    BY <2>1 DEF Ids
  <2>4. \A i \in DOMAIN change_log' : change_log'[i] \in Rows
    BY <2>1, <2>2
  <2> QED
    BY <1>1, <2>3, <2>4 DEF Write
<1>2. ASSUME Prune PROVE TypeOK'
  BY <1>2 DEF Prune, DeleteChangeLog
<1>3. ASSUME NEW c \in Controllers, StartStream(c) PROVE TypeOK'
  <2>1. [i \in 1..NumTermWatermarks |-> NoView] \in Seq(Views)
    BY NumTermWatermarksAssumption DEF NoView, Views
  <2> QED
    BY <1>3, <2>1 DEF StartStream, Phases
<1>4. ASSUME NEW c \in Controllers, CreateWatermark(c) PROVE TypeOK'
  <2>1. NoView \in Views
    BY DEF NoView, Views
  <2> QED
    BY <1>4, <2>1 DEF CreateWatermark, Phases
<1>5. ASSUME NEW c \in Controllers, ReadChanges(c) PROVE TypeOK'
  <2> DEFINE events == Coalesce(Unread(c))
  <2>1. events \subseteq Events
    BY DEF Coalesce, Unread, Events, Rows, Ids
  <2>2. PICK lo \in events, hi \in events :
          term' = [term EXCEPT ![c] = [changes |-> events,
                                       lower |-> lo.id, upper |-> hi.id]]
    BY <1>5 DEF ReadChanges
  <2>3. lo.id \in Int /\ hi.id \in Int
    BY <2>1 DEF Events, Ids
  <2> HIDE DEF events
  <2>4. [changes |-> events, lower |-> lo.id, upper |-> hi.id]
          \in [changes : SUBSET Events, lower : Int, upper : Int]
    BY <2>1, <2>3
  <2> QED
    BY <1>5, <2>2, <2>4 DEF ReadChanges, Phases
<1>6. ASSUME NEW c \in Controllers, SendTerm(c) PROVE TypeOK'
  BY <1>6 DEF SendTerm, Phases
<1>7. ASSUME NEW c \in Controllers, TermDone(c) PROVE TypeOK'
  <2> DEFINE v == [lower |-> term[c].lower, upper |-> term[c].upper]
             r == RecordTermView(watermarks[c], v)
  <2>1. v \in Views /\ watermarks[c] \in Seq(Views)
    BY DEF Views
  <2>2. r \in Seq(Views)
    BY <2>1, RecordTermViewFacts
  <2>3. watermarks' = [watermarks EXCEPT ![c] = r]
    BY <1>7 DEF TermDone
  <2> HIDE DEF r
  <2>4. watermarks' \in [Controllers -> Seq(Views)]
    BY <2>2, <2>3
  <2> QED
    BY <1>7, <2>4 DEF TermDone, Phases, NoTerm, Events
<1>8. ASSUME NEW c \in Controllers, TermAborted(c) PROVE TypeOK'
  BY <1>8 DEF TermAborted, Phases, NoTerm, Events
<1>9. ASSUME NEW c \in Controllers, WatermarkDue(c), PopWatermark(c)
      PROVE  /\ watermarks' \in [Controllers -> Seq(Views)]
             /\ lastRecorded' \in [Controllers -> Views]
             /\ Head(watermarks[c]) \in Views
  BY <1>9, NumTermWatermarksAssumption DEF WatermarkDue, PopWatermark
<1>10. ASSUME NEW c \in Controllers, UpdateWatermark(c) PROVE TypeOK'
  BY <1>9, <1>10 DEF UpdateWatermark
<1>11. ASSUME NEW c \in Controllers, UpdateWatermarkLost(c) PROVE TypeOK'
  BY <1>9, <1>11 DEF UpdateWatermarkLost
<1>12. ASSUME NEW c \in Controllers, Block(c) \/ Unblock(c) PROVE TypeOK'
  BY <1>12 DEF Block, Unblock, Phases
<1>13. ASSUME NEW c \in Controllers, Die(c) PROVE TypeOK'
  BY <1>13 DEF Die, Phases, Views, NoView, NoTerm, Events, Ids
<1>14. CASE UNCHANGED vars
  BY <1>14 DEF vars
<1> QED
  BY <1>1, <1>2, <1>3, <1>4, <1>5, <1>6, <1>7, <1>8, <1>10, <1>11, <1>12,
     <1>13, <1>14 DEF Next, StreamNext

(* Every variable keeps its type, whatever the constants.                  *)
THEOREM TypeCorrect == Spec => []TypeOK
<1>1. Init => TypeOK
  BY InitIInv DEF IInv
<1> QED
  BY <1>1, TypeStep, PTL DEF Spec

-----------------------------------------------------------------------------
(* No unread change is pruned.                                             *)

(* Only c moves: its own part of the invariant is what is left to show,    *)
(* when the log and the witness rows of the others stay.                   *)
LEMMA LocalStep ==
    ASSUME IInv, TypeOK', NEW c \in Controllers,
           \A d \in Controllers \ {c} :
               /\ phase'[d] = phase[d] /\ watermarks'[d] = watermarks[d]
               /\ lastRecorded'[d] = lastRecorded[d] /\ term'[d] = term[d]
               /\ born'[d] = born[d],
           UNCHANGED <<change_log, nextId>>,
           \A d \in DOMAIN witness \ {c} : d \in DOMAIN witness' /\ witness'[d] = witness[d],
           DOMAIN witness' \subseteq DOMAIN witness \union {c},
           c \in DOMAIN witness' => witness'[c].lower < nextId,
           StreamInv(c)',
           Streaming(c)' => \A i \in born'[c]..(nextId - 1) :
                               i > UpperBound(c)' => i \in DOMAIN change_log
    PROVE  IInv'
<1>1. ASSUME NEW d \in Controllers PROVE StreamInv(d)'
  <2>1. CASE d = c
    BY <2>1
  <2>2. CASE d # c
    <3>1. nextId' \in Ids /\ nextId' >= nextId
      BY DEF IInv, TypeOK, Ids
    <3> QED
      BY <2>2, <3>1, OthersKeepStreamInv
  <2> QED
    BY <2>1, <2>2
<1>2. \A d \in DOMAIN witness' : witness'[d].lower < nextId'
  BY DEF IInv
<1>3. UnreadNeverPruned'
  <2> SUFFICES ASSUME NEW d \in Controllers, Streaming(d)',
                      NEW i \in born'[d]..(nextId - 1), i > UpperBound(d)'
               PROVE  i \in DOMAIN change_log
    BY DEF UnreadNeverPruned
  <2>1. CASE d = c
    BY <2>1
  <2>2. CASE d # c
    <3>1. UpperBound(d)' = UpperBound(d)
      BY <2>2, UpperBoundUnchanged
    <3> QED
      BY <2>2, <3>1 DEF IInv, UnreadNeverPruned, Streaming
  <2> QED
    BY <2>1, <2>2
<1> QED
  BY <1>1, <1>2, <1>3 DEF IInv

(* Every step keeps the inductive invariant, one step of the proof for each *)
(* action: Prune is where the witnesses meet what is still unread.          *)
LEMMA IInvStep == IInv /\ [Next]_vars => IInv'
<1> SUFFICES ASSUME IInv, [Next]_vars PROVE IInv'
  OBVIOUS
<1> USE DEF dbVars, streamVars
<1>t. TypeOK /\ TypeOK'
  BY TypeStep DEF IInv
<1>i. nextId \in Int /\ nextId >= 1
  BY <1>t DEF TypeOK, Ids
<1>u. ASSUME NEW c \in Controllers
      PROVE  /\ UpperBound(c) \in Int /\ StreamInv(c) /\ born[c] \in Int
             /\ born[c] >= 1
             /\ watermarks[c] \in Seq(Views) /\ lastRecorded[c] \in Views
             /\ c \in DOMAIN witness => witness[c] \in Views /\ witness[c].lower < nextId
  BY <1>t, UpperBoundType DEF IInv, TypeOK, Ids
<1>1. ASSUME NEW k \in Keys, NEW e \in Edits, Write(k, e) PROVE IInv'
  <2>1. /\ DOMAIN change_log' = DOMAIN change_log \union {nextId}
        /\ nextId' = nextId + 1 /\ UNCHANGED <<witness, streamVars>>
        /\ nextId' \in Ids
    BY <1>1, <1>t DEF Write, WriteRow, TypeOK
  <2>2. ASSUME NEW d \in Controllers PROVE StreamInv(d)'
    BY <2>1, <1>i, OthersKeepStreamInv
  <2>3. \A d \in DOMAIN witness' : witness'[d].lower < nextId'
    BY <2>1, <1>i, <1>t DEF IInv, TypeOK, Views
  <2>4. UnreadNeverPruned'
    <3> SUFFICES ASSUME NEW d \in Controllers, Streaming(d),
                        NEW i \in born[d]..nextId, i > UpperBound(d)
                 PROVE  i \in DOMAIN change_log \union {nextId}
      BY <2>1, <1>i, UpperBoundUnchanged DEF UnreadNeverPruned, Streaming
    <3> QED
      BY <1>i, <1>u DEF IInv, UnreadNeverPruned
  <2> QED
    BY <1>t, <2>2, <2>3, <2>4 DEF IInv
<1>2. ASSUME Prune PROVE IInv'
  <2>1. UNCHANGED <<nextId, witness, streamVars>>
    BY <1>2 DEF Prune
  <2>2. ASSUME NEW d \in Controllers PROVE StreamInv(d)'
    BY <2>1, <1>i, <1>t, OthersKeepStreamInv DEF TypeOK
  <2>3. UnreadNeverPruned'
    <3> SUFFICES ASSUME NEW d \in Controllers, Streaming(d),
                        NEW i \in born[d]..(nextId - 1), i > UpperBound(d)
                 PROVE  i \in DOMAIN change_log'
      BY <2>1, UpperBoundUnchanged DEF UnreadNeverPruned, Streaming
    <3>1. i \in DOMAIN change_log
      BY DEF IInv, UnreadNeverPruned
    <3>2. d \in DOMAIN witness /\ i > witness[d].lower /\ witness[d].lower \in Int
      BY <1>u, <1>i DEF StreamInv, WitnessBehind, Views
    <3>3. PICK c \in LowestWatermarks : DeleteChangeLog(witness[c].lower)
      BY <1>2, <3>2 DEF Prune
    <3>4. witness[c].lower <= witness[d].lower /\ witness[c].lower \in Int
      BY <3>2, <1>t DEF LowestWatermarks, TypeOK, Views
    <3>5. i > witness[c].lower
      BY <3>2, <3>4, <1>i, <1>u
    <3> QED
      BY <3>1, <3>3, <3>5 DEF DeleteChangeLog
  <2> QED
    BY <1>t, <2>1, <2>2, <2>3 DEF IInv
<1>3. ASSUME NEW c \in Controllers, StartStream(c) PROVE IInv'
  <2> DEFINE ws == [i \in 1..NumTermWatermarks |-> NoView]
  <2>1. ws \in Seq(Views) /\ ws # <<>> /\ Len(ws) = NumTermWatermarks
        /\ ws[Len(ws)] = NoView /\ \A i \in DOMAIN ws : ws[i] = NoView
    BY NumTermWatermarksAssumption DEF NoView, Views
  <2>2. watermarks'[c] = ws /\ lastRecorded'[c] = lastRecorded[c]
    BY <1>3, <1>t DEF StartStream, TypeOK
  <2> HIDE DEF ws
  <2>3. UpperBound(c)' = -1
    BY <2>1, <2>2 DEF UpperBound, NoView
  <2>4. phase[c] = "down" /\ phase'[c] = "starting" /\ lastRecorded[c] = NoView
    BY <1>3, <1>t, <1>u DEF StartStream, TypeOK, StreamInv
  <2>5. BufferBounded(c)'
    <3>1. \A i \in DOMAIN watermarks'[c] : watermarks'[c][i] = NoView
      BY <2>1, <2>2
    <3>2. lastRecorded'[c] = NoView /\ nextId' = nextId
      BY <1>3, <2>2, <2>4 DEF StartStream
    <3> QED
      BY <2>3, <3>1, <3>2, <1>i DEF BufferBounded, NoView
  <2>6. StreamInv(c)'
    BY <1>3, <2>4, <2>5, <1>u DEF StreamInv, TermBounded, Streaming, StartStream
  <2> QED
    BY <1>3, <1>t, <1>u, <2>4, <2>6, LocalStep DEF StartStream, Streaming, TypeOK
<1>4. ASSUME NEW c \in Controllers, CreateWatermark(c) PROVE IInv'
  <2>1. /\ phase[c] = "starting" /\ phase'[c] = "loop" /\ born'[c] = nextId
        /\ c \in DOMAIN witness' /\ witness'[c].lower < nextId
        /\ UpperBound(c)' = UpperBound(c)
    BY <1>4, <1>t, <1>i, <1>u DEF CreateWatermark, TypeOK, NoView, UpperBound
  <2>2. StreamInv(c)'
    BY <1>4, <2>1, <1>i, <1>u
    DEF CreateWatermark, StreamInv, BufferBounded, TermBounded, WitnessBehind
  <2>3. \A i \in born'[c]..(nextId - 1) : FALSE
    BY <2>1, <1>i
  <2> QED
    BY <1>4, <1>t, <2>1, <2>2, <2>3, LocalStep DEF CreateWatermark, TypeOK
<1>5. ASSUME NEW c \in Controllers, ReadChanges(c) PROVE IInv'
  <2> DEFINE events == Coalesce(Unread(c))
  <2>1. PICK lo \in events, hi \in events :
          /\ \A e \in events : lo.id <= e.id /\ e.id <= hi.id
          /\ term' = [term EXCEPT ![c] = [changes |-> events,
                                          lower |-> lo.id, upper |-> hi.id]]
    BY <1>5 DEF ReadChanges
  <2>2. ASSUME NEW e \in events PROVE e.id \in Int /\ e.id > UpperBound(c) /\ e.id < nextId
    BY <1>t, <1>i DEF Coalesce, Unread, TypeOK
  <2> HIDE DEF events
  <2>3. term'[c].lower = lo.id /\ term'[c].upper = hi.id
    BY <2>1, <1>t DEF TypeOK
  <2>4. TermBounded(c)'
    BY <1>5, <2>1, <2>2, <2>3 DEF TermBounded, ReadChanges, UpperBound
  <2>5. phase[c] = "loop" /\ phase'[c] = "send" /\ UpperBound(c)' = UpperBound(c)
    BY <1>5, <1>t DEF ReadChanges, TypeOK, UpperBound
  <2>6. BufferBounded(c)' /\ WitnessBehind(c)'
    BY <1>5, <2>5, <1>u
    DEF ReadChanges, StreamInv, BufferBounded, WitnessBehind, Streaming
  <2>7. Streaming(c) /\ StreamInv(c)'
    BY <1>5, <2>4, <2>5, <2>6, <1>u DEF ReadChanges, StreamInv, Streaming
  <2>8. /\ \A d \in Controllers \ {c} : phase'[d] = phase[d] /\ term'[d] = term[d]
        /\ UNCHANGED <<watermarks, lastRecorded, born, dbVars>>
    BY <1>5, <1>t, <2>1 DEF ReadChanges, TypeOK
  <2> QED
    BY <1>t, <1>u, <2>5, <2>7, <2>8, LocalStep DEF IInv, UnreadNeverPruned
<1>6. ASSUME NEW c \in Controllers,
             SendTerm(c) \/ TermAborted(c) \/ Block(c) \/ Unblock(c)
      PROVE  IInv'
  <2>1. /\ Streaming(c) /\ Streaming(c)' /\ phase'[c] # "down"
        /\ UpperBound(c)' = UpperBound(c)
        /\ UNCHANGED <<watermarks, lastRecorded, born, dbVars>>
        /\ phase'[c] \in {"send", "wait"} =>
              phase[c] \in {"send", "wait"} /\ term'[c] = term[c]
    BY <1>6, <1>t
    DEF SendTerm, TermAborted, Block, Unblock, Streaming, TypeOK, UpperBound
  <2>2. StreamInv(c)'
    BY <2>1, <1>u DEF StreamInv, BufferBounded, TermBounded, WitnessBehind
  <2>3. ASSUME NEW d \in Controllers \ {c}
        PROVE  phase'[d] = phase[d] /\ term'[d] = term[d]
    BY <1>6, <1>t DEF SendTerm, TermAborted, Block, Unblock, TypeOK
  <2> QED
    BY <1>t, <1>u, <2>1, <2>2, <2>3, LocalStep DEF IInv, UnreadNeverPruned
<1>7. ASSUME NEW c \in Controllers, TermDone(c) PROVE IInv'
  <2> DEFINE v == [lower |-> term[c].lower, upper |-> term[c].upper]
             r == RecordTermView(watermarks[c], v)
  <2>1. v \in Views /\ v.lower = term[c].lower /\ v.upper = term[c].upper
    BY <1>t DEF Views, TypeOK
  <2>2. /\ UpperBound(c) < v.upper /\ v.lower <= v.upper /\ v.upper < nextId
        /\ v.upper \in Int
    BY <1>7, <2>1, <1>u, <1>t DEF TermDone, StreamInv, TermBounded, TypeOK
  <2> HIDE DEF v
  <2>3. /\ r # <<>> /\ r[Len(r)] = v
        /\ \A i \in DOMAIN r : r[i] = v \/ \E j \in DOMAIN watermarks[c] : r[i] = watermarks[c][j]
    BY <2>1, <1>u, RecordTermViewFacts
  <2>4. watermarks'[c] = r /\ lastRecorded'[c] = lastRecorded[c]
    BY <1>7, <1>t DEF TermDone, TypeOK, v
  <2> HIDE DEF r
  <2>5. UpperBound(c)' = v.upper
    BY <2>3, <2>4 DEF UpperBound
  <2>6. BufferBounded(c)'
    <3>1. ASSUME NEW i \in DOMAIN r PROVE r[i].lower <= r[i].upper /\ r[i].upper <= v.upper
      <4>1. CASE r[i] = v
        BY <4>1, <2>2
      <4>2. CASE \E j \in DOMAIN watermarks[c] : r[i] = watermarks[c][j]
        <5>1. PICK j \in DOMAIN watermarks[c] : r[i] = watermarks[c][j]
          BY <4>2
        <5>2. watermarks[c][j] \in Views
          BY <1>u
        <5> QED
          BY <5>1, <5>2, <2>2, <1>u DEF StreamInv, BufferBounded, Views
      <4> QED
        BY <4>1, <4>2, <2>3
    <3>2. lastRecorded[c].upper <= v.upper
      BY <2>2, <1>u DEF StreamInv, BufferBounded, Views
    <3> QED
      BY <1>7, <2>2, <2>4, <2>5, <3>1, <3>2 DEF BufferBounded, TermDone
  <2>7. phase[c] = "wait" /\ phase'[c] = "loop"
    BY <1>7, <1>t DEF TermDone, TypeOK
  <2>8. Streaming(c) /\ WitnessBehind(c)'
    BY <1>7, <2>2, <2>5, <2>7, <1>u
    DEF Streaming, StreamInv, WitnessBehind, TermDone, Views
  <2>9. StreamInv(c)'
    BY <1>7, <2>6, <2>7, <2>8, <1>u DEF StreamInv, TermBounded, TermDone
  <2>10. \A i \in born'[c]..(nextId - 1) : i > UpperBound(c)' => i \in DOMAIN change_log
    BY <1>7, <1>i, <1>u, <2>2, <2>5, <2>8 DEF TermDone, IInv, UnreadNeverPruned
  <2> QED
    BY <1>7, <1>t, <1>u, <2>9, <2>10, LocalStep DEF TermDone, TypeOK
<1>8. ASSUME NEW c \in Controllers, WatermarkDue(c), PopWatermark(c),
             UNCHANGED <<change_log, nextId, phase, term, born>>,
             \/ UNCHANGED witness
             \/ c \in DOMAIN witness /\ witness' = [witness EXCEPT ![c] = Head(watermarks[c])]
      PROVE  IInv'
  <2> DEFINE h == Head(watermarks[c])
             t == Tail(watermarks[c])
  <2>1. /\ Len(watermarks[c]) \in Nat /\ Len(watermarks[c]) >= 1
        /\ h = watermarks[c][1] /\ h \in Views
        /\ t \in Seq(Views) /\ Len(t) = Len(watermarks[c]) - 1
        /\ \A i \in 1..Len(t) : t[i] = watermarks[c][i + 1]
    BY <1>8, <1>u, NumTermWatermarksAssumption DEF WatermarkDue
  <2>2. watermarks'[c] = t /\ lastRecorded'[c] = h
    BY <1>8, <1>t DEF PopWatermark, TypeOK
  <2>3. /\ h.lower <= h.upper /\ h.upper <= UpperBound(c) /\ UpperBound(c) < nextId
        /\ h.lower \in Int /\ h.upper \in Int
    BY <2>1, <1>u DEF StreamInv, BufferBounded, Views
  <2> HIDE DEF h, t
  <2>4. UpperBound(c)' = UpperBound(c)
    BY <1>8, <1>t, PopKeepsUpperBound
  <2>5. BufferBounded(c)'
    <3>1. ASSUME NEW i \in DOMAIN t PROVE t[i].lower <= t[i].upper /\ t[i].upper <= UpperBound(c)
      <4>1. i \in 1..Len(t) /\ i + 1 \in DOMAIN watermarks[c]
        BY <2>1, <1>u
      <4> QED
        BY <4>1, <2>1, <1>u DEF StreamInv, BufferBounded
    <3> QED
      BY <1>8, <2>2, <2>3, <2>4, <3>1 DEF BufferBounded
  <2>6. phase[c] = "loop" /\ phase'[c] = "loop" /\ Streaming(c)
    BY <1>8 DEF WatermarkDue, Streaming
  <2>7. WitnessBehind(c)'
    <3>1. CASE UNCHANGED witness
      BY <1>8, <2>4, <2>6, <3>1, <1>u DEF StreamInv, WitnessBehind
    <3>2. CASE c \in DOMAIN witness /\ witness' = [witness EXCEPT ![c] = h]
      BY <1>i, <1>u, <2>3, <2>4, <3>2 DEF WitnessBehind
    <3> QED
      BY <1>8, <3>1, <3>2 DEF h
  <2>8. StreamInv(c)'
    BY <1>8, <2>5, <2>6, <2>7, <1>u DEF StreamInv, TermBounded
  <2>9. c \in DOMAIN witness' => witness'[c].lower < nextId
    <3>1. CASE UNCHANGED witness
      BY <3>1, <1>u
    <3>2. CASE c \in DOMAIN witness /\ witness' = [witness EXCEPT ![c] = h]
      BY <1>i, <1>u, <2>3, <3>2
    <3> QED
      BY <1>8, <3>1, <3>2 DEF h
  <2>10. /\ \A d \in DOMAIN witness \ {c} : d \in DOMAIN witness' /\ witness'[d] = witness[d]
         /\ DOMAIN witness' \subseteq DOMAIN witness \union {c}
    BY <1>8
  <2>11. \A d \in Controllers \ {c} : watermarks'[d] = watermarks[d] /\ lastRecorded'[d] = lastRecorded[d]
    BY <1>8, <1>t DEF PopWatermark, TypeOK
  <2> QED
    BY <1>8, <1>t, <2>4, <2>6, <2>8, <2>9, <2>10, <2>11, LocalStep
    DEF IInv, UnreadNeverPruned
<1>9. ASSUME NEW c \in Controllers, Die(c) PROVE IInv'
  <2>1. /\ phase'[c] = "down" /\ watermarks'[c] = <<>> /\ lastRecorded'[c] = NoView
        /\ born'[c] = 1 /\ UNCHANGED dbVars
    BY <1>9, <1>t DEF Die, TypeOK
  <2>2. StreamInv(c)'
    BY <2>1, <1>i
    DEF StreamInv, BufferBounded, TermBounded, Streaming, UpperBound, NoView
  <2> QED
    BY <1>9, <1>t, <1>u, <2>1, <2>2, LocalStep DEF Die, TypeOK, Streaming
<1>10. CASE UNCHANGED vars
  <2>1. UNCHANGED <<dbVars, streamVars>>
    BY <1>10 DEF vars
  <2>2. ASSUME NEW d \in Controllers PROVE StreamInv(d)'
    BY <2>1, <1>i, <1>t, OthersKeepStreamInv DEF TypeOK
  <2>3. UnreadNeverPruned'
    BY <2>1, UpperBoundUnchanged DEF IInv, UnreadNeverPruned, Streaming
  <2> QED
    BY <1>t, <2>1, <2>2, <2>3 DEF IInv
<1>11. ASSUME NEW c \in Controllers, UpdateWatermark(c) \/ UpdateWatermarkLost(c)
       PROVE  IInv'
  BY <1>8, <1>11 DEF UpdateWatermark, UpdateWatermarkLost
<1> QED
  BY <1>1, <1>2, <1>3, <1>4, <1>5, <1>6, <1>7, <1>9, <1>10, <1>11
  DEF Next, StreamNext

(* A change made while a stream serves its consumer stays in the log until *)
(* that stream has completed it: State.Prune and Stream.updateWatermark    *)
(* agree, for any number of controllers, restarts and lost updates.        *)
THEOREM PruneSafe == Spec => []UnreadNeverPruned
<1>1. IInv => UnreadNeverPruned
  BY DEF IInv
<1> QED
  BY <1>1, InitIInv, IInvStep, PTL DEF Spec

-----------------------------------------------------------------------------
(* The upper bound never moves back.                                        *)

(* The step behind it: only TermDone moves the bound of a live stream, and  *)
(* TermBounded puts the term it completes above the old one.                *)
LEMMA UpperBoundStep ==
    IInv /\ [Next]_vars =>
        \A c \in Controllers :
            Streaming(c) /\ Streaming(c)' => UpperBound(c)' >= UpperBound(c)
<1> SUFFICES ASSUME IInv, [Next]_vars, NEW d \in Controllers,
                    Streaming(d), Streaming(d)'
             PROVE  UpperBound(d)' >= UpperBound(d)
  OBVIOUS
<1> USE DEF dbVars, streamVars
<1>t. /\ TypeOK /\ UpperBound(d) \in Int /\ StreamInv(d)
  BY UpperBoundType DEF IInv
<1>s. ASSUME watermarks'[d] = watermarks[d], lastRecorded'[d] = lastRecorded[d]
      PROVE  UpperBound(d)' >= UpperBound(d)
  BY <1>s, <1>t, UpperBoundUnchanged
<1>1. ASSUME UNCHANGED <<watermarks, lastRecorded>>
      PROVE  UpperBound(d)' >= UpperBound(d)
  BY <1>1, <1>s
<1>2. ASSUME NEW c \in Controllers, StartStream(c) \/ Die(c)
      PROVE  UpperBound(d)' >= UpperBound(d)
  <2>1. c # d
    BY <1>2, <1>t DEF StartStream, Die, Streaming, TypeOK
  <2> QED
    BY <1>2, <1>s, <1>t, <2>1 DEF StartStream, Die, TypeOK
<1>3. ASSUME NEW c \in Controllers, TermDone(c)
      PROVE  UpperBound(d)' >= UpperBound(d)
  <2>1. CASE c # d
    BY <1>3, <1>s, <1>t, <2>1 DEF TermDone, TypeOK
  <2>2. CASE c = d
    <3> DEFINE v == [lower |-> term[d].lower, upper |-> term[d].upper]
               r == RecordTermView(watermarks[d], v)
    <3>1. v \in Views /\ watermarks[d] \in Seq(Views) /\ watermarks'[d] = r
      BY <1>3, <1>t, <2>2 DEF TermDone, TypeOK, Views
    <3>2. UpperBound(d) < v.upper /\ v.upper \in Int
      BY <1>3, <1>t, <2>2 DEF TermDone, StreamInv, TermBounded, TypeOK
    <3> HIDE DEF v
    <3>3. r # <<>> /\ r[Len(r)] = v
      BY <3>1, RecordTermViewFacts
    <3> HIDE DEF r
    <3>4. UpperBound(d)' = v.upper
      BY <3>1, <3>3 DEF UpperBound
    <3> QED
      BY <1>t, <3>2, <3>4
  <2> QED
    BY <2>1, <2>2
<1>4. ASSUME NEW c \in Controllers, UpdateWatermark(c) \/ UpdateWatermarkLost(c)
      PROVE  UpperBound(d)' >= UpperBound(d)
  <2>1. WatermarkDue(c) /\ PopWatermark(c)
    BY <1>4 DEF UpdateWatermark, UpdateWatermarkLost
  <2>2. CASE c = d
    BY <1>t, <2>1, <2>2, PopKeepsUpperBound
  <2>3. CASE c # d
    BY <1>s, <1>t, <2>1, <2>3 DEF PopWatermark, TypeOK
  <2> QED
    BY <2>2, <2>3
<1>5. ASSUME NEW c \in Controllers,
             \/ CreateWatermark(c) \/ ReadChanges(c) \/ SendTerm(c)
             \/ TermAborted(c) \/ Block(c) \/ Unblock(c)
      PROVE  UNCHANGED <<watermarks, lastRecorded>>
  BY <1>5 DEF CreateWatermark, ReadChanges, SendTerm, TermAborted, Block, Unblock
<1>6. ASSUME \/ \E k \in Keys, e \in Edits : Write(k, e)
             \/ Prune
             \/ UNCHANGED vars
      PROVE  UNCHANGED <<watermarks, lastRecorded>>
  BY <1>6 DEF Write, Prune, vars
<1> QED
  BY <1>1, <1>2, <1>3, <1>4, <1>5, <1>6 DEF Next, StreamNext

(* A live stream never reads behind what it has completed: watermarks lost  *)
(* in a failed commit, the cut of a full buffer and aborted terms leave     *)
(* Stream.upperBound where it was, and a completed term raises it.          *)
THEOREM BoundNeverMovesBack == Spec => UpperBoundMonotone
<1>1. IInv /\ [Next]_vars =>
        [\A c \in Controllers :
            Streaming(c) /\ Streaming(c)' => UpperBound(c)' >= UpperBound(c)]_vars
  BY UpperBoundStep
<1> QED
  BY <1>1, InitIInv, IInvStep, PTL DEF Spec, UpperBoundMonotone

-----------------------------------------------------------------------------
(* The views advance and the terms cover their keys. Both rest on IInv.     *)

(* The buffer is ordered and lies above the last recorded watermark, in     *)
(* every phase of the stream.                                               *)
ViewsOrdered(c) ==
    /\ \A i, j \in DOMAIN watermarks[c] :
          i < j /\ watermarks[c][j] # NoView
            => watermarks[c][i].upper < watermarks[c][j].lower
    /\ \A i \in DOMAIN watermarks[c] :
          watermarks[c][i] # NoView
            => lastRecorded[c].upper < watermarks[c][i].lower

\* Only a stream that offers a term, or waits for it, holds one.
TermHeld(c) == term[c] # NoTerm => phase[c] \in {"send", "wait"}

\* TermCoversKeys, for one stream.
KeysCovered(c) ==
    phase[c] \in {"send", "wait"} =>
        \A i \in DOMAIN change_log :
            i > UpperBound(c) /\ i <= term[c].upper =>
                \E e \in term[c].changes :
                    e.key = change_log[i].key /\ e.id >= i

TermInv(c) == ViewsOrdered(c) /\ TermHeld(c) /\ KeysCovered(c)

(* A finite, inhabited set of integers has a greatest element: the sets of  *)
(* what lies above each of its elements have a minimal one, which is empty. *)
LEMMA FiniteMax ==
    ASSUME NEW T, T \in SUBSET Int, IsFiniteSet(T), T # {}
    PROVE  \E m \in T : \A j \in T : j <= m
<1> DEFINE above(i) == {j \in T : j > i}
           A == {above(i) : i \in T}
           R == StrictSubsetOrdering(T)
<1>1. IsWellFoundedOn(R, SUBSET T)
  BY FS_StrictSubsetOrderingWellFounded, FS_FiniteSubsetsOfFinite, Zenon
<1>2. A \subseteq SUBSET T /\ A # {}
  OBVIOUS
<1> HIDE DEF A, R
<1>3. PICK s \in A : \A u \in A : ~(<<u, s>> \in R)
  BY <1>1, <1>2, WFMin, Zenon
<1>4. PICK m \in T : s = above(m)
  BY <1>3 DEF A
<1>5. ASSUME NEW j \in T, j > m PROVE FALSE
  <2>0. j \in Int /\ m \in Int /\ \A l \in T : l \in Int
    OBVIOUS
  <2>1. above(j) \subseteq s
    <3>1. ASSUME NEW l \in T, l > j PROVE l > m
      BY <1>5, <2>0, <3>1
    <3> QED
      BY <1>4, <3>1
  <2>4. j \in s /\ j \notin above(j)
    <3>1. ~(j > j)
      BY <2>0
    <3> QED
      BY <1>4, <1>5, <3>1
  <2>3. above(j) \in A
    BY DEF A
  <2>2. <<above(j), s>> \in R
    BY <2>1, <2>3, <2>4, <1>2, <1>3 DEF R, StrictSubsetOrdering
  <2> QED
    BY <2>2, <2>3, <1>3
<1> QED
  BY <1>5

\* r is ws without its first k views, and with v last.
FrontCut(r, ws, v, k) ==
    \A i \in DOMAIN r :
        /\ i \in Nat
        /\ \/ r[i] = v /\ \A j \in DOMAIN r : j <= i
           \/ i + k \in DOMAIN ws /\ r[i] = ws[i + k]

(* recordTermView drops views at the front only: the others keep their      *)
(* order, before the new one.                                               *)
LEMMA RecordTermViewOrder ==
    ASSUME NEW ws \in Seq(Views), NEW v \in Views,
           NEW r, r = RecordTermView(ws, v)
    PROVE  \E k \in Nat : FrontCut(r, ws, v, k)
<1> DEFINE all == Append(ws, v)
           n == NumTermWatermarks
<1>1. /\ all \in Seq(Views) /\ Len(all) = Len(ws) + 1 /\ all[Len(all)] = v
      /\ \A i \in 1..Len(ws) : all[i] = ws[i]
      /\ Len(ws) \in Nat /\ n \in Nat /\ n >= 1 /\ DOMAIN ws = 1..Len(ws)
  BY NumTermWatermarksAssumption
<1>2. r = IF Len(all) > n
          THEN SubSeq(all, Len(all) - n + 1, Len(all)) ELSE all
  BY DEF RecordTermView
<1> HIDE DEF all, n
<1>3. CASE Len(all) > n
  <2>1. /\ DOMAIN r = 1..n
        /\ \A i \in 1..n : r[i] = all[Len(all) - n + i]
    BY <1>1, <1>2, <1>3
  <2> DEFINE k == Len(all) - n
  <2>2. k \in Nat /\ k + n = Len(all)
    BY <1>1, <1>3
  <2>3. ASSUME NEW i \in DOMAIN r
        PROVE  /\ i \in Nat
               /\ \/ r[i] = v /\ \A j \in DOMAIN r : j <= i
                  \/ i + k \in DOMAIN ws /\ r[i] = ws[i + k]
    <3>1. i \in 1..n /\ r[i] = all[i + k]
      BY <2>1, <2>2, <1>1
    <3> HIDE DEF k
    <3>2. CASE i = n
      <4>1. i + k = Len(all)
        BY <2>2, <3>2, <1>1
      <4> QED
        BY <4>1, <3>1, <3>2, <2>1, <1>1
    <3>3. CASE i # n
      <4>1. i + k \in 1..Len(ws)
        BY <2>2, <3>1, <3>3, <1>1
      <4>2. all[i + k] = ws[i + k] /\ i + k \in DOMAIN ws /\ i \in Nat
        BY <4>1, <3>1, <1>1
      <4> QED
        BY <3>1, <4>2
    <3> QED
      BY <3>2, <3>3
  <2> QED
    BY <2>2, <2>3 DEF FrontCut
<1>4. CASE ~(Len(all) > n)
  <2>1. r = all /\ DOMAIN r = 1..(Len(ws) + 1)
    BY <1>1, <1>2, <1>4
  <2>2. ASSUME NEW i \in DOMAIN r
        PROVE  /\ i \in Nat
               /\ \/ r[i] = v /\ \A j \in DOMAIN r : j <= i
                  \/ i + 0 \in DOMAIN ws /\ r[i] = ws[i + 0]
    <3>1. CASE i = Len(ws) + 1
      BY <1>1, <2>1, <3>1
    <3>2. CASE i # Len(ws) + 1
      <4>1. i \in 1..Len(ws) /\ i + 0 = i
        BY <1>1, <2>1, <3>2
      <4> QED
        BY <1>1, <2>1, <4>1
    <3> QED
      BY <3>1, <3>2
  <2>3. FrontCut(r, ws, v, 0)
    BY <2>2 DEF FrontCut
  <2> QED
    BY <2>3
<1> QED
  BY <1>3, <1>4

\* A row below the end of the log stays as it is or is pruned.
LEMMA LogStep ==
    ASSUME TypeOK, [Next]_vars, NEW i \in DOMAIN change_log', i < nextId
    PROVE  i \in DOMAIN change_log /\ change_log'[i] = change_log[i]
<1> USE DEF dbVars, streamVars
<1>1. CASE UNCHANGED change_log
  BY <1>1
<1>2. ASSUME NEW k \in Keys, NEW e \in Edits, Write(k, e)
      PROVE  i \in DOMAIN change_log /\ change_log'[i] = change_log[i]
  BY <1>2 DEF Write, WriteRow, TypeOK, Ids
<1>3. CASE Prune
  BY <1>3 DEF Prune, DeleteChangeLog
<1>4. ASSUME NEW c \in Controllers, StreamNext(c) PROVE UNCHANGED change_log
  BY <1>4
  DEF StreamNext, StartStream, CreateWatermark, ReadChanges, SendTerm, TermDone,
      TermAborted, UpdateWatermark, UpdateWatermarkLost, Block, Unblock, Die
<1> QED
  BY <1>1, <1>2, <1>3, <1>4 DEF Next, vars

\* A step that leaves a stream alone keeps its part, whatever the log does.
LEMMA OthersKeepTermInv ==
    ASSUME IInv, [Next]_vars, NEW d \in Controllers, TermInv(d),
           phase'[d] = phase[d], watermarks'[d] = watermarks[d],
           lastRecorded'[d] = lastRecorded[d], term'[d] = term[d]
    PROVE  TermInv(d)'
<1>1. UpperBound(d)' = UpperBound(d) /\ TypeOK /\ StreamInv(d)
  BY UpperBoundUnchanged DEF IInv
<1>2. ViewsOrdered(d)' /\ TermHeld(d)'
  BY DEF TermInv, ViewsOrdered, TermHeld
<1>3. KeysCovered(d)'
  <2> SUFFICES ASSUME phase[d] \in {"send", "wait"},
                      NEW i \in DOMAIN change_log',
                      i > UpperBound(d), i <= term[d].upper
               PROVE  \E e \in term[d].changes :
                         e.key = change_log'[i].key /\ e.id >= i
    BY <1>1 DEF KeysCovered
  <2>1. i < nextId
    <3>1. i \in Int /\ term[d].upper \in Int /\ nextId \in Int
      BY <1>1, TypeStep DEF TypeOK, Ids
    <3> QED
      BY <1>1, <3>1 DEF StreamInv, TermBounded
  <2>2. i \in DOMAIN change_log /\ change_log'[i] = change_log[i]
    BY <1>1, <2>1, LogStep
  <2> QED
    BY <2>2 DEF TermInv, KeysCovered
<1> QED
  BY <1>2, <1>3 DEF TermInv

(* The term that readChanges makes: the newest row of each key, so every    *)
(* unread row has an event of its key that is at least as new.              *)
LEMMA CoalesceCovers ==
    ASSUME TypeOK, NEW c \in Controllers, NEW i \in Unread(c)
    PROVE  \E e \in Coalesce(Unread(c)) :
              e.key = change_log[i].key /\ e.id >= i
<1> DEFINE same == {l \in Unread(c) : change_log[l].key = change_log[i].key}
<1>1. same \subseteq 1..(nextId - 1) /\ i \in same /\ nextId \in Int
  BY DEF Unread, TypeOK, Ids
<1>2. same \in SUBSET Int
  BY <1>1
<1>3. IsFiniteSet(same)
  <2>1. IsFiniteSet(1..(nextId - 1)) /\ same \in SUBSET (1..(nextId - 1))
    BY <1>1, FS_Interval
  <2> HIDE DEF same
  <2> QED
    BY <2>1, FS_Subset
<1>4. PICK m \in same : \A j \in same : j <= m
  <2> HIDE DEF same
  <2> QED
    BY <1>1, <1>2, <1>3, FiniteMax
<1> DEFINE e == [id |-> m, key |-> change_log[m].key, edit |-> change_log[m].edit]
<1>5. e \in Coalesce(Unread(c))
  <2>1. m \in Unread(c) /\ \A l \in Unread(c) : change_log[l].key = change_log[m].key => l <= m
    BY <1>4
  <2> QED
    BY <2>1 DEF Coalesce
<1>6. e.key = change_log[i].key /\ e.id >= i
  <2>1. change_log[m].key = change_log[i].key /\ i <= m /\ m \in Int /\ i \in Int
    BY <1>1, <1>2, <1>4
  <2> QED
    BY <2>1
<1> QED
  BY <1>5, <1>6

(* Every step keeps the part of every stream: c is the stream that moves.   *)
LEMMA TermInvStep ==
    ASSUME IInv, [Next]_vars, \A d \in Controllers : TermInv(d)
    PROVE  \A d \in Controllers : TermInv(d)'
<1> SUFFICES ASSUME NEW d \in Controllers PROVE TermInv(d)'
  OBVIOUS
<1> USE DEF dbVars, streamVars
<1>t. /\ TypeOK /\ UpperBound(d) \in Int /\ StreamInv(d) /\ TermInv(d)
      /\ watermarks[d] \in Seq(Views) /\ lastRecorded[d] \in Views
      /\ \A i \in DOMAIN watermarks[d] : watermarks[d][i] \in Views
  BY UpperBoundType DEF IInv, TypeOK
<1>o. ASSUME phase'[d] = phase[d], watermarks'[d] = watermarks[d],
             lastRecorded'[d] = lastRecorded[d], term'[d] = term[d]
      PROVE  TermInv(d)'
  BY <1>o, <1>t, OthersKeepTermInv
<1>p. ASSUME phase'[d] \notin {"send", "wait"}, term'[d] = NoTerm, ViewsOrdered(d)'
      PROVE  TermInv(d)'
  BY <1>p DEF TermInv, TermHeld, KeysCovered
<1>q. ASSUME phase[d] \notin {"send", "wait"} PROVE term[d] = NoTerm
  BY <1>q, <1>t DEF TermInv, TermHeld
<1>1. ASSUME UNCHANGED streamVars PROVE TermInv(d)'
  BY <1>1, <1>o
<1>2. ASSUME NEW c \in Controllers, c # d, StreamNext(c) PROVE TermInv(d)'
  <2>1. /\ phase'[d] = phase[d] /\ watermarks'[d] = watermarks[d]
        /\ lastRecorded'[d] = lastRecorded[d] /\ term'[d] = term[d]
    BY <1>2, <1>t
    DEF TypeOK, StreamNext, StartStream, CreateWatermark, ReadChanges, SendTerm,
        TermDone, TermAborted, UpdateWatermark, UpdateWatermarkLost, PopWatermark,
        Block, Unblock, Die
  <2> QED
    BY <2>1, <1>o
<1>3. ASSUME StartStream(d) PROVE TermInv(d)'
  <2>1. /\ phase[d] = "down" /\ phase'[d] = "starting"
        /\ watermarks'[d] = [i \in 1..NumTermWatermarks |-> NoView]
        /\ term'[d] = NoTerm
    BY <1>3, <1>t, <1>q DEF StartStream, TypeOK
  <2>2. ViewsOrdered(d)'
    BY <2>1 DEF ViewsOrdered
  <2> QED
    BY <2>1, <2>2, <1>p
<1>4. ASSUME CreateWatermark(d) \/ Block(d) \/ Unblock(d) \/ TermAborted(d)
      PROVE  TermInv(d)'
  <2>1. /\ phase'[d] \in {"loop", "blocked"} /\ term'[d] = NoTerm
        /\ watermarks'[d] = watermarks[d] /\ lastRecorded'[d] = lastRecorded[d]
    BY <1>4, <1>t, <1>q DEF CreateWatermark, Block, Unblock, TermAborted, TypeOK
  <2>2. ViewsOrdered(d)'
    BY <2>1, <1>t DEF ViewsOrdered, TermInv
  <2> QED
    BY <2>1, <2>2, <1>p
<1>5. ASSUME ReadChanges(d) PROVE TermInv(d)'
  <2>1. /\ phase'[d] = "send" /\ term'[d].changes = Coalesce(Unread(d))
        /\ UNCHANGED <<watermarks, lastRecorded, change_log>>
    BY <1>5, <1>t DEF ReadChanges, TypeOK
  <2>2. UpperBound(d)' = UpperBound(d)
    BY <2>1, UpperBoundUnchanged
  <2>3. KeysCovered(d)'
    <3> SUFFICES ASSUME NEW i \in DOMAIN change_log, i > UpperBound(d)
                 PROVE  \E e \in Coalesce(Unread(d)) :
                           e.key = change_log[i].key /\ e.id >= i
      BY <2>1, <2>2 DEF KeysCovered
    <3>1. i \in Unread(d)
      BY DEF Unread
    <3> QED
      BY <1>t, <3>1, CoalesceCovers
  <2> QED
    BY <2>1, <2>3, <1>t DEF TermInv, ViewsOrdered, TermHeld
<1>6. ASSUME SendTerm(d) PROVE TermInv(d)'
  <2>1. /\ phase[d] = "send" /\ phase'[d] = "wait"
        /\ UNCHANGED <<watermarks, lastRecorded, change_log, term>>
    BY <1>6, <1>t DEF SendTerm, TypeOK
  <2>2. UpperBound(d)' = UpperBound(d)
    BY <2>1, UpperBoundUnchanged
  <2> QED
    BY <2>1, <2>2, <1>t DEF TermInv, ViewsOrdered, TermHeld, KeysCovered
<1>7. ASSUME TermDone(d) PROVE TermInv(d)'
  <2> DEFINE v == [lower |-> term[d].lower, upper |-> term[d].upper]
             r == RecordTermView(watermarks[d], v)
             ws == watermarks[d]
  <2>1. v \in Views /\ v.lower = term[d].lower /\ v.upper = term[d].upper
    BY <1>t DEF Views, TypeOK
  <2>2. UpperBound(d) < v.lower /\ v.lower \in Int
    BY <1>7, <2>1, <1>t DEF TermDone, StreamInv, TermBounded, TypeOK
  <2>3. /\ phase'[d] = "loop" /\ term'[d] = NoTerm
        /\ watermarks'[d] = r /\ lastRecorded'[d] = lastRecorded[d]
    BY <1>7, <1>t DEF TermDone, TypeOK
  <2> HIDE DEF v
  <2>a. ws \in Seq(Views) /\ r = RecordTermView(ws, v)
    BY <1>t
  <2> HIDE DEF r
  <2>b. PICK k \in Nat : FrontCut(r, ws, v, k)
    BY <2>1, <2>a, RecordTermViewOrder
  <2>4. \A i \in DOMAIN r :
           /\ i \in Nat
           /\ \/ r[i] = v /\ \A j \in DOMAIN r : j <= i
              \/ i + k \in DOMAIN ws /\ r[i] = ws[i + k]
    BY <2>b DEF FrontCut
  <2>5. \A i \in DOMAIN ws : ws[i].upper \in Int /\ ws[i].upper < v.lower
    BY <2>2, <1>t DEF StreamInv, BufferBounded, Views
  <2>6. lastRecorded[d].upper < v.lower
    BY <2>2, <1>t DEF StreamInv, BufferBounded, Views
  <2>7. ASSUME NEW i \in DOMAIN r, NEW j \in DOMAIN r, i < j, r[j] # NoView
        PROVE  r[i].upper < r[j].lower
    <3>1. i \in Nat /\ j \in Nat /\ ~(j <= i)
      BY <2>4, <2>7
    <3>2. i + k \in DOMAIN ws /\ r[i] = ws[i + k]
      BY <2>4, <3>1
    <3>3. CASE r[j] = v
      BY <2>5, <3>2, <3>3
    <3>4. CASE j + k \in DOMAIN ws /\ r[j] = ws[j + k]
      <4>1. i + k < j + k
        BY <2>7, <3>1
      <4> QED
        BY <1>t, <2>7, <3>2, <3>4, <4>1 DEF TermInv, ViewsOrdered
    <3> QED
      BY <2>4, <3>3, <3>4
  <2>8. ASSUME NEW i \in DOMAIN r, r[i] # NoView
        PROVE  lastRecorded[d].upper < r[i].lower
    <3>1. CASE r[i] = v
      BY <2>6, <3>1
    <3>2. CASE i + k \in DOMAIN ws /\ r[i] = ws[i + k]
      BY <1>t, <2>8, <3>2 DEF TermInv, ViewsOrdered
    <3> QED
      BY <2>4, <3>1, <3>2
  <2>9. ViewsOrdered(d)'
    BY <2>3, <2>7, <2>8 DEF ViewsOrdered
  <2> QED
    BY <2>3, <2>9, <1>p
<1>8. ASSUME UpdateWatermark(d) \/ UpdateWatermarkLost(d) PROVE TermInv(d)'
  <2> DEFINE h == Head(watermarks[d])
             t == Tail(watermarks[d])
  <2>1. /\ phase[d] = "loop" /\ phase'[d] = "loop" /\ h # NoView
        /\ term'[d] = NoTerm /\ watermarks'[d] = t /\ lastRecorded'[d] = h
        /\ Len(watermarks[d]) >= 1
    BY <1>8, <1>t, <1>q, NumTermWatermarksAssumption
    DEF UpdateWatermark, UpdateWatermarkLost, WatermarkDue, PopWatermark, TypeOK
  <2>2. /\ h = watermarks[d][1] /\ 1 \in DOMAIN watermarks[d]
        /\ \A i \in DOMAIN t : /\ i \in Nat /\ i >= 1
                               /\ i + 1 \in DOMAIN watermarks[d]
                               /\ t[i] = watermarks[d][i + 1]
    BY <1>t, <2>1
  <2> HIDE DEF h, t
  <2>3. ASSUME NEW i \in DOMAIN t, NEW j \in DOMAIN t, i < j, t[j] # NoView
        PROVE  t[i].upper < t[j].lower
    <3>1. i + 1 < j + 1
      BY <2>2, <2>3
    <3> QED
      BY <1>t, <2>2, <2>3, <3>1 DEF TermInv, ViewsOrdered
  <2>4. ASSUME NEW i \in DOMAIN t, t[i] # NoView PROVE h.upper < t[i].lower
    <3>1. 1 < i + 1
      BY <2>2
    <3> QED
      BY <1>t, <2>2, <2>4, <3>1 DEF TermInv, ViewsOrdered
  <2>5. ViewsOrdered(d)'
    BY <2>1, <2>3, <2>4 DEF ViewsOrdered
  <2> QED
    BY <2>1, <2>5, <1>p
<1>9. ASSUME Die(d) PROVE TermInv(d)'
  <2>1. phase'[d] = "down" /\ watermarks'[d] = <<>> /\ term'[d] = NoTerm
    BY <1>9, <1>t DEF Die, TypeOK
  <2>2. ViewsOrdered(d)'
    BY <2>1 DEF ViewsOrdered
  <2> QED
    BY <2>1, <2>2, <1>p
<1>10. ASSUME \/ \E k \in Keys, e \in Edits : Write(k, e)
              \/ Prune
              \/ UNCHANGED vars
       PROVE  UNCHANGED streamVars
  BY <1>10 DEF Write, Prune, vars
<1> QED
  BY <1>1, <1>2, <1>3, <1>4, <1>5, <1>6, <1>7, <1>8, <1>9, <1>10
  DEF Next, StreamNext

\* The invariant with the order of the views and the cover of the terms.
DeliveryInv == IInv /\ \A c \in Controllers : TermInv(c)

\* The two invariants together hold always.
LEMMA DeliveryInvariant == Spec => []DeliveryInv
<1>1. Init => DeliveryInv
  <2> SUFFICES ASSUME Init, NEW c \in Controllers PROVE TermInv(c)
    BY InitIInv DEF DeliveryInv
  <2> QED
    BY DEF Init, TermInv, ViewsOrdered, TermHeld, KeysCovered
<1>2. DeliveryInv /\ [Next]_vars => DeliveryInv'
  BY IInvStep, TermInvStep DEF DeliveryInv
<1> QED
  BY <1>1, <1>2, PTL DEF Spec

(* What processWatermark and recordTermView rely on: in a stream that       *)
(* serves, the recorded watermark, the buffered views and the term in hand  *)
(* follow each other without overlap, through restarts, failed commits,     *)
(* aborted terms and cut buffers of any length.                             *)
THEOREM ViewsAdvanceAlways == Spec => []ViewsAdvance
<1>1. DeliveryInv => ViewsAdvance
  BY DEF DeliveryInv, IInv, StreamInv, TermBounded, TermInv, ViewsOrdered,
         TermHeld, ViewsAdvance
<1> QED
  BY <1>1, DeliveryInvariant, PTL

(* No key is left out of a term: every row that completing the term will    *)
(* put behind the stream has its key in it, with a change as new as the     *)
(* row, whatever is written or pruned after the read.                       *)
THEOREM TermsCoverKeys == Spec => []TermCoversKeys
<1>1. DeliveryInv => TermCoversKeys
  BY DEF DeliveryInv, TermInv, KeysCovered, TermCoversKeys
<1> QED
  BY <1>1, DeliveryInvariant, PTL
=============================================================================
