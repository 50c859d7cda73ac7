-------------------------- MODULE MigrationProofs --------------------------
(***************************************************************************)
(* The source, the target and the agents agree on one migration, for any   *)
(* set of agents and any number of failures, restarts and calls left       *)
(* behind.  MasterInv and AgentInv hold across migrations; TargetInv, what  *)
(* the target's handlers may find and do in each phase of the source, holds *)
(* while the model's first export is the last one.                          *)
(***************************************************************************)
EXTENDS Migration, TLAPS

-----------------------------------------------------------------------------
(* Types *)

PCs    == {"down", "wait", "lock", "do", "minions", "checks", "call", "upload",
           "set", "uninstalled"}
Ops    == {"none", "Import", "Activate", "Adopt", "Abort"}
Steps  == {"idle", "begin", "rows", "gate", "perms", "data", "activate", "assert",
           "commit", "ungate", "release", "adopt", "phase", "remove", "stage",
           "finalize"}
Claims == {"none", "importing", "activating", "aborting"}

Masters  == [pc : PCs, at : Phases, next : Phases]
Handlers == [op : Ops, step : Steps]
Targets  == [claim : Claims, id : 0..MaxLost, row : BOOLEAN, active : BOOLEAN,
             reg : BOOLEAN, gate : BOOLEAN, data : BOOLEAN, staged : BOOLEAN,
             adopted : BOOLEAN]
Statuses(n) == [id : 0..n, ph : Phases]
Minions(n)  == [conf : {"source", "target"}, conn : {"source", "target"},
                fort : {"open", "locked"}, proc : SUBSET Statuses(n),
                st : Statuses(n), step : {"idle", "got", "act", "config"}]

TypeInv ==
    /\ phase \in Phases /\ attempt \in 0..MaxMigrations
    /\ reports \in [Reported -> [Agents -> {"none", "ok", "failed"}]]
    /\ fort \in {"open", "locked"}
    /\ master \in Masters
    /\ tgt \in Targets
    /\ call \in [0..MaxLost -> Handlers]
    /\ lost \in 0..MaxLost /\ faults \in 0..MaxFaults
    /\ agent \in [Agents -> Minions(attempt)]

\* A handler is idle or has an operation; the slots after the live one have not
\* been used, and the live one runs exactly while the master waits for it, with
\* the operation of the master's phase.
CallInv ==
    /\ \A i \in 0..MaxLost : call[i].step = "idle" <=> call[i].op = "none"
    /\ \A i \in 0..MaxLost : i > lost => call[i].step = "idle"
    /\ master.pc = "call" <=> call[lost].step # "idle"
    /\ master.pc = "call" =>
         /\ master.at \in {"IMPORT", "VALIDATION", "SUCCESS", "ABORT"}
         /\ call[lost].op = CallOf[master.at]

-----------------------------------------------------------------------------
(* The master *)

Working == {"do", "minions", "checks", "call", "upload", "set"}

\* The master at work is at the recorded phase, which is not a final one.
AtPhase == master.pc \in Working \cup {"lock"} =>
             master.at = phase /\ ActivePhase # "NONE"

\* Each step of the master belongs to a phase, and it only asks for transitions
\* that the phases allow; the master of a model that is gone is not started.
MasterSteps ==
    /\ master.pc \in {"minions", "checks"} => master.at \in Reported
    /\ master.pc = "upload" => master.at = "IMPORT"
    /\ master.pc = "set" => CanTransitionTo(master.at, master.next) /\ master.next # "DONE"
    /\ phase = "DONE" => master.pc = "uninstalled"
    /\ attempt = 0 => phase = "NONE"

\* The source's fortress is closed while the master works, and from the import
\* on until the migration has ended.
Shut == (\/ master.pc \in Working
         \/ phase \in {"IMPORT", "VALIDATION", "ABORT"} \cup (Decided \ {"REAPFAILED"}))
        => fort = "locked"

MasterInv == AtPhase /\ MasterSteps /\ Shut

-----------------------------------------------------------------------------
(* The agents *)

\* An agent that takes part in a phase has stopped its workers, and no agent is
\* connected to a target it has no address of.
Stopped(a) ==
    /\ agent[a].conn = "target" => agent[a].conf = "target"
    /\ agent[a].step \in {"act", "config"} =>
         agent[a].fort = "locked" /\ agent[a].st.ph \in Running
    /\ agent[a].step = "config" => agent[a].st.ph = "SUCCESS"

\* Once quiesced it keeps them stopped, or has moved over: nothing it has read
\* since lets it start them again.
KeepsStill(a) ==
    phase \in Running /\ reports["QUIESCE"][a] = "ok" =>
      \/ agent[a].conn = "target"
      \/ agent[a].fort = "locked" /\ (agent[a].step = "got" => agent[a].st.ph \in Running)

\* What the master needs to start the import: every agent has quiesced.
AllQuiesced ==
    (\/ phase \in {"IMPORT", "VALIDATION", "SUCCESS"}
     \/ phase = "QUIESCE" /\ master.pc = "checks"
     \/ phase = "QUIESCE" /\ master.pc = "set" /\ master.next = "IMPORT")
    => \A a \in Agents : reports["QUIESCE"][a] = "ok"

NeverFailsQuiesce == \A a \in Agents : reports["QUIESCE"][a] # "failed"

AgentInv ==
    /\ \A a \in Agents : Stopped(a) /\ KeepsStill(a)
    /\ AllQuiesced /\ NeverFailsQuiesce

\* In the first migration an agent has heard of SUCCESS, has the target's
\* address or is connected to it only once SUCCESS is recorded.
AgentsLate == \A a \in Agents :
    \/ phase \in Decided
    \/ agent[a].conf = "source" /\ agent[a].conn = "source" /\ agent[a].st.ph \notin Decided

-----------------------------------------------------------------------------
(* The target, in the first migration *)

Imported == tgt.row /\ tgt.reg /\ tgt.data /\ tgt.active /\ ~tgt.staged

\* The calls that can be under way in each phase of the source.
CallsOfPhase == \A i \in 0..MaxLost :
    /\ call[i].op = "Import"   => phase \notin {"NONE", "QUIESCE"}
    /\ call[i].op = "Activate" => phase \notin {"NONE", "QUIESCE", "IMPORT"}
    /\ call[i].op = "Adopt"    => phase \in Decided
    /\ call[i].op = "Abort"    => phase \in {"ABORT", "ABORTDONE"}

\* The claim tells the phase: a commit only after SUCCESS, a removal only after
\* ABORT, and a database is deleted only in a removal.
ClaimOfPhase ==
    /\ tgt.claim = "activating" => phase \in Decided
    /\ tgt.claim = "aborting"   => phase \in {"ABORT", "ABORTDONE"}
    /\ tgt.staged => tgt.claim = "aborting"

Untouched == phase \in {"NONE", "QUIESCE"} => tgt = NoModel

\* How far the import that holds the claim has come.
ImportSteps(i) ==
    call[i].op = "Import" =>
      /\ call[i].step # "begin" => tgt.claim = "importing" /\ tgt.id = i
      /\ call[i].step \in {"gate", "perms", "data", "activate"} => tgt.row /\ tgt.reg
      /\ call[i].step = "activate" => tgt.data

DuringImport == phase = "IMPORT" =>
    /\ tgt.claim = "none" => ~tgt.row
    /\ \A i \in 0..MaxLost : ImportSteps(i)
    /\ (master.pc = "upload" \/ (master.pc = "set" /\ master.next = "VALIDATION")) =>
         /\ tgt.claim = "importing" /\ Imported
         /\ \A i \in 0..MaxLost : call[i].op = "Import" => call[i].step = "begin"

DuringValidation == phase = "VALIDATION" =>
    /\ tgt.claim = "importing" /\ Imported
    /\ \A i \in 0..MaxLost : call[i].op = "Import" => call[i].step = "begin"

AfterSuccess == phase \in Decided =>
    /\ Imported
    /\ tgt.claim = "none" => ~tgt.gate
    /\ \A i \in 0..MaxLost :
         /\ call[i].op = "Import" => call[i].step \in {"begin", "rows"}
         /\ call[i].op = "Adopt" /\ call[i].step \in {"activate", "release", "adopt"} => ~tgt.gate
    /\ phase # "SUCCESS" \/ master.pc = "set" => ~tgt.gate /\ tgt.adopted

AfterAbort == phase \in {"ABORT", "ABORTDONE"} /\ tgt.claim = "none" => ~tgt.row

TargetInv ==
    /\ CallsOfPhase /\ ClaimOfPhase /\ Untouched /\ DuringImport
    /\ DuringValidation /\ AfterSuccess /\ AfterAbort /\ AgentsLate

\* The last export is the model's first.
FirstMigration == attempt <= 1

IInv == TypeInv /\ CallInv /\ MasterInv /\ AgentInv /\ (FirstMigration => TargetInv)

-----------------------------------------------------------------------------
(* Facts about the phases and the operators *)

\* What can follow a phase.
LEMMA Transitions ==
  ASSUME NEW p, NEW q, CanTransitionTo(p, q)
  PROVE  /\ \/ p = "QUIESCE" /\ q \in {"IMPORT", "ABORT"}
            \/ p = "IMPORT" /\ q \in {"VALIDATION", "ABORT"}
            \/ p = "VALIDATION" /\ q \in {"SUCCESS", "ABORT"}
            \/ p = "SUCCESS" /\ q = "LOGTRANSFER"
            \/ p = "LOGTRANSFER" /\ q = "REAP"
            \/ p = "REAP" /\ q \in {"DONE", "REAPFAILED"}
            \/ p = "ABORT" /\ q = "ABORTDONE"
         /\ p \in Phases /\ q \in Phases
<1>1. \/ p = "QUIESCE" /\ q \in {"IMPORT", "ABORT"}
      \/ p = "IMPORT" /\ q \in {"VALIDATION", "ABORT"}
      \/ p = "VALIDATION" /\ q \in {"SUCCESS", "ABORT"}
      \/ p = "SUCCESS" /\ q = "LOGTRANSFER"
      \/ p = "LOGTRANSFER" /\ q = "REAP"
      \/ p = "REAP" /\ q \in {"DONE", "REAPFAILED"}
      \/ p = "ABORT" /\ q = "ABORTDONE"
  BY DEF CanTransitionTo
<1> QED
  BY <1>1 DEF Phases, Running, PostSuccess

\* The phases of an active export.
LEMMA Terminal ==
  ASSUME NEW p \in Phases
  PROVE  IsTerminal(p) <=> p \in {"NONE", "REAPFAILED", "DONE", "ABORTDONE"}
<1>1. ASSUME p \in {"NONE", "REAPFAILED", "DONE", "ABORTDONE"} PROVE IsTerminal(p)
  BY <1>1 DEF IsTerminal, CanTransitionTo
<1>2. ASSUME p \notin {"NONE", "REAPFAILED", "DONE", "ABORTDONE"} PROVE ~IsTerminal(p)
  <2>1. /\ CanTransitionTo("QUIESCE", "ABORT") /\ CanTransitionTo("IMPORT", "ABORT")
        /\ CanTransitionTo("VALIDATION", "ABORT") /\ CanTransitionTo("SUCCESS", "LOGTRANSFER")
        /\ CanTransitionTo("LOGTRANSFER", "REAP") /\ CanTransitionTo("REAP", "DONE")
        /\ CanTransitionTo("ABORT", "ABORTDONE")
    BY DEF CanTransitionTo
  <2> QED
    BY <1>2, <2>1 DEF IsTerminal, Phases, Running, PostSuccess
<1> QED
  BY <1>1, <1>2

\* The active phase is the recorded one unless that is a final one.
LEMMA Active ==
  ASSUME phase \in Phases
  PROVE  /\ phase \in {"NONE", "REAPFAILED", "DONE", "ABORTDONE"} => ActivePhase = "NONE"
         /\ phase \notin {"NONE", "REAPFAILED", "DONE", "ABORTDONE"} =>
              ActivePhase = phase /\ ActivePhase # "NONE"
BY Terminal DEF ActivePhase

LEMMA CallOfValues ==
  /\ CallOf["IMPORT"] = "Import" /\ CallOf["VALIDATION"] = "Activate"
  /\ CallOf["SUCCESS"] = "Adopt" /\ CallOf["ABORT"] = "Abort"
BY DEF CallOf

\* What an answer makes of the master that waited for it.
LEMMA AnsweredValues ==
  ASSUME master \in Masters
  PROVE  /\ Answered("Import", "ok") = At("upload")
         /\ Answered("Import", "activating") = To("VALIDATION")
         /\ Answered("Import", "error") = To("ABORT")
         /\ Answered("Activate", "ok") = To("SUCCESS")
         /\ Answered("Activate", "error") = To("ABORT")
         /\ Answered("Adopt", "ok") = To("LOGTRANSFER")
         /\ Answered("Adopt", "error") = Exited
         /\ Answered("Abort", "ok") = To("ABORTDONE")
         /\ Answered("Abort", "error") = To("ABORTDONE")
BY DEF Answered

\* The fields of the master's records.
LEMMA ToRecord ==
  ASSUME master \in Masters, NEW p \in Phases
  PROVE  To(p) \in Masters /\ To(p).pc = "set" /\ To(p).next = p /\ To(p).at = master.at
BY DEF To, Masters, PCs

LEMMA AtRecord ==
  ASSUME master \in Masters, NEW pc \in PCs
  PROVE  At(pc) \in Masters /\ At(pc).pc = pc /\ At(pc).at = master.at /\ At(pc).next = master.next
BY DEF At, Masters

LEMMA MoveRecord ==
  ASSUME master \in Masters, NEW pc \in PCs, NEW p \in Phases
  PROVE  /\ [At(pc) EXCEPT !.at = p] \in Masters
         /\ [At(pc) EXCEPT !.at = p].pc = pc /\ [At(pc) EXCEPT !.at = p].at = p
BY DEF At, Masters

LEMMA ExitedRecord == Exited \in Masters /\ Exited.pc = "down"
BY DEF Exited, Masters, PCs, Phases

-----------------------------------------------------------------------------
(* The initial states *)

\* Nothing has been asked of the target, and no agent has heard of a migration.
LEMMA InitIInv == Init => IInv
<1> SUFFICES ASSUME Init PROVE IInv
  OBVIOUS
<1> USE MigrationAssumption DEF Init
<1>1. NoStatus \in Statuses(0) /\ NoStatus.ph = "NONE"
  BY DEF NoStatus, Statuses, Phases
<1>2. /\ master \in Masters /\ master.pc = "wait"
      /\ tgt \in Targets /\ NoModel.claim = "none" /\ ~NoModel.staged
      /\ Idle \in Handlers /\ Idle.step = "idle" /\ Idle.op = "none"
  BY DEF Exited, Masters, PCs, Phases, NoModel, Targets, Claims, Idle, Handlers, Ops, Steps
<1>3. reports \in [Reported -> [Agents -> {"none", "ok", "failed"}]]
  BY DEF NoReports
<1>4. agent \in [Agents -> Minions(attempt)]
  BY <1>1 DEF Minions
<1>5. TypeInv
  <2>1. phase \in Phases /\ fort \in {"open", "locked"}
    BY DEF Phases
  <2>2. call \in [0..MaxLost -> Handlers]
    BY <1>2
  <2>3. attempt \in 0..MaxMigrations /\ lost \in 0..MaxLost /\ faults \in 0..MaxFaults
    OBVIOUS
  <2> QED
    BY <1>2, <1>3, <1>4, <2>1, <2>2, <2>3 DEF TypeInv
<1>6. CallInv
  BY <1>2 DEF CallInv
<1>7. MasterInv
  BY <1>2 DEF MasterInv, AtPhase, MasterSteps, Shut, Working, Decided, PostSuccess
<1>8. AgentInv
  BY <1>1 DEF AgentInv, Stopped, KeepsStill, AllQuiesced, NeverFailsQuiesce, NoReports,
     Reported, Running
<1>9. TargetInv
  <2>1. AgentsLate
    BY <1>1 DEF AgentsLate, Decided, PostSuccess
  <2> QED
    BY <1>2, <2>1 DEF TargetInv, CallsOfPhase, ClaimOfPhase, Untouched, DuringImport,
       DuringValidation, AfterSuccess, AfterAbort, Decided, PostSuccess
<1> QED
  BY <1>5, <1>6, <1>7, <1>8, <1>9 DEF IInv

-----------------------------------------------------------------------------
(* The target's handlers *)

\* Every way the handler in slot i goes on.
HandlerStep(i) == Target(i) \/ AbortTimeout(i) \/ HandlerFails(i)

\* A handler goes to its next step, or ends with an answer.
GoesOnOrEnds(i) ==
    \/ \E s \in Steps \ {"idle"} : Goto(i, s)
    \/ \E res \in {"ok", "error"} : Finish(i, res)
    \/ call[i].op = "Import" /\ Finish(i, "activating")

\* A step of a handler changes its own slot, the target's rows and, through its
\* answer, the master; nothing else on the source.
LEMMA HandlerFrame ==
  ASSUME TypeInv, NEW i \in 0..MaxLost, HandlerStep(i)
  PROVE  /\ UNCHANGED <<phase, attempt, reports, fort, lost, agent>>
         /\ faults' \in 0..MaxFaults
         /\ call[i].step # "idle"
         /\ GoesOnOrEnds(i)
         /\ tgt' \in Targets
<1> USE MigrationAssumption DEF GoesOnOrEnds, Steps, TargetOnly, Handling
<1>0. tgt \in Targets /\ faults \in 0..MaxFaults
  BY DEF TypeInv
<1>1. CASE ImportBegin(i)
  <2>1. GoesOnOrEnds(i)
    BY <1>0, <1>1, Zenon DEF ImportBegin, Targets, Claims
  <2>2. tgt' \in Targets
    BY <1>0, <1>1 DEF ImportBegin, Targets, Claims
  <2> QED
    BY <1>0, <1>1, <2>1, <2>2 DEF ImportBegin
<1>2. CASE ImportRows(i)
  <2>1. GoesOnOrEnds(i)
    BY <1>0, <1>2, Zenon DEF ImportRows, Targets, Claims
  <2>2. tgt' \in Targets
    BY <1>0, <1>2 DEF ImportRows, Targets, Claims
  <2> QED
    BY <1>0, <1>2, <2>1, <2>2 DEF ImportRows
<1>3. CASE ImportGate(i)
  <2>1. GoesOnOrEnds(i)
    BY <1>0, <1>3, Zenon DEF ImportGate, Targets, Claims
  <2>2. tgt' \in Targets
    BY <1>0, <1>3 DEF ImportGate, Targets, Claims
  <2> QED
    BY <1>0, <1>3, <2>1, <2>2 DEF ImportGate
<1>4. CASE ImportPerms(i)
  <2>1. GoesOnOrEnds(i)
    BY <1>0, <1>4, Zenon DEF ImportPerms, Targets, Claims
  <2>2. tgt' \in Targets
    BY <1>0, <1>4 DEF ImportPerms, Targets, Claims
  <2> QED
    BY <1>0, <1>4, <2>1, <2>2 DEF ImportPerms
<1>5. CASE ImportData(i)
  <2>1. GoesOnOrEnds(i)
    BY <1>0, <1>5, Zenon DEF ImportData, Targets, Claims
  <2>2. tgt' \in Targets
    BY <1>0, <1>5 DEF ImportData, Targets, Claims
  <2> QED
    BY <1>0, <1>5, <2>1, <2>2 DEF ImportData
<1>6. CASE ImportActivate(i)
  <2>1. GoesOnOrEnds(i)
    BY <1>0, <1>6, Zenon DEF ImportActivate, Targets, Claims
  <2>2. tgt' \in Targets
    BY <1>0, <1>6 DEF ImportActivate, Targets, Claims
  <2> QED
    BY <1>0, <1>6, <2>1, <2>2 DEF ImportActivate
<1>7. CASE ActivateBegin(i)
  <2>1. GoesOnOrEnds(i)
    BY <1>0, <1>7, Zenon DEF ActivateBegin, Targets, Claims, Committed
  <2>2. tgt' \in Targets
    BY <1>0, <1>7 DEF ActivateBegin, Targets, Claims
  <2> QED
    BY <1>0, <1>7, <2>1, <2>2 DEF ActivateBegin
<1>8. CASE ActivateAssert(i)
  <2>1. GoesOnOrEnds(i)
    BY <1>0, <1>8, Zenon DEF ActivateAssert, Targets, Claims
  <2>2. tgt' \in Targets
    BY <1>0, <1>8 DEF ActivateAssert, Targets, Claims
  <2> QED
    BY <1>0, <1>8, <2>1, <2>2 DEF ActivateAssert
<1>9. CASE AdoptBegin(i)
  <2>1. GoesOnOrEnds(i)
    BY <1>0, <1>9, Zenon DEF AdoptBegin, Targets, Claims, Committed
  <2>2. tgt' \in Targets
    BY <1>0, <1>9 DEF AdoptBegin, Targets, Claims
  <2> QED
    BY <1>0, <1>9, <2>1, <2>2 DEF AdoptBegin
<1>10. CASE AdoptCommit(i)
  <2>1. GoesOnOrEnds(i)
    BY <1>0, <1>10, Zenon DEF AdoptCommit, Targets, Claims
  <2>2. tgt' \in Targets
    BY <1>0, <1>10 DEF AdoptCommit, Targets, Claims
  <2> QED
    BY <1>0, <1>10, <2>1, <2>2 DEF AdoptCommit
<1>11. CASE AdoptUngate(i)
  <2>1. GoesOnOrEnds(i)
    BY <1>0, <1>11, Zenon DEF AdoptUngate, Targets, Claims
  <2>2. tgt' \in Targets
    BY <1>0, <1>11 DEF AdoptUngate, Targets, Claims
  <2> QED
    BY <1>0, <1>11, <2>1, <2>2 DEF AdoptUngate
<1>12. CASE AdoptActivate(i)
  <2>1. GoesOnOrEnds(i)
    BY <1>0, <1>12, Zenon DEF AdoptActivate, Targets, Claims
  <2>2. tgt' \in Targets
    BY <1>0, <1>12 DEF AdoptActivate, Targets, Claims
  <2> QED
    BY <1>0, <1>12, <2>1, <2>2 DEF AdoptActivate
<1>13. CASE AdoptRelease(i)
  <2>1. GoesOnOrEnds(i)
    BY <1>0, <1>13, Zenon DEF AdoptRelease, Targets, Claims
  <2>2. tgt' \in Targets
    BY <1>0, <1>13 DEF AdoptRelease, Targets, Claims
  <2> QED
    BY <1>0, <1>13, <2>1, <2>2 DEF AdoptRelease
<1>14. CASE AdoptResources(i)
  <2>1. GoesOnOrEnds(i)
    BY <1>0, <1>14, Zenon DEF AdoptResources, Targets, Claims
  <2>2. tgt' \in Targets
    BY <1>0, <1>14 DEF AdoptResources, Targets, Claims
  <2> QED
    BY <1>0, <1>14, <2>1, <2>2 DEF AdoptResources
<1>15. CASE AbortBegin(i)
  <2>1. GoesOnOrEnds(i)
    BY <1>0, <1>15, Zenon DEF AbortBegin, Targets, Claims
  <2>2. tgt' \in Targets
    BY <1>0, <1>15 DEF AbortBegin, Targets, Claims
  <2> QED
    BY <1>0, <1>15, <2>1, <2>2 DEF AbortBegin
<1>16. CASE AbortPhase(i)
  <2>1. GoesOnOrEnds(i)
    BY <1>0, <1>16, Zenon DEF AbortPhase, Targets, Claims
  <2>2. tgt' \in Targets
    BY <1>0, <1>16 DEF AbortPhase, Targets, Claims
  <2> QED
    BY <1>0, <1>16, <2>1, <2>2 DEF AbortPhase
<1>17. CASE AbortRemove(i)
  <2>1. GoesOnOrEnds(i)
    BY <1>0, <1>17, Zenon DEF AbortRemove, Targets, Claims
  <2>2. tgt' \in Targets
    BY <1>0, <1>17 DEF AbortRemove, Targets, Claims
  <2> QED
    BY <1>0, <1>17, <2>1, <2>2 DEF AbortRemove
<1>18. CASE AbortStage(i)
  <2>1. GoesOnOrEnds(i)
    BY <1>0, <1>18, Zenon DEF AbortStage, Targets, Claims
  <2>2. tgt' \in Targets
    BY <1>0, <1>18 DEF AbortStage, Targets, Claims
  <2> QED
    BY <1>0, <1>18, <2>1, <2>2 DEF AbortStage
<1>19. CASE AbortFinalize(i)
  <2>1. GoesOnOrEnds(i)
    BY <1>0, <1>19, Zenon DEF AbortFinalize, Targets, Claims
  <2>2. tgt' \in Targets
    BY <1>0, <1>19 DEF AbortFinalize, Targets, Claims
  <2> QED
    BY <1>0, <1>19, <2>1, <2>2 DEF AbortFinalize
<1>20. CASE AbortTimeout(i)
  <2>1. GoesOnOrEnds(i)
    BY <1>0, <1>20, Zenon DEF AbortTimeout, Targets, Claims
  <2>2. tgt' \in Targets
    BY <1>0, <1>20 DEF AbortTimeout, Targets, Claims
  <2> QED
    BY <1>0, <1>20, <2>1, <2>2 DEF AbortTimeout
<1>21. CASE HandlerFails(i)
  BY <1>0, <1>21 DEF HandlerFails, Fault
<1> QED
  BY <1>1, <1>2, <1>3, <1>4, <1>5, <1>6, <1>7, <1>8, <1>9, <1>10, <1>11, <1>12, <1>13, <1>14, <1>15, <1>16, <1>17, <1>18, <1>19, <1>20, <1>21 DEF HandlerStep, Target

\* The answer of the live handler: the master leaves "call" for a step that its
\* phase knows.
LEMMA AnswerStep ==
  ASSUME TypeInv, CallInv, MasterInv, NEW i \in 0..MaxLost, call[i].step # "idle",
         NEW res, res \in {"ok", "error"} \/ (call[i].op = "Import" /\ res = "activating"),
         i = lost, NEW m, m = Answered(call[i].op, res)
  PROVE  /\ m \in Masters /\ m.pc \notin {"call", "lock", "minions", "checks", "uninstalled"}
         /\ m.pc \in Working => m.at = master.at
         /\ m.pc = "upload" => m.at = "IMPORT" /\ res = "ok"
         /\ m.pc = "set" => CanTransitionTo(m.at, m.next) /\ m.next # "DONE"
         /\ m.pc = "set" /\ m.at = "IMPORT" /\ m.next = "VALIDATION" => res = "activating"
         /\ m.pc = "set" /\ m.at = "SUCCESS" => res = "ok"
         /\ master.at = phase /\ phase \notin {"NONE", "QUIESCE", "DONE"}
         /\ fort = "locked" /\ ActivePhase # "NONE"
<1>1. /\ master \in Masters /\ master.pc = "call" /\ master.at \in {"IMPORT", "VALIDATION", "SUCCESS", "ABORT"}
      /\ call[i].op = CallOf[master.at] /\ master.at \in Phases
  BY DEF TypeInv, CallInv, Masters
<1>2. /\ "upload" \in PCs
      /\ {"VALIDATION", "ABORT", "SUCCESS", "LOGTRANSFER", "ABORTDONE"} \subseteq Phases
  BY DEF PCs, Phases, Running, PostSuccess
<1>3. master.at = phase /\ fort = "locked" /\ ActivePhase # "NONE"
  BY <1>1 DEF MasterInv, AtPhase, Shut, Working
<1>t. /\ CanTransitionTo("IMPORT", "VALIDATION") /\ CanTransitionTo("IMPORT", "ABORT")
      /\ CanTransitionTo("VALIDATION", "SUCCESS") /\ CanTransitionTo("VALIDATION", "ABORT")
      /\ CanTransitionTo("SUCCESS", "LOGTRANSFER") /\ CanTransitionTo("ABORT", "ABORTDONE")
  BY DEF CanTransitionTo
<1>4. CASE master.at = "IMPORT"
  <2>1. call[i].op = "Import"
    BY <1>1, <1>4, CallOfValues
  <2>2. \/ res = "ok" /\ m = At("upload")
        \/ res = "activating" /\ m = To("VALIDATION")
        \/ res = "error" /\ m = To("ABORT")
    BY <1>1, <2>1, AnsweredValues
  <2> QED
    BY <1>1, <1>2, <1>3, <1>t, <1>4, <2>2, ToRecord, AtRecord, ExitedRecord DEF Working
<1>5. CASE master.at = "VALIDATION"
  <2>1. call[i].op = "Activate"
    BY <1>1, <1>5, CallOfValues
  <2>2. m = To("SUCCESS") \/ m = To("ABORT")
    BY <1>1, <2>1, AnsweredValues
  <2> QED
    BY <1>1, <1>2, <1>3, <1>t, <1>5, <2>2, ToRecord, AtRecord, ExitedRecord DEF Working
<1>6. CASE master.at = "SUCCESS"
  <2>1. call[i].op = "Adopt"
    BY <1>1, <1>6, CallOfValues
  <2>2. (res = "ok" /\ m = To("LOGTRANSFER")) \/ m = Exited
    BY <1>1, <2>1, AnsweredValues
  <2> QED
    BY <1>1, <1>2, <1>3, <1>t, <1>6, <2>2, ToRecord, AtRecord, ExitedRecord DEF Working
<1>7. CASE master.at = "ABORT"
  <2>1. call[i].op = "Abort"
    BY <1>1, <1>7, CallOfValues
  <2>2. m = To("ABORTDONE")
    BY <1>1, <2>1, AnsweredValues
  <2> QED
    BY <1>1, <1>2, <1>3, <1>t, <1>7, <2>2, ToRecord, AtRecord, ExitedRecord DEF Working
<1> QED
  BY <1>1, <1>4, <1>5, <1>6, <1>7

\* The master after an answer: at a step its phase knows, with the fortress shut.
AnswerTaken ==
    /\ master'.pc \notin {"call", "lock", "minions", "checks", "uninstalled"}
    /\ master'.pc \in Working => master'.at = phase
    /\ master'.pc = "upload" => master'.at = "IMPORT"
    /\ master'.pc = "set" => CanTransitionTo(master'.at, master'.next) /\ master'.next # "DONE"
    /\ phase \notin {"NONE", "QUIESCE", "DONE"} /\ fort = "locked" /\ ActivePhase # "NONE"

\* The steps of the handlers keep the types, and the master waits for the live
\* handler only.
LEMMA HandlerCall ==
  ASSUME TypeInv, CallInv, MasterInv, NEW i \in 0..MaxLost, HandlerStep(i)
  PROVE  TypeInv' /\ CallInv' /\ (master' = master \/ AnswerTaken)
<1> USE MigrationAssumption
<1>1. /\ UNCHANGED <<phase, attempt, reports, fort, lost, agent>>
      /\ faults' \in 0..MaxFaults /\ call[i].step # "idle" /\ tgt' \in Targets
      /\ GoesOnOrEnds(i)
  BY HandlerFrame
<1>2. /\ call \in [0..MaxLost -> Handlers] /\ call[i] \in Handlers /\ lost \in 0..MaxLost
      /\ master \in Masters
  BY DEF TypeInv
<1>3. ASSUME NEW s \in Steps \ {"idle"}, Goto(i, s)
      PROVE  TypeInv' /\ CallInv' /\ master' = master
  <2>1. /\ call' = [call EXCEPT ![i].step = s] /\ master' = master
        /\ call[i].op # "none"
    BY <1>1, <1>3 DEF Goto, CallInv
  <2>2. /\ call' \in [0..MaxLost -> Handlers]
        /\ \A j \in 0..MaxLost : call'[j].op = call[j].op
        /\ \A j \in 0..MaxLost : j # i => call'[j] = call[j]
        /\ call'[i].step = s
    BY <1>2, <2>1 DEF Handlers
  <2>3. TypeInv'
    BY <1>1, <1>2, <2>1, <2>2 DEF TypeInv
  <2>4. CallInv'
    BY <1>1, <1>2, <2>1, <2>2 DEF CallInv
  <2> QED
    BY <2>1, <2>3, <2>4
<1>4. ASSUME NEW res, Finish(i, res),
             res \in {"ok", "error"} \/ (call[i].op = "Import" /\ res = "activating")
      PROVE  TypeInv' /\ CallInv' /\ (master' = master \/ AnswerTaken)
  <2>1. /\ call' = [call EXCEPT ![i] = Idle]
        /\ master' = IF i = lost THEN Answered(call[i].op, res) ELSE master
    BY <1>4 DEF Finish
  <2>2. Idle \in Handlers /\ Idle.step = "idle" /\ Idle.op = "none"
    BY DEF Idle, Handlers, Ops, Steps
  <2>3. /\ call' \in [0..MaxLost -> Handlers] /\ call'[i] = Idle
        /\ \A j \in 0..MaxLost : j # i => call'[j] = call[j]
    BY <1>2, <2>1, <2>2
  <2>4. i = lost => master' \in Masters /\ master'.pc # "call" /\ AnswerTaken
    BY <1>1, <1>4, <2>1, AnswerStep DEF AnswerTaken
  <2>5. TypeInv'
    BY <1>1, <1>2, <2>1, <2>3, <2>4 DEF TypeInv
  <2>6. CallInv'
    <3>1. CASE i = lost
      BY <1>1, <1>2, <2>2, <2>3, <2>4, <3>1 DEF CallInv
    <3>2. CASE i # lost
      BY <1>1, <1>2, <2>1, <2>2, <2>3, <3>2 DEF CallInv
    <3> QED
      BY <3>1, <3>2
  <2> QED
    BY <2>1, <2>4, <2>5, <2>6
<1>5. CASE \E s \in Steps \ {"idle"} : Goto(i, s)
  BY <1>3, <1>5
<1>6. CASE \E res \in {"ok", "error"} : Finish(i, res)
  BY <1>4, <1>6
<1>7. CASE call[i].op = "Import" /\ Finish(i, "activating")
  BY <1>4, <1>7
<1> QED
  BY <1>1, <1>5, <1>6, <1>7 DEF GoesOnOrEnds

\* A handler step leaves the phase, and the master at a step its phase knows.
LEMMA HandlerMaster ==
  ASSUME TypeInv, CallInv, MasterInv, AgentInv, NEW i \in 0..MaxLost, HandlerStep(i)
  PROVE  MasterInv' /\ AgentInv'
<1>1. UNCHANGED <<phase, attempt, reports, fort, lost, agent>>
  BY HandlerFrame
<1>2. master' = master \/ AnswerTaken
  BY HandlerCall
<1>3. ActivePhase' = ActivePhase
  BY <1>1 DEF ActivePhase, IsTerminal
<1>4. MasterInv'
  <2>1. CASE master' = master
    BY <1>1, <1>3, <2>1 DEF MasterInv, AtPhase, MasterSteps, Shut
  <2>2. CASE AnswerTaken
    BY <1>1, <1>3, <2>2 DEF AnswerTaken, MasterInv, AtPhase, MasterSteps, Shut, Working
  <2> QED
    BY <1>2, <2>1, <2>2
<1>5. AgentInv'
  <2>1. CASE master' = master
    BY <1>1, <2>1 DEF AgentInv, Stopped, KeepsStill, AllQuiesced, NeverFailsQuiesce
  <2>2. CASE AnswerTaken
    <3>1. AllQuiesced'
      BY <1>1, <2>2 DEF AgentInv, AnswerTaken, AllQuiesced
    <3> QED
      BY <1>1, <3>1 DEF AgentInv, Stopped, KeepsStill, NeverFailsQuiesce
  <2> QED
    BY <1>2, <2>1, <2>2
<1> QED
  BY <1>4, <1>5

\* What the end and the next step of a handler do to the slots and the master.
LEMMA FinishShape ==
  ASSUME TypeInv, NEW i \in 0..MaxLost, NEW res, Finish(i, res)
  PROVE  /\ call'[i].op = "none" /\ call'[i].step = "idle"
         /\ \A j \in 0..MaxLost : j # i => call'[j] = call[j]
         /\ i # lost => master' = master
         /\ i = lost => master' = Answered(call[i].op, res)
BY DEF Finish, TypeInv, Idle

LEMMA GotoShape ==
  ASSUME TypeInv, NEW i \in 0..MaxLost, NEW s \in Steps, Goto(i, s)
  PROVE  /\ call'[i].op = call[i].op /\ call'[i].step = s /\ master' = master
         /\ \A j \in 0..MaxLost : j # i => call'[j] = call[j]
BY DEF Goto, TypeInv, Handlers

\* The calls under way only become fewer; before the import there are none.
LEMMA HandlerCalls ==
  ASSUME TypeInv, CallInv, TargetInv, NEW i \in 0..MaxLost, HandlerStep(i)
  PROVE  CallsOfPhase' /\ Untouched' /\ AgentsLate'
<1>1. /\ UNCHANGED <<phase, attempt, reports, fort, lost, agent>>
      /\ GoesOnOrEnds(i) /\ call[i].step # "idle"
  BY HandlerFrame
<1>2. \A j \in 0..MaxLost : call'[j].op \in {"none", call[j].op}
  BY <1>1, FinishShape, GotoShape DEF GoesOnOrEnds
<1>3. CallsOfPhase'
  BY <1>1, <1>2 DEF TargetInv, CallsOfPhase
<1>4. call[i].op \in {"Import", "Activate", "Adopt", "Abort"}
  BY <1>1 DEF TypeInv, CallInv, Handlers, Ops
<1>5. phase \notin {"NONE", "QUIESCE"}
  BY <1>4 DEF TargetInv, CallsOfPhase, Decided, PostSuccess
<1>6. Untouched' /\ AgentsLate'
  BY <1>1, <1>5 DEF TargetInv, Untouched, AgentsLate
<1> QED
  BY <1>3, <1>6

\* The claim says what the phase says.
LEMMA HandlerClaim ==
  ASSUME TypeInv, TargetInv, NEW i \in 0..MaxLost, HandlerStep(i)
  PROVE  ClaimOfPhase'
<1> USE DEF ClaimOfPhase, Handling, TargetOnly
<1>0. /\ tgt \in Targets /\ ClaimOfPhase /\ phase' = phase
      /\ call[i].op = "Adopt" => phase \in Decided
      /\ call[i].op = "Abort" => phase \in {"ABORT", "ABORTDONE"}
  BY HandlerFrame DEF TypeInv, TargetInv, CallsOfPhase
<1>1. CASE ImportBegin(i)
  BY <1>0, <1>1 DEF ImportBegin, Targets
<1>2. CASE ImportRows(i)
  BY <1>0, <1>2 DEF ImportRows, Targets
<1>3. CASE ImportGate(i)
  BY <1>0, <1>3 DEF ImportGate, Targets
<1>4. CASE ImportPerms(i)
  BY <1>0, <1>4 DEF ImportPerms, Targets
<1>5. CASE ImportData(i)
  BY <1>0, <1>5 DEF ImportData, Targets
<1>6. CASE ImportActivate(i)
  BY <1>0, <1>6 DEF ImportActivate, Targets
<1>7. CASE ActivateBegin(i)
  BY <1>0, <1>7 DEF ActivateBegin, Targets
<1>8. CASE ActivateAssert(i)
  BY <1>0, <1>8 DEF ActivateAssert, Targets
<1>9. CASE AdoptBegin(i)
  BY <1>0, <1>9 DEF AdoptBegin, Targets
<1>10. CASE AdoptCommit(i)
  BY <1>0, <1>10 DEF AdoptCommit, Targets
<1>11. CASE AdoptUngate(i)
  BY <1>0, <1>11 DEF AdoptUngate, Targets
<1>12. CASE AdoptActivate(i)
  BY <1>0, <1>12 DEF AdoptActivate, Targets
<1>13. CASE AdoptRelease(i)
  BY <1>0, <1>13 DEF AdoptRelease, Targets
<1>14. CASE AdoptResources(i)
  BY <1>0, <1>14 DEF AdoptResources, Targets
<1>15. CASE AbortBegin(i)
  BY <1>0, <1>15 DEF AbortBegin, Targets
<1>16. CASE AbortPhase(i)
  BY <1>0, <1>16 DEF AbortPhase, Targets
<1>17. CASE AbortRemove(i)
  BY <1>0, <1>17 DEF AbortRemove, Targets
<1>18. CASE AbortStage(i)
  BY <1>0, <1>18 DEF AbortStage, Targets
<1>19. CASE AbortFinalize(i)
  BY <1>0, <1>19 DEF AbortFinalize, Targets
<1>20. CASE AbortTimeout(i)
  BY <1>0, <1>20 DEF AbortTimeout, Targets
<1>21. CASE HandlerFails(i)
  BY <1>0, <1>21 DEF HandlerFails
<1> QED
  BY <1>1, <1>2, <1>3, <1>4, <1>5, <1>6, <1>7, <1>8, <1>9, <1>10, <1>11, <1>12, <1>13, <1>14, <1>15, <1>16, <1>17, <1>18, <1>19, <1>20, <1>21 DEF HandlerStep, Target

\* While the source is in IMPORT, only imports run, one of them behind the claim;
\* the answer that ends IMPORT comes from that one, with everything imported.
LEMMA HandlerDuringImport ==
  ASSUME TypeInv, CallInv, TargetInv, NEW i \in 0..MaxLost, HandlerStep(i)
  PROVE  DuringImport'
<1> SUFFICES ASSUME phase' = "IMPORT" PROVE DuringImport'
  BY DEF DuringImport
<1> USE DEF Handling
<1>0. /\ tgt \in Targets /\ master \in Masters /\ phase = "IMPORT" /\ phase' = phase /\ lost' = lost
      /\ call[i].step # "idle" /\ DuringImport
      /\ call[i].op \notin {"Activate", "Adopt", "Abort"}
      /\ tgt.claim \in {"none", "importing"} /\ ~tgt.staged
  BY HandlerFrame DEF TypeInv, TargetInv, CallsOfPhase, ClaimOfPhase, Decided, PostSuccess, Targets, Claims
<1>e. ASSUME Finish(i, "error"), UNCHANGED tgt, call[i].op = "Import"
      PROVE  DuringImport'
  <2>1. master' = master \/ (master'.pc = "set" /\ master'.next = "ABORT")
    <3>1. i = lost => master' = To("ABORT")
      BY <1>0, <1>e, FinishShape, AnsweredValues
    <3> QED
      BY <1>0, <1>e, <3>1, FinishShape, ToRecord DEF Phases
  <2> QED
    BY <1>0, <1>e, <2>1, FinishShape DEF DuringImport, ImportSteps, Imported
<1>1. CASE ImportBegin(i)
  <2>1. CASE tgt.claim = "none"
    <3>1. Goto(i, "rows") /\ tgt' = [tgt EXCEPT !.claim = "importing", !.id = i]
      BY <1>1, <2>1 DEF ImportBegin
    <3> QED
      BY <1>0, <1>1, <2>1, <3>1, GotoShape DEF ImportBegin, DuringImport, ImportSteps, Imported, Targets, Steps
  <2>2. CASE tgt.claim # "none"
    BY <1>0, <1>e, <1>1, <2>2 DEF ImportBegin
  <2> QED
    BY <2>1, <2>2
<1>2. CASE ImportRows(i)
  <2>1. CASE Importing(i) /\ ~tgt.row
    <3>1. Goto(i, "gate") /\ tgt' = [tgt EXCEPT !.row = TRUE, !.reg = TRUE] /\ call[i].step = "rows"
      BY <1>2, <2>1 DEF ImportRows
    <3>2. tgt'.row /\ tgt'.reg /\ tgt'.claim = "importing" /\ tgt'.id = i /\ tgt'.data = tgt.data
      BY <1>0, <2>1, <3>1 DEF Importing, Targets
    <3>3. \A j \in 0..MaxLost : ImportSteps(j)'
      BY <1>0, <3>1, <3>2, GotoShape DEF DuringImport, ImportSteps, Steps
    <3>4. ~(master'.pc = "upload" \/ (master'.pc = "set" /\ master'.next = "VALIDATION"))
      BY <1>0, <1>2, <3>1, GotoShape DEF ImportRows, DuringImport, Steps
    <3> QED
      BY <1>0, <3>2, <3>3, <3>4 DEF DuringImport
  <2>2. CASE ~(Importing(i) /\ ~tgt.row)
    BY <1>0, <1>e, <1>2, <2>2 DEF ImportRows
  <2> QED
    BY <2>1, <2>2
<1>3. CASE ImportGate(i)
  <2>1. CASE tgt.reg
    BY <1>0, <1>3, <2>1, GotoShape DEF ImportGate, Importing, DuringImport, ImportSteps, Imported, Targets, Steps
  <2>2. CASE ~tgt.reg
    BY <1>0, <1>e, <1>3, <2>2 DEF ImportGate
  <2> QED
    BY <2>1, <2>2
<1>4. CASE ImportPerms(i)
  <2>1. CASE Importing(i)
    BY <1>0, <1>4, <2>1, GotoShape DEF ImportPerms, Importing, DuringImport, ImportSteps, Imported, Targets, Steps
  <2>2. CASE ~Importing(i)
    BY <1>0, <1>e, <1>4, <2>2 DEF ImportPerms
  <2> QED
    BY <2>1, <2>2
<1>5. CASE ImportData(i)
  <2>1. CASE tgt.reg
    BY <1>0, <1>5, <2>1, GotoShape DEF ImportData, Importing, DuringImport, ImportSteps, Imported, Targets, Steps
  <2>2. CASE ~tgt.reg
    BY <1>0, <1>e, <1>5, <2>2 DEF ImportData
  <2> QED
    BY <2>1, <2>2
<1>6. CASE ImportActivate(i)
  <2>1. /\ tgt' = [tgt EXCEPT !.active = TRUE] /\ Finish(i, "ok")
        /\ tgt.row /\ tgt.reg /\ tgt.data /\ tgt.claim = "importing" /\ tgt.id = i
    BY <1>0, <1>6 DEF ImportActivate, DuringImport, ImportSteps
  <2>2. /\ Imported' /\ tgt'.claim = "importing" /\ tgt'.id = i
        /\ tgt'.row /\ tgt'.reg /\ tgt'.data
    BY <1>0, <2>1 DEF Targets, Imported
  <2>3. \A j \in 0..MaxLost : call'[j].op = "Import" => call'[j].step = "begin"
    BY <1>0, <2>1, FinishShape DEF DuringImport, ImportSteps
  <2> QED
    BY <1>0, <2>2, <2>3 DEF DuringImport, ImportSteps
<1>7. CASE HandlerFails(i)
  <2>1. call[i].op = "Import"
    BY <1>0 DEF TypeInv, CallInv, Handlers, Ops
  <2> QED
    BY <1>e, <1>7, <2>1 DEF HandlerFails
<1>8. ~(ActivateBegin(i) \/ ActivateAssert(i) \/ AdoptBegin(i) \/ AdoptCommit(i)
        \/ AdoptUngate(i) \/ AdoptActivate(i) \/ AdoptRelease(i) \/ AdoptResources(i)
        \/ AbortBegin(i) \/ AbortPhase(i) \/ AbortRemove(i) \/ AbortStage(i) \/ AbortFinalize(i) \/ AbortTimeout(i))
  BY <1>0 DEF ActivateBegin, ActivateAssert, AdoptBegin, AdoptCommit, AdoptUngate, AdoptActivate, AdoptRelease, AdoptResources, AbortBegin, AbortPhase, AbortRemove, AbortStage, AbortFinalize, AbortTimeout
<1> QED
  BY <1>1, <1>2, <1>3, <1>4, <1>5, <1>6, <1>7, <1>8 DEF HandlerStep, Target

\* In VALIDATION the import has the claim and nothing takes it away: a late
\* import is refused, and Activate only looks.
LEMMA HandlerDuringValidation ==
  ASSUME TypeInv, CallInv, TargetInv, NEW i \in 0..MaxLost, HandlerStep(i)
  PROVE  DuringValidation'
<1> SUFFICES ASSUME phase' = "VALIDATION" PROVE DuringValidation'
  BY DEF DuringValidation
<1> USE DEF Handling
<1>0. /\ tgt \in Targets /\ phase = "VALIDATION" /\ phase' = phase /\ GoesOnOrEnds(i)
      /\ call[i].op \notin {"Adopt", "Abort"} /\ tgt.claim = "importing"
      /\ call[i].op = "Import" => call[i].step = "begin"
      /\ DuringValidation
  BY HandlerFrame DEF TypeInv, TargetInv, CallsOfPhase, DuringValidation, Decided, PostSuccess
<1>1. CASE ImportBegin(i)
  <2>1. UNCHANGED tgt /\ Finish(i, "error")
    BY <1>0, <1>1 DEF ImportBegin
  <2> QED
    BY <1>0, <2>1, FinishShape DEF DuringValidation, Imported
<1>2. ~ImportRows(i)
  BY <1>0 DEF ImportRows
<1>3. ~ImportGate(i)
  BY <1>0 DEF ImportGate
<1>4. ~ImportPerms(i)
  BY <1>0 DEF ImportPerms
<1>5. ~ImportData(i)
  BY <1>0 DEF ImportData
<1>6. ~ImportActivate(i)
  BY <1>0 DEF ImportActivate
<1>7. CASE ActivateBegin(i)
  <2>1. UNCHANGED tgt /\ call[i].op = "Activate"
    BY <1>7 DEF ActivateBegin
  <2>2. \A j \in 0..MaxLost : call'[j] = call[j] \/ call'[j].op # "Import"
    BY <1>0, <2>1, FinishShape, GotoShape DEF GoesOnOrEnds
  <2> QED
    BY <1>0, <2>1, <2>2 DEF DuringValidation, Imported
<1>8. CASE ActivateAssert(i)
  <2>1. UNCHANGED tgt /\ call[i].op = "Activate"
    BY <1>8 DEF ActivateAssert
  <2>2. \A j \in 0..MaxLost : call'[j] = call[j] \/ call'[j].op # "Import"
    BY <1>0, <2>1, FinishShape, GotoShape DEF GoesOnOrEnds
  <2> QED
    BY <1>0, <2>1, <2>2 DEF DuringValidation, Imported
<1>9. CASE HandlerFails(i)
  <2>1. UNCHANGED tgt /\ Finish(i, "error")
    BY <1>0, <1>9 DEF HandlerFails
  <2> QED
    BY <1>0, <2>1, FinishShape DEF DuringValidation, Imported
<1>10. ~(AdoptBegin(i) \/ AdoptCommit(i) \/ AdoptUngate(i) \/ AdoptActivate(i)
        \/ AdoptRelease(i) \/ AdoptResources(i) \/ AbortBegin(i) \/ AbortPhase(i)
        \/ AbortRemove(i) \/ AbortStage(i) \/ AbortFinalize(i) \/ AbortTimeout(i))
  BY <1>0 DEF AdoptBegin, AdoptCommit, AdoptUngate, AdoptActivate, AdoptRelease, AdoptResources, AbortBegin, AbortPhase, AbortRemove, AbortStage, AbortFinalize, AbortTimeout
<1> QED
  BY <1>1, <1>2, <1>3, <1>4, <1>5, <1>6, <1>7, <1>8, <1>9, <1>10 DEF HandlerStep, Target

\* After SUCCESS the imported model stays: a late import is refused, and the
\* model is released with its gate open, before the master hears of it.
LEMMA HandlerAfterSuccess ==
  ASSUME TypeInv, CallInv, MasterInv, TargetInv, NEW i \in 0..MaxLost, HandlerStep(i)
  PROVE  AfterSuccess'
<1> SUFFICES ASSUME phase' \in Decided PROVE AfterSuccess'
  BY DEF AfterSuccess
<1> USE DEF Handling
<1>0. /\ tgt \in Targets /\ master \in Masters /\ phase \in Decided /\ phase' = phase /\ lost' = lost
      /\ call[i].op # "Abort" /\ tgt.claim # "aborting" /\ AfterSuccess
      /\ call[i].step # "idle" /\ GoesOnOrEnds(i)
  BY HandlerFrame DEF TypeInv, TargetInv, CallsOfPhase, ClaimOfPhase, Decided, PostSuccess
<1>1. i = lost /\ phase = "SUCCESS" => call[i].op = "Adopt" /\ master.pc = "call"
  BY <1>0, CallOfValues DEF CallInv, MasterInv, AtPhase, Working
<1>e. ASSUME NEW res, Finish(i, res), UNCHANGED tgt, call[i].op = "Adopt" => res = "error"
      PROVE  AfterSuccess'
  <2>1. phase = "SUCCESS" => master' = master \/ master'.pc = "down"
    BY <1>0, <1>1, <1>e, FinishShape, AnsweredValues, ExitedRecord
  <2> QED
    BY <1>0, <1>e, <2>1, FinishShape DEF AfterSuccess, Imported
<1>2. CASE ImportBegin(i)
  <2>1. CASE tgt.claim = "none"
    <3>1. Goto(i, "rows") /\ tgt' = [tgt EXCEPT !.claim = "importing", !.id = i] /\ call[i].op = "Import"
      BY <1>2, <2>1 DEF ImportBegin
    <3> QED
      BY <1>0, <3>1, GotoShape DEF AfterSuccess, Imported, Targets, Steps
  <2>2. CASE tgt.claim # "none"
    BY <1>e, <1>2, <2>2 DEF ImportBegin
  <2> QED
    BY <2>1, <2>2
<1>3. CASE ImportRows(i)
  BY <1>0, <1>e, <1>3 DEF ImportRows, AfterSuccess, Imported
<1>4. ~ImportGate(i)
  BY <1>0 DEF ImportGate, AfterSuccess
<1>5. ~ImportPerms(i)
  BY <1>0 DEF ImportPerms, AfterSuccess
<1>6. ~ImportData(i)
  BY <1>0 DEF ImportData, AfterSuccess
<1>7. ~ImportActivate(i)
  BY <1>0 DEF ImportActivate, AfterSuccess
<1>8. CASE ActivateBegin(i)
  <2>1. UNCHANGED tgt /\ call[i].op = "Activate"
    BY <1>8 DEF ActivateBegin
  <2>2. (\E s \in Steps : Goto(i, s)) \/ (\E res : Finish(i, res))
    BY <1>0 DEF GoesOnOrEnds
  <2>3. ASSUME NEW s \in Steps, Goto(i, s) PROVE AfterSuccess'
    BY <1>0, <2>1, <2>3, GotoShape DEF AfterSuccess, Imported
  <2> QED
    BY <1>e, <2>1, <2>2, <2>3
<1>9. CASE ActivateAssert(i)
  BY <1>e, <1>9 DEF ActivateAssert
<1>10. CASE AdoptBegin(i)
  <2>1. CASE tgt.claim = "none" /\ ~Committed
    BY <1>e, <1>10, <2>1 DEF AdoptBegin
  <2>2. CASE tgt.claim # "none" \/ Committed
    <3>1. /\ UNCHANGED tgt /\ call[i].op = "Adopt"
          /\ (Goto(i, "adopt") /\ ~tgt.gate) \/ Goto(i, "ungate") \/ Goto(i, "commit")
      BY <1>0, <1>10, <2>2 DEF AdoptBegin, Committed, Targets, Claims
    <3> QED
      BY <1>0, <3>1, GotoShape DEF AfterSuccess, Imported, Steps
  <2> QED
    BY <2>1, <2>2
<1>11. CASE AdoptCommit(i)
  <2>1. CASE tgt.claim \in {"importing", "activating"}
    <3>1. Goto(i, "ungate") /\ tgt' = [tgt EXCEPT !.claim = "activating"] /\ Handling(i, "Adopt", "commit")
      BY <1>11, <2>1 DEF AdoptCommit
    <3> QED
      BY <1>0, <3>1, GotoShape DEF AfterSuccess, Imported, Targets, Steps
  <2>2. CASE ~(tgt.claim \in {"importing", "activating"})
    BY <1>e, <1>11, <2>2 DEF AdoptCommit
  <2> QED
    BY <2>1, <2>2
<1>12. CASE AdoptUngate(i)
  BY <1>0, <1>12, GotoShape DEF AdoptUngate, AfterSuccess, Imported, Targets, Steps
<1>13. CASE AdoptActivate(i)
  BY <1>0, <1>13, GotoShape DEF AdoptActivate, AfterSuccess, Imported, Targets, Steps
<1>14. CASE AdoptRelease(i)
  <2>1. CASE tgt.claim \in {"none", "activating"}
    <3>1. Goto(i, "adopt") /\ tgt' = [tgt EXCEPT !.claim = "none"] /\ Handling(i, "Adopt", "release")
      BY <1>14, <2>1 DEF AdoptRelease
    <3> QED
      BY <1>0, <3>1, GotoShape DEF AfterSuccess, Imported, Targets, Steps
  <2>2. CASE ~(tgt.claim \in {"none", "activating"})
    BY <1>e, <1>14, <2>2 DEF AdoptRelease
  <2> QED
    BY <2>1, <2>2
<1>15. CASE AdoptResources(i)
  <2>1. tgt' = [tgt EXCEPT !.adopted = TRUE] /\ Finish(i, "ok") /\ ~tgt.gate
    BY <1>0, <1>15 DEF AdoptResources, AfterSuccess
  <2>2. ~tgt'.gate /\ tgt'.adopted /\ Imported'
    BY <1>0, <2>1 DEF Targets, AfterSuccess, Imported
  <2> QED
    BY <1>0, <2>1, <2>2, FinishShape DEF AfterSuccess
<1>16. CASE HandlerFails(i)
  BY <1>e, <1>16 DEF HandlerFails
<1>17. ~(AbortBegin(i) \/ AbortPhase(i) \/ AbortRemove(i) \/ AbortStage(i)
        \/ AbortFinalize(i) \/ AbortTimeout(i))
  BY <1>0 DEF AbortBegin, AbortPhase, AbortRemove, AbortStage, AbortFinalize, AbortTimeout
<1> QED
  BY <1>2, <1>3, <1>4, <1>5, <1>6, <1>7, <1>8, <1>9, <1>10, <1>11, <1>12, <1>13, <1>14, <1>15, <1>16, <1>17 DEF HandlerStep, Target

\* An abandoned import without a claim has no rows: the rows are written under
\* the claim, and the claim is given up once they are gone.
LEMMA HandlerAfterAbort ==
  ASSUME TypeInv, TargetInv, NEW i \in 0..MaxLost, HandlerStep(i)
  PROVE  AfterAbort'
<1> SUFFICES ASSUME phase' \in {"ABORT", "ABORTDONE"} PROVE AfterAbort'
  BY DEF AfterAbort
<1> USE DEF Handling
<1>0. /\ tgt \in Targets /\ phase \in {"ABORT", "ABORTDONE"} /\ phase' = phase
      /\ AfterAbort /\ call[i].op # "Adopt"
  BY HandlerFrame DEF TypeInv, TargetInv, CallsOfPhase, Decided, PostSuccess
<1>1. CASE ImportBegin(i)
  BY <1>0, <1>1 DEF ImportBegin, AfterAbort, Targets
<1>2. CASE ImportRows(i)
  BY <1>0, <1>2 DEF ImportRows, AfterAbort, Targets, Importing
<1>3. CASE ImportGate(i)
  BY <1>0, <1>3 DEF ImportGate, AfterAbort, Targets
<1>4. CASE ImportPerms(i)
  BY <1>0, <1>4 DEF ImportPerms, AfterAbort, Targets
<1>5. CASE ImportData(i)
  BY <1>0, <1>5 DEF ImportData, AfterAbort, Targets
<1>6. CASE ImportActivate(i)
  BY <1>0, <1>6 DEF ImportActivate, AfterAbort, Targets
<1>7. CASE ActivateBegin(i)
  BY <1>0, <1>7 DEF ActivateBegin, AfterAbort, Targets
<1>8. CASE ActivateAssert(i)
  BY <1>0, <1>8 DEF ActivateAssert, AfterAbort, Targets
<1>9. CASE AbortBegin(i)
  BY <1>0, <1>9 DEF AbortBegin, AfterAbort, Targets
<1>10. CASE AbortPhase(i)
  BY <1>0, <1>10 DEF AbortPhase, AfterAbort, Targets
<1>11. CASE AbortRemove(i)
  BY <1>0, <1>11 DEF AbortRemove, AfterAbort, Targets
<1>12. CASE AbortStage(i)
  BY <1>0, <1>12 DEF AbortStage, AfterAbort, Targets
<1>13. CASE AbortFinalize(i)
  BY <1>0, <1>13 DEF AbortFinalize, AfterAbort, Targets
<1>14. CASE AbortTimeout(i)
  BY <1>0, <1>14 DEF AbortTimeout, AfterAbort, Targets
<1>15. CASE HandlerFails(i)
  BY <1>0, <1>15 DEF HandlerFails, AfterAbort, Targets
<1>16. ~(AdoptBegin(i) \/ AdoptCommit(i) \/ AdoptUngate(i)
        \/ AdoptActivate(i) \/ AdoptRelease(i) \/ AdoptResources(i))
  BY <1>0 DEF AdoptBegin, AdoptCommit, AdoptUngate, AdoptActivate, AdoptRelease, AdoptResources
<1> QED
  BY <1>1, <1>2, <1>3, <1>4, <1>5, <1>6, <1>7, <1>8, <1>9, <1>10, <1>11, <1>12, <1>13, <1>14, <1>15, <1>16 DEF HandlerStep, Target

\* Every step of a handler keeps the invariant.
LEMMA HandlerIInv ==
  ASSUME IInv, NEW i \in 0..MaxLost, HandlerStep(i)
  PROVE  IInv'
<1>1. TypeInv /\ CallInv /\ MasterInv /\ AgentInv /\ (FirstMigration => TargetInv)
  BY DEF IInv
<1>2. TypeInv' /\ CallInv' /\ MasterInv' /\ AgentInv'
  BY <1>1, HandlerCall, HandlerMaster
<1>3. FirstMigration' => FirstMigration
  BY <1>1, HandlerFrame DEF FirstMigration
<1>4. TargetInv => TargetInv'
  <2> SUFFICES ASSUME TargetInv PROVE TargetInv'
    OBVIOUS
  <2>1. CallsOfPhase' /\ Untouched' /\ AgentsLate'
    BY <1>1, HandlerCalls
  <2>2. ClaimOfPhase'
    BY <1>1, HandlerClaim
  <2>3. DuringImport' /\ DuringValidation'
    BY <1>1, HandlerDuringImport, HandlerDuringValidation
  <2>4. AfterSuccess' /\ AfterAbort'
    BY <1>1, HandlerAfterSuccess, HandlerAfterAbort
  <2> QED
    BY <2>1, <2>2, <2>3, <2>4 DEF TargetInv
<1> QED
  BY <1>1, <1>2, <1>3, <1>4 DEF IInv

-----------------------------------------------------------------------------
(* The minions *)

MinionStep(a) == Minion(a) \/ MinionReportLost(a) \/ MinionDies(a)

\* The statuses a minion may read, and the records of a minion started afresh or
\* done with a phase.
LEMMA MinionRecords ==
  ASSUME TypeInv, NEW a \in Agents
  PROVE  /\ NoStatus \in Statuses(attempt) /\ NoStatus.ph = "NONE"
         /\ Status \in Statuses(attempt) /\ Status.ph = ActivePhase
         /\ Fresh(agent[a]) \in Minions(attempt)
         /\ Fresh(agent[a]).step = "idle" /\ Fresh(agent[a]).fort = agent[a].fort
         /\ Fresh(agent[a]).conn = agent[a].conf /\ Fresh(agent[a]).conf = agent[a].conf
         /\ Fresh(agent[a]).st = NoStatus
         /\ Processed(agent[a]) \in Minions(attempt)
         /\ Processed(agent[a]).step = "idle" /\ Processed(agent[a]).fort = agent[a].fort
         /\ Processed(agent[a]).conn = agent[a].conn /\ Processed(agent[a]).conf = agent[a].conf
         /\ Processed(agent[a]).st = agent[a].st
<1> USE MigrationAssumption
<1>1. agent[a] \in Minions(attempt) /\ attempt \in Nat /\ phase \in Phases
  BY DEF TypeInv
<1>2. NoStatus \in Statuses(attempt) /\ NoStatus.ph = "NONE"
  BY <1>1 DEF NoStatus, Statuses, Phases
<1>3. Status \in Statuses(attempt) /\ Status.ph = ActivePhase
  BY <1>1 DEF Status, ActivePhase, Statuses, Phases
<1>4. /\ Fresh(agent[a]) \in Minions(attempt)
      /\ Fresh(agent[a]).step = "idle" /\ Fresh(agent[a]).fort = agent[a].fort
      /\ Fresh(agent[a]).conn = agent[a].conf /\ Fresh(agent[a]).conf = agent[a].conf
      /\ Fresh(agent[a]).st = NoStatus
  BY <1>1, <1>2 DEF Fresh, Minions
<1>5. /\ Processed(agent[a]) \in Minions(attempt)
      /\ Processed(agent[a]).step = "idle" /\ Processed(agent[a]).fort = agent[a].fort
      /\ Processed(agent[a]).conn = agent[a].conn /\ Processed(agent[a]).conf = agent[a].conf
      /\ Processed(agent[a]).st = agent[a].st
  BY <1>1 DEF Processed, Minions
<1> QED
  BY <1>2, <1>3, <1>4, <1>5

\* What a minion reports: it never takes back that it has quiesced, and only a
\* minion that acts on QUIESCE says so.
LEMMA MinionReports ==
  ASSUME TypeInv, NEW a \in Agents, MinionStep(a)
  PROVE  /\ reports' \in [Reported -> [Agents -> {"none", "ok", "failed"}]]
         /\ \A b \in Agents : \/ reports'["QUIESCE"][b] = reports["QUIESCE"][b]
                              \/ /\ b = a /\ MinionQuiesce(a) /\ agent'[a] = Processed(agent[a])
                                 /\ reports'["QUIESCE"][b] = "ok"
<1>0. /\ reports \in [Reported -> [Agents -> {"none", "ok", "failed"}]]
      /\ {"QUIESCE", "VALIDATION", "SUCCESS"} \subseteq Reported
      /\ agent \in [Agents -> Minions(attempt)]
  BY DEF TypeInv, Reported
<1>1. CASE MinionQuiesce(a)
  <2>1. \/ UNCHANGED reports
        \/ reports' = [reports EXCEPT !["QUIESCE"][a] = "ok"] /\ agent' = [agent EXCEPT ![a] = Processed(agent[a])]
    BY <1>1 DEF MinionQuiesce, Report
  <2> QED
    BY <1>0, <1>1, <2>1
<1>2. CASE MinionValidation(a)
  <2>1. UNCHANGED reports \/ \E res \in {"ok", "failed"} : reports' = [reports EXCEPT !["VALIDATION"][a] = res]
    BY <1>2 DEF MinionValidation, Report
  <2> QED
    BY <1>0, <2>1
<1>3. CASE MinionSuccess(a)
  <2>1. UNCHANGED reports \/ reports' = [reports EXCEPT !["SUCCESS"][a] = "ok"]
    BY <1>3 DEF MinionSuccess
  <2> QED
    BY <1>0, <2>1
<1>4. CASE UNCHANGED reports
  BY <1>0, <1>4
<1>5. MinionQuiesce(a) \/ MinionValidation(a) \/ MinionSuccess(a) \/ UNCHANGED reports
  BY DEF MinionStep, Minion, MinionRead, MinionStandDown, MinionLockdown, MinionImport,
     MinionConfig, Reconnect, MinionReportLost, MinionDies
<1> QED
  BY <1>1, <1>2, <1>3, <1>4, <1>5

\* A step of a minion is about its own agent.
LEMMA MinionFrame ==
  ASSUME TypeInv, NEW a \in Agents, MinionStep(a)
  PROVE  /\ UNCHANGED <<phase, attempt, fort, master, tgt, call, lost>>
         /\ faults' \in 0..MaxFaults
         /\ agent' \in [Agents -> Minions(attempt)]
         /\ \A b \in Agents : b # a => agent'[b] = agent[b]
<1> USE MigrationAssumption
<1>0. /\ agent \in [Agents -> Minions(attempt)] /\ agent[a] \in Minions(attempt)
      /\ faults \in 0..MaxFaults
  BY DEF TypeInv
<1>1. UNCHANGED <<phase, attempt, fort, master, tgt, call, lost>> /\ faults' \in 0..MaxFaults
  BY <1>0 DEF MinionStep, Minion, MinionRead, MinionStandDown, MinionLockdown, MinionQuiesce, MinionImport, MinionValidation, MinionSuccess, MinionConfig, Reconnect, MinionReportLost, MinionDies, OnlyAgents, Fault
<1> SUFFICES \E r \in Minions(attempt) : agent' = [agent EXCEPT ![a] = r]
  BY <1>0, <1>1
<1>f. /\ Fresh(agent[a]) \in Minions(attempt) /\ Processed(agent[a]) \in Minions(attempt)
      /\ Status \in Statuses(attempt) /\ NoStatus \in Statuses(attempt)
  BY MinionRecords
<1>2. CASE MinionRead(a)
  <2> DEFINE s == IF agent[a].conn = "source" THEN Status ELSE NoStatus
  <2>1. [agent[a] EXCEPT !.step = "got", !.st = s] \in Minions(attempt)
    BY <1>0, <1>f DEF Minions
  <2>2. agent' = [agent EXCEPT ![a] = [agent[a] EXCEPT !.step = "got", !.st = s]]
    BY <1>0, <1>2 DEF MinionRead, Minions
  <2> QED
    BY <2>1, <2>2
<1>3. CASE MinionStandDown(a)
  <2> DEFINE c == IF agent[a].st.ph \in PostSuccess THEN "target" ELSE agent[a].conf
             p == {s \in agent[a].proc : s.id # agent[a].st.id}
             r == [agent[a] EXCEPT !.conf = c, !.proc = p, !.fort = "open", !.step = "idle"]
  <2>1. c \in {"source", "target"} /\ p \in SUBSET Statuses(attempt)
    BY <1>0 DEF Minions
  <2>2. r \in Minions(attempt)
    <3> HIDE DEF c, p
    <3> QED
      BY <1>0, <2>1 DEF Minions
  <2>3. agent' = [agent EXCEPT ![a] = r]
    BY <1>0, <1>3 DEF MinionStandDown
  <2> QED
    BY <2>2, <2>3
<1>4. CASE MinionLockdown(a)
  <2>1. /\ [agent[a] EXCEPT !.step = "idle"] \in Minions(attempt)
        /\ [agent[a] EXCEPT !.step = "act", !.fort = "locked"] \in Minions(attempt)
    BY <1>0 DEF Minions
  <2>2. \/ agent' = [agent EXCEPT ![a] = [agent[a] EXCEPT !.step = "idle"]]
        \/ agent' = [agent EXCEPT ![a] = [agent[a] EXCEPT !.step = "act", !.fort = "locked"]]
    BY <1>0, <1>4 DEF MinionLockdown, Minions
  <2> QED
    BY <2>1, <2>2
<1>5. CASE MinionQuiesce(a)
  BY <1>f, <1>5 DEF MinionQuiesce, Report
<1>6. CASE MinionImport(a)
  BY <1>f, <1>6 DEF MinionImport
<1>7. CASE MinionValidation(a)
  <2>1. [agent[a] EXCEPT !.step = "idle"] \in Minions(attempt)
    BY <1>0 DEF Minions
  <2>2. \/ agent' = [agent EXCEPT ![a] = [agent[a] EXCEPT !.step = "idle"]]
        \/ agent' = [agent EXCEPT ![a] = Processed(agent[a])]
        \/ agent' = [agent EXCEPT ![a] = Fresh(agent[a])]
    BY <1>0, <1>7 DEF MinionValidation, Report
  <2> QED
    BY <1>f, <2>1, <2>2
<1>8. CASE MinionSuccess(a) \/ MinionReportLost(a)
  <2>1. /\ [agent[a] EXCEPT !.step = "config"] \in Minions(attempt)
        /\ [Fresh(agent[a]) EXCEPT !.conf = "target"] \in Minions(attempt)
    BY <1>0, <1>f DEF Minions
  <2>2. \/ agent' = [agent EXCEPT ![a] = [agent[a] EXCEPT !.step = "config"]]
        \/ agent' = [agent EXCEPT ![a] = [Fresh(agent[a]) EXCEPT !.conf = "target"]]
    BY <1>0, <1>8 DEF MinionSuccess, MinionReportLost, Unreported
  <2> QED
    BY <2>1, <2>2
<1>9. CASE MinionConfig(a)
  <2>1. [Processed(agent[a]) EXCEPT !.conf = "target"] \in Minions(attempt)
    BY <1>f DEF Minions
  <2>2. agent' = [agent EXCEPT ![a] = [Processed(agent[a]) EXCEPT !.conf = "target"]]
    BY <1>0, <1>9 DEF MinionConfig
  <2> QED
    BY <2>1, <2>2
<1>10. CASE Reconnect(a)
  BY <1>f, <1>10 DEF Reconnect
<1>11. CASE MinionDies(a)
  <2>1. [Fresh(agent[a]) EXCEPT !.fort = "locked"] \in Minions(attempt)
    BY <1>f DEF Minions
  <2>2. \/ agent' = [agent EXCEPT ![a] = Fresh(agent[a])]
        \/ agent' = [agent EXCEPT ![a] = [Fresh(agent[a]) EXCEPT !.fort = "locked"]]
    BY <1>0, <1>11 DEF MinionDies
  <2> QED
    BY <1>f, <2>1, <2>2
<1> QED
  BY <1>2, <1>3, <1>4, <1>5, <1>6, <1>7, <1>8, <1>9, <1>10, <1>11 DEF MinionStep, Minion

\* An agent that is not ahead of the source.
Late(a) == \/ phase \in Decided
           \/ agent[a].conf = "source" /\ agent[a].conn = "source" /\ agent[a].st.ph \notin Decided

\* A minion's step keeps its agent still once it has quiesced, and moves it over
\* only when it has heard of SUCCESS.
LEMMA MinionKeeps ==
  ASSUME TypeInv, NEW a \in Agents, MinionStep(a), Stopped(a), KeepsStill(a)
  PROVE  Stopped(a)' /\ KeepsStill(a)' /\ (Late(a) => Late(a)')
<1> DEFINE r == agent[a]
           q == agent'[a]
           Kept == /\ q.conn = "target" => q.conf = "target"
                   /\ q.step \in {"act", "config"} => q.fort = "locked" /\ q.st.ph \in Running
                   /\ q.step = "config" => q.st.ph = "SUCCESS"
                   /\ phase \in Running /\ reports'["QUIESCE"][a] = "ok" =>
                        \/ q.conn = "target"
                        \/ q.fort = "locked" /\ (q.step = "got" => q.st.ph \in Running)
                   /\ \/ phase \in Decided
                      \/ r.conf = "source" /\ r.conn = "source" /\ r.st.ph \notin Decided =>
                           q.conf = "source" /\ q.conn = "source" /\ q.st.ph \notin Decided
<1>0. /\ agent \in [Agents -> Minions(attempt)] /\ r \in Minions(attempt) /\ phase \in Phases
      /\ phase' = phase
  BY MinionFrame DEF TypeInv
<1>1. /\ NoStatus.ph = "NONE" /\ Status.ph = ActivePhase
      /\ Fresh(r).step = "idle" /\ Fresh(r).fort = r.fort /\ Fresh(r).conn = r.conf
      /\ Fresh(r).conf = r.conf /\ Fresh(r).st = NoStatus
      /\ Processed(r).step = "idle" /\ Processed(r).fort = r.fort /\ Processed(r).conn = r.conn
      /\ Processed(r).conf = r.conf /\ Processed(r).st = r.st
      /\ Fresh(r) \in Minions(attempt) /\ Processed(r) \in Minions(attempt)
  BY MinionRecords
<1>2. /\ r.conn = "target" => r.conf = "target"
      /\ r.step \in {"act", "config"} => r.fort = "locked" /\ r.st.ph \in Running
      /\ r.step = "config" => r.st.ph = "SUCCESS"
      /\ phase \in Running /\ reports["QUIESCE"][a] = "ok" =>
           \/ r.conn = "target"
           \/ r.fort = "locked" /\ (r.step = "got" => r.st.ph \in Running)
  BY DEF Stopped, KeepsStill
<1>3. /\ "NONE" \notin Decided /\ "NONE" \notin Running /\ "SUCCESS" \in Running /\ "SUCCESS" \in Decided
      /\ PostSuccess \subseteq Decided
  BY DEF Decided, PostSuccess, Running
<1>4. \/ reports'["QUIESCE"][a] = reports["QUIESCE"][a]
      \/ MinionQuiesce(a) /\ q = Processed(r)
  BY MinionReports
<1>5. ActivePhase = phase \/ ActivePhase = "NONE"
  BY DEF ActivePhase
<1>6. phase \in Running => ActivePhase = phase
  BY <1>0, Active DEF Running
<1>7. SUFFICES Kept
  BY <1>0 DEF Stopped, KeepsStill, Late
<1>8. r.conf \in {"source", "target"} /\ r.conn \in {"source", "target"}
  BY <1>0 DEF Minions
<1>10. CASE MinionRead(a)
  <2>1. /\ q.step = "got" /\ q.fort = r.fort /\ q.conn = r.conn /\ q.conf = r.conf
        /\ q.st = IF r.conn = "source" THEN Status ELSE NoStatus
    BY <1>0, <1>10 DEF MinionRead, Minions
  <2>2. reports' = reports /\ r.step = "idle"
    BY <1>10 DEF MinionRead
  <2> HIDE DEF q, r
  <2> QED
    BY <1>1, <1>2, <1>3, <1>5, <1>6, <1>8, <2>1, <2>2
<1>11. CASE MinionStandDown(a)
  <2>1. /\ q.step = "idle" /\ q.fort = "open" /\ q.conn = r.conn /\ q.st = r.st
        /\ q.conf = IF r.st.ph \in PostSuccess THEN "target" ELSE r.conf
    BY <1>0, <1>11 DEF MinionStandDown, Minions
  <2>2. reports' = reports /\ r.step = "got" /\ r.st.ph \notin Running
    BY <1>11 DEF MinionStandDown
  <2> HIDE DEF q, r
  <2> QED
    BY <1>2, <1>3, <2>1, <2>2
<1>12. CASE MinionLockdown(a)
  <2>1. /\ \/ q.step = "idle" /\ q.fort = r.fort
           \/ q.step = "act" /\ q.fort = "locked"
        /\ q.conn = r.conn /\ q.st = r.st /\ q.conf = r.conf
    BY <1>0, <1>12 DEF MinionLockdown, Minions
  <2>2. reports' = reports /\ r.st.ph \in Running
    BY <1>12 DEF MinionLockdown
  <2> HIDE DEF q, r
  <2> QED
    BY <1>2, <2>1, <2>2
<1>13. ASSUME q = Processed(r), r.step \in {"act", "config"} PROVE Kept
  <2> HIDE DEF q, r
  <2> QED
    BY <1>1, <1>2, <1>13
<1>14. ASSUME q = Fresh(r), reports'["QUIESCE"][a] = reports["QUIESCE"][a] PROVE Kept
  <2> HIDE DEF q, r
  <2>1. q.conf = r.conf /\ q.conn = r.conf /\ q.st.ph = "NONE" /\ q.step = "idle" /\ q.fort = r.fort
    BY <1>1, <1>14
  <2> QED
    BY <1>2, <1>3, <1>8, <1>14, <2>1
<1>15. CASE MinionQuiesce(a)
  <2>1. q = Processed(r) \/ (q = Fresh(r) /\ reports' = reports)
    BY <1>0, <1>15 DEF MinionQuiesce, Report
  <2> QED
    BY <1>13, <1>14, <1>15, <2>1 DEF MinionQuiesce
<1>16. CASE MinionImport(a)
  <2>1. q = Processed(r)
    BY <1>0, <1>16 DEF MinionImport
  <2> QED
    BY <1>13, <1>16, <2>1 DEF MinionImport
<1>17. CASE MinionValidation(a)
  <2>1. \/ q = Processed(r) \/ (q = Fresh(r) /\ reports' = reports)
        \/ q = [r EXCEPT !.step = "idle"] /\ reports' = reports
    BY <1>0, <1>17 DEF MinionValidation, Report
  <2>2. CASE q = [r EXCEPT !.step = "idle"] /\ reports' = reports
    <3>1. /\ q.conf = r.conf /\ q.conn = r.conn /\ q.st = r.st /\ q.step = "idle" /\ q.fort = r.fort
          /\ reports' = reports
      BY <1>0, <2>2 DEF Minions
    <3> HIDE DEF q, r
    <3> QED
      BY <1>2, <3>1
  <2> QED
    BY <1>13, <1>14, <1>17, <2>1, <2>2 DEF MinionValidation
<1>18. CASE MinionSuccess(a) \/ MinionReportLost(a)
  <2>1. /\ q = [r EXCEPT !.step = "config"] \/ q = [Fresh(r) EXCEPT !.conf = "target"]
        /\ r.st.ph = "SUCCESS" /\ r.step = "act"
        /\ reports'["QUIESCE"][a] = reports["QUIESCE"][a]
    BY <1>0, <1>4, <1>18 DEF MinionSuccess, MinionReportLost, MinionQuiesce, Unreported
  <2>2. CASE q = [r EXCEPT !.step = "config"]
    <3>1. q.conf = r.conf /\ q.conn = r.conn /\ q.st = r.st /\ q.step = "config" /\ q.fort = r.fort
      BY <1>0, <2>2 DEF Minions
    <3> HIDE DEF q, r
    <3> QED
      BY <1>2, <2>1, <3>1
  <2>3. CASE q = [Fresh(r) EXCEPT !.conf = "target"]
    <3>1. /\ q.conf = "target" /\ q.conn = r.conf /\ q.st.ph = "NONE" /\ q.step = "idle"
          /\ q.fort = r.fort
      BY <1>1, <2>3 DEF Minions
    <3> HIDE DEF q, r
    <3> QED
      BY <1>2, <1>3, <2>1, <3>1
  <2> QED
    BY <2>1, <2>2, <2>3
<1>19. CASE MinionConfig(a)
  <2>1. q = [Processed(r) EXCEPT !.conf = "target"] /\ r.step = "config"
    BY <1>0, <1>19 DEF MinionConfig
  <2>2. /\ q.conf = "target" /\ q.conn = r.conn /\ q.st = r.st /\ q.step = "idle" /\ q.fort = r.fort
        /\ r.step = "config"
    BY <1>1, <2>1 DEF Minions
  <2> HIDE DEF q, r
  <2> QED
    BY <1>2, <1>3, <2>2
<1>20. CASE Reconnect(a)
  <2>1. q = Fresh(r) /\ reports' = reports
    BY <1>0, <1>20 DEF Reconnect
  <2> QED
    BY <1>14, <2>1
<1>21. CASE MinionDies(a)
  <2>1. (q = Fresh(r) \/ q = [Fresh(r) EXCEPT !.fort = "locked"]) /\ reports' = reports
    BY <1>0, <1>21 DEF MinionDies
  <2>2. CASE q = [Fresh(r) EXCEPT !.fort = "locked"] /\ reports' = reports
    <3>1. q.conf = r.conf /\ q.conn = r.conf /\ q.st.ph = "NONE" /\ q.step = "idle" /\ q.fort = "locked"
      BY <1>1, <2>2 DEF Minions
    <3> HIDE DEF q, r
    <3> QED
      BY <1>2, <1>3, <1>8, <3>1
  <2> QED
    BY <1>14, <2>1, <2>2
<1> QED
  BY <1>10, <1>11, <1>12, <1>15, <1>16, <1>17, <1>18, <1>19, <1>20, <1>21 DEF MinionStep, Minion

\* Every step of a minion keeps the invariant.
LEMMA MinionIInv ==
  ASSUME IInv, NEW a \in Agents, MinionStep(a)
  PROVE  IInv'
<1>1. TypeInv /\ CallInv /\ MasterInv /\ AgentInv /\ (FirstMigration => TargetInv)
  BY DEF IInv
<1>2. /\ UNCHANGED <<phase, attempt, fort, master, tgt, call, lost>>
      /\ faults' \in 0..MaxFaults /\ agent' \in [Agents -> Minions(attempt)]
      /\ \A b \in Agents : b # a => agent'[b] = agent[b]
  BY <1>1, MinionFrame
<1>3. /\ reports' \in [Reported -> [Agents -> {"none", "ok", "failed"}]]
      /\ \A b \in Agents : \/ reports'["QUIESCE"][b] = reports["QUIESCE"][b]
                           \/ b = a /\ reports'["QUIESCE"][b] = "ok"
  BY <1>1, MinionReports
<1>4. Stopped(a)' /\ KeepsStill(a)' /\ (Late(a) => Late(a)')
  BY <1>1, MinionKeeps DEF AgentInv
<1>5. TypeInv'
  BY <1>1, <1>2, <1>3 DEF TypeInv
<1>6. CallInv' /\ MasterInv'
  <2>1. CallInv'
    BY <1>1, <1>2 DEF CallInv
  <2>2. MasterInv'
    BY <1>1, <1>2 DEF MasterInv, AtPhase, MasterSteps, Shut, ActivePhase, IsTerminal
  <2> QED
    BY <2>1, <2>2
<1>7. AgentInv'
  <2>1. ASSUME NEW b \in Agents PROVE Stopped(b)' /\ KeepsStill(b)'
    <3>1. CASE b = a
      BY <1>4, <3>1
    <3>2. CASE b # a
      BY <1>1, <1>2, <1>3, <3>2 DEF AgentInv, Stopped, KeepsStill
    <3> QED
      BY <3>1, <3>2
  <2>2. AllQuiesced' /\ NeverFailsQuiesce'
    BY <1>1, <1>2, <1>3 DEF AgentInv, AllQuiesced, NeverFailsQuiesce
  <2> QED
    BY <2>1, <2>2 DEF AgentInv
<1>8. FirstMigration' => TargetInv'
  <2> SUFFICES ASSUME FirstMigration' PROVE TargetInv'
    OBVIOUS
  <2>1. TargetInv
    BY <1>1, <1>2 DEF FirstMigration
  <2>2. AgentsLate'
    BY <1>2, <1>4, <2>1 DEF TargetInv, AgentsLate, Late
  <2>3. CallsOfPhase' /\ ClaimOfPhase' /\ Untouched' /\ AfterAbort'
    BY <1>2, <2>1 DEF TargetInv, CallsOfPhase, ClaimOfPhase, Untouched, AfterAbort
  <2>4. DuringImport' /\ DuringValidation' /\ AfterSuccess'
    BY <1>2, <2>1 DEF TargetInv, DuringImport, DuringValidation, AfterSuccess, ImportSteps, Imported
  <2> QED
    BY <2>2, <2>3, <2>4 DEF TargetInv
<1> QED
  BY <1>5, <1>6, <1>7, <1>8 DEF IInv

-----------------------------------------------------------------------------
(* The master *)

\* The steps of the master that neither record a phase nor call the target.
MasterOwnStep ==
    \/ MasterStart \/ WaitForActiveMigration \/ MasterLockdown \/ Prechecks
    \/ AwaitMinions \/ ReadReports \/ MinionTimeout \/ MachinesDiffer
    \/ UploadBinaries \/ TransferLogs \/ TargetUnreachable \/ MasterDies
    \/ ModelWorkersRestart \/ LoseConnection

\* What such a step does: a call that is under way is left behind.
Moves ==
    /\ UNCHANGED <<phase, attempt, reports, tgt, call, agent>>
    /\ faults' \in 0..MaxFaults /\ fort' \in {"open", "locked"} /\ lost' \in 0..MaxLost
    /\ master' \in Masters /\ master'.pc \notin {"call", "upload"}
    /\ \/ lost' = lost /\ master.pc # "call"
       \/ lost' = lost + 1 /\ master.pc = "call"

\* It leaves the master at a step of the recorded phase ...
MovesInPhase ==
    /\ master'.pc \in Working \cup {"lock"} => master'.at = phase /\ ActivePhase # "NONE"
    /\ master'.pc \in {"minions", "checks"} => master'.at \in Reported
    /\ master'.pc = "set" => CanTransitionTo(master'.at, master'.next) /\ master'.next # "DONE"
    /\ phase = "DONE" => master'.pc = "uninstalled"
    /\ (\/ master'.pc \in Working
        \/ phase \in {"IMPORT", "VALIDATION", "ABORT"} \cup (Decided \ {"REAPFAILED"}))
       => fort' = "locked"

\* ... and only with every agent quiesced past QUIESCE, only after the upload
\* past IMPORT, and not past SUCCESS.
MovesWithCause ==
    /\ phase = "QUIESCE" /\ (master'.pc = "checks" \/ (master'.pc = "set" /\ master'.next = "IMPORT"))
       => \A a \in Agents : reports["QUIESCE"][a] = "ok"
    /\ phase = "IMPORT" /\ master'.pc = "set" /\ master'.next = "VALIDATION" => master.pc = "upload"
    /\ phase = "SUCCESS" => master'.pc # "set"

\* Such a step keeps the invariant.
LEMMA MovesIInv ==
  ASSUME IInv, Moves, MovesInPhase, MovesWithCause
  PROVE  IInv'
<1> USE MigrationAssumption DEF Moves
<1>1. TypeInv /\ CallInv /\ MasterInv /\ AgentInv /\ (FirstMigration => TargetInv)
  BY DEF IInv
<1>2. TypeInv'
  BY <1>1 DEF TypeInv
<1>3. CallInv'
  <2>1. lost \in 0..MaxLost /\ lost' \in 0..MaxLost
    BY <1>1 DEF TypeInv
  <2> QED
    BY <1>1, <2>1 DEF CallInv
<1>4. MasterInv'
  <2>1. ActivePhase' = ActivePhase
    BY DEF ActivePhase, IsTerminal
  <2> QED
    BY <1>1, <2>1 DEF MovesInPhase, MasterInv, AtPhase, MasterSteps, Shut
<1>5. AgentInv'
  <2>1. AllQuiesced'
    BY <1>1 DEF AgentInv, AllQuiesced, MovesWithCause
  <2> QED
    BY <1>1, <2>1 DEF AgentInv, Stopped, KeepsStill, NeverFailsQuiesce
<1>6. FirstMigration' => TargetInv'
  <2> SUFFICES ASSUME FirstMigration' PROVE TargetInv'
    OBVIOUS
  <2>1. TargetInv
    BY <1>1 DEF FirstMigration
  <2>2. DuringImport'
    BY <2>1 DEF TargetInv, DuringImport, ImportSteps, Imported, MovesWithCause
  <2>3. AfterSuccess'
    BY <2>1 DEF TargetInv, AfterSuccess, Imported, MovesWithCause
  <2>4. DuringValidation' /\ AgentsLate'
    BY <2>1 DEF TargetInv, DuringValidation, Imported, AgentsLate
  <2>5. CallsOfPhase' /\ ClaimOfPhase' /\ Untouched' /\ AfterAbort'
    BY <2>1 DEF TargetInv, CallsOfPhase, ClaimOfPhase, Untouched, AfterAbort
  <2> QED
    BY <2>2, <2>3, <2>4, <2>5 DEF TargetInv
<1> QED
  BY <1>2, <1>3, <1>4, <1>5, <1>6 DEF IInv

\* Each of the master's own steps is such a step.
LEMMA MasterOwnMoves ==
  ASSUME IInv, MasterOwnStep
  PROVE  Moves /\ MovesInPhase /\ MovesWithCause
<1> USE MigrationAssumption DEF OnlyMaster, Fault
<1>0. /\ TypeInv /\ CallInv /\ MasterInv /\ AgentInv /\ master \in Masters /\ phase \in Phases
      /\ lost \in 0..MaxLost /\ faults \in 0..MaxFaults /\ fort \in {"open", "locked"}
      /\ master.at \in Phases /\ master.pc \in PCs
  BY DEF IInv, TypeInv, Masters
<1>1. /\ {"QUIESCE", "IMPORT", "VALIDATION", "SUCCESS", "ABORT", "ABORTDONE", "LOGTRANSFER",
          "REAP"} \subseteq Phases
      /\ {"wait", "lock", "do", "minions", "checks"} \subseteq PCs
  BY DEF PCs, Phases, Running, PostSuccess
<1>2. /\ CanTransitionTo("QUIESCE", "IMPORT") /\ CanTransitionTo("QUIESCE", "ABORT")
      /\ CanTransitionTo("IMPORT", "VALIDATION") /\ CanTransitionTo("IMPORT", "ABORT")
      /\ CanTransitionTo("VALIDATION", "ABORT") /\ CanTransitionTo("LOGTRANSFER", "REAP")
      /\ CanTransitionTo("ABORT", "ABORTDONE")
  BY DEF CanTransitionTo
<1>3. /\ master.pc \in Working \cup {"lock"} => master.at = phase /\ ActivePhase # "NONE" /\ phase # "DONE"
      /\ (\/ master.pc \in Working
          \/ phase \in {"IMPORT", "VALIDATION", "ABORT"} \cup (Decided \ {"REAPFAILED"}))
         => fort = "locked"
      /\ phase = "DONE" => master.pc = "uninstalled"
      /\ master.pc \in {"minions", "checks"} => master.at \in Reported
      /\ master.pc = "upload" => master.at = "IMPORT"
  <2>1. phase = "DONE" => master.pc = "uninstalled"
    BY <1>0 DEF MasterInv, MasterSteps
  <2> QED
    BY <1>0, <2>1 DEF MasterInv, AtPhase, MasterSteps, Shut, Working
<1>w. \A pc \in {"do", "minions", "checks", "call", "upload", "set"} : pc \in Working
  BY DEF Working
<1>d. ASSUME Exited = master', UNCHANGED <<phase, attempt, reports, tgt, call, agent>>, phase # "DONE",
             fort' = "locked" \/ fort' = fort, lost' \in 0..MaxLost, faults' \in 0..MaxFaults,
             \/ lost' = lost /\ master.pc # "call"
             \/ lost' = lost + 1 /\ master.pc = "call"
      PROVE  Moves /\ MovesInPhase /\ MovesWithCause
  BY <1>0, <1>3, <1>d, ExitedRecord DEF Moves, MovesInPhase, MovesWithCause, Working
\* A step to another step of the same phase.
<1>a. ASSUME NEW pc \in {"minions", "checks"}, master' = At(pc), OnlyMaster, faults' = faults,
             master.pc \in Working, master.pc # "call", master.at \in Reported,
             pc = "checks" /\ phase = "QUIESCE" => \A a \in Agents : reports["QUIESCE"][a] = "ok"
      PROVE  Moves /\ MovesInPhase /\ MovesWithCause
  <2>1. master' \in Masters /\ master'.pc = pc /\ master'.at = master.at
    BY <1>0, <1>1, <1>a, AtRecord
  <2> QED
    BY <1>0, <1>3, <1>a, <2>1 DEF Moves, MovesInPhase, MovesWithCause, Working
\* A decision on the next phase.
<1>s. ASSUME NEW p \in Phases, master' = To(p), OnlyMaster, faults' \in 0..MaxFaults,
             master.pc \in Working, master.pc # "call", CanTransitionTo(master.at, p),
             p \notin {"SUCCESS", "LOGTRANSFER", "DONE"},
             p = "IMPORT" => \A a \in Agents : reports["QUIESCE"][a] = "ok",
             p = "VALIDATION" => master.pc = "upload"
      PROVE  Moves /\ MovesInPhase /\ MovesWithCause
  <2>1. master' \in Masters /\ master'.pc = "set" /\ master'.at = master.at /\ master'.next = p
    BY <1>0, <1>s, ToRecord
  <2>2. Moves
    BY <1>0, <1>s, <2>1 DEF Moves
  <2>3. MovesInPhase
    BY <1>0, <1>3, <1>s, <2>1 DEF MovesInPhase, Working
  <2>4. master.at # "SUCCESS"
    BY <1>s, Transitions
  <2>5. MovesWithCause
    BY <1>3, <1>s, <2>1, <2>4 DEF MovesWithCause
  <2> QED
    BY <2>2, <2>3, <2>5
<1>11. CASE MasterStart
  <2>1. master' \in Masters /\ master'.pc = "wait" /\ master.pc = "down"
    BY <1>0, <1>1, <1>11, AtRecord DEF MasterStart
  <2> QED
    BY <1>0, <1>3, <1>11, <2>1 DEF MasterStart, Moves, MovesInPhase, MovesWithCause, Working
<1>12. CASE WaitForActiveMigration
  <2>1. CASE ActivePhase = "NONE"
    <3>1. phase \in {"NONE", "REAPFAILED", "ABORTDONE"} /\ master.pc = "wait" /\ master' = master
      BY <1>0, <1>3, <1>12, <2>1, Active DEF WaitForActiveMigration
    <3>2. /\ UNCHANGED <<phase, attempt, reports, tgt, call, agent, lost, faults>> /\ fort' = "open"
          /\ phase \notin {"IMPORT", "VALIDATION", "ABORT"} \cup (Decided \ {"REAPFAILED"})
      BY <1>12, <2>1, <3>1 DEF WaitForActiveMigration, Decided, PostSuccess
    <3> QED
      BY <1>0, <3>1, <3>2 DEF Moves, MovesInPhase, MovesWithCause, Working
  <2>2. CASE ActivePhase # "NONE"
    <3>1. /\ master' \in Masters /\ master'.pc = "lock" /\ master'.at = phase /\ fort' = fort
          /\ master.pc = "wait"
      <4>1. master' = [At("lock") EXCEPT !.at = phase] /\ fort' = fort /\ master.pc = "wait"
        BY <1>12, <2>2 DEF WaitForActiveMigration
      <4>2. /\ [At("lock") EXCEPT !.at = phase] \in Masters
            /\ [At("lock") EXCEPT !.at = phase].pc = "lock"
            /\ [At("lock") EXCEPT !.at = phase].at = phase
        BY <1>0, <1>1, MoveRecord
      <4> QED
        BY <4>1, <4>2
    <3> QED
      BY <1>0, <1>3, <1>12, <2>2, <3>1 DEF WaitForActiveMigration, Moves, MovesInPhase, MovesWithCause, Working
  <2> QED
    BY <2>1, <2>2
<1>13. CASE MasterLockdown
  <2>1. /\ master' \in Masters /\ master'.pc = "do" /\ master'.at = master.at /\ fort' = "locked"
        /\ master.pc = "lock"
    BY <1>0, <1>1, <1>13, AtRecord DEF MasterLockdown
  <2> QED
    BY <1>0, <1>3, <1>13, <2>1 DEF MasterLockdown, Moves, MovesInPhase, MovesWithCause, Working
<1>14. CASE Prechecks
  <2>1. master.at = "QUIESCE" /\ master.pc \in {"do", "checks"} /\ faults' = faults /\ OnlyMaster
    BY <1>14 DEF Prechecks
  <2>2. master.pc \in Working /\ phase = "QUIESCE"
    BY <1>3, <2>1 DEF Working
  <2>3. master.pc = "checks" => \A a \in Agents : reports["QUIESCE"][a] = "ok"
    BY <1>0, <2>2 DEF AgentInv, AllQuiesced
  <2>4. CASE master' = To("ABORT")
    BY <1>0, <1>1, <1>2, <1>s, <2>1, <2>2, <2>4
  <2>5. CASE master.pc = "do" /\ master' = At("minions")
    BY <1>a, <2>1, <2>2, <2>5 DEF Reported
  <2>6. CASE master.pc = "checks" /\ master' = To("IMPORT")
    BY <1>0, <1>1, <1>2, <1>s, <2>1, <2>2, <2>3, <2>6
  <2> QED
    BY <1>14, <2>4, <2>5, <2>6 DEF Prechecks
<1>15. CASE AwaitMinions
  BY <1>a, <1>15 DEF AwaitMinions, Working, Reported
<1>m. ASSUME NEW ok \in BOOLEAN, master.pc = "minions", master' = AfterMinions(ok), OnlyMaster,
             faults' = faults, ok /\ phase = "QUIESCE" => \A a \in Agents : reports["QUIESCE"][a] = "ok"
      PROVE  Moves /\ MovesInPhase /\ MovesWithCause
  <2>1. master.at \in Reported /\ master.at = phase /\ master.pc \in Working
    BY <1>3, <1>m DEF Working
  <2>2. CASE ok \/ master.at = "SUCCESS"
    BY <1>a, <1>m, <2>1, <2>2 DEF AfterMinions
  <2>3. CASE ~(ok \/ master.at = "SUCCESS")
    <3>1. CanTransitionTo(master.at, "ABORT") /\ master' = To("ABORT")
      BY <1>2, <1>m, <2>1, <2>3 DEF Reported, AfterMinions
    <3> QED
      BY <1>0, <1>1, <1>s, <1>m, <2>1, <3>1
  <2> QED
    BY <2>2, <2>3
<1>16. CASE ReadReports
  <2> DEFINE Got(r) == {a \in Agents : reports[master.at][a] = r}
  <2>1. /\ master.pc = "minions" /\ OnlyMaster /\ faults' = faults
        /\ Got("none") = {} \/ Got("failed") # {}
        /\ master' = AfterMinions(Got("failed") = {})
    BY <1>16 DEF ReadReports
  <2>2. Got("failed") = {} /\ phase = "QUIESCE" => \A a \in Agents : reports["QUIESCE"][a] = "ok"
    <3>1. master.at = phase
      BY <1>3, <2>1 DEF Working
    <3>2. \A a \in Agents : reports["QUIESCE"][a] \in {"none", "ok", "failed"}
      BY <1>0 DEF TypeInv, Reported
    <3> QED
      BY <2>1, <3>1, <3>2
  <2> QED
    BY <1>m, <2>1, <2>2
<1>17. CASE MinionTimeout
  BY <1>m, <1>17 DEF MinionTimeout
<1>18. CASE MachinesDiffer
  BY <1>0, <1>1, <1>2, <1>s, <1>18 DEF MachinesDiffer, Working
<1>19. CASE UploadBinaries
  <2>1. PICK p \in {"VALIDATION", "ABORT"} : master' = To(p)
    BY <1>19 DEF UploadBinaries
  <2>2. master.pc = "upload" /\ master.at = "IMPORT" /\ faults' = faults /\ OnlyMaster
    BY <1>3, <1>19 DEF UploadBinaries
  <2> QED
    BY <1>0, <1>1, <1>2, <1>s, <2>1, <2>2 DEF Working
<1>20. CASE TransferLogs
  <2>1. master.at = "LOGTRANSFER" /\ master.pc = "do" /\ OnlyMaster /\ faults' \in 0..MaxFaults
    BY <1>0, <1>20 DEF TransferLogs
  <2>2. CASE master' = To("REAP")
    BY <1>1, <1>2, <1>s, <2>1, <2>2 DEF Working
  <2>3. CASE master' = Exited
    BY <1>0, <1>3, <1>d, <2>1, <2>3 DEF Working
  <2> QED
    BY <1>20, <2>2, <2>3 DEF TransferLogs
<1>21. CASE TargetUnreachable
  <2>1. /\ Calling /\ OnlyMaster /\ faults' \in 0..MaxFaults
        /\ master' = IF master.at = "VALIDATION" THEN Exited ELSE Answered(CallOf[master.at], "error")
    BY <1>0, <1>21 DEF TargetUnreachable
  <2>2. master.pc \in {"do", "checks"} /\ master.at \in {"IMPORT", "ABORT", "VALIDATION", "SUCCESS"}
    BY <2>1 DEF Calling
  <2>3. \/ master' = Exited
        \/ master.at = "IMPORT" /\ master' = To("ABORT")
        \/ master.at = "ABORT" /\ master' = To("ABORTDONE")
    BY <1>0, <2>1, <2>2, CallOfValues, AnsweredValues
  <2>4. CASE master' = Exited
    BY <1>0, <1>3, <1>d, <2>1, <2>2, <2>4 DEF Working
  <2> QED
    BY <1>1, <1>2, <1>s, <2>1, <2>2, <2>3, <2>4 DEF Working
<1>22. CASE MasterDies
  BY <1>0, <1>3, <1>d, <1>22 DEF MasterDies
<1>23. CASE ModelWorkersRestart
  BY <1>0, <1>3, <1>d, <1>23 DEF ModelWorkersRestart
<1>24. CASE LoseConnection
  <2>1. /\ master.pc = "call" /\ lost' = lost + 1 /\ lost < MaxLost
        /\ master' = Answered(call[lost].op, "error")
        /\ UNCHANGED <<phase, attempt, reports, fort, tgt, call, agent, faults>>
    BY <1>24 DEF LoseConnection
  <2>2. call[lost].step # "idle"
    BY <1>0, <2>1 DEF CallInv
  <2>3. /\ master' \in Masters /\ master'.pc \notin {"call", "lock", "minions", "checks", "uninstalled"}
        /\ master'.pc \in Working => master'.at = master.at
        /\ master'.pc # "upload"
        /\ master'.pc = "set" => CanTransitionTo(master'.at, master'.next) /\ master'.next # "DONE"
        /\ ~(master'.pc = "set" /\ master'.at = "IMPORT" /\ master'.next = "VALIDATION")
        /\ ~(master'.pc = "set" /\ master'.at = "SUCCESS")
        /\ master.at = phase /\ phase \notin {"NONE", "QUIESCE", "DONE"}
        /\ fort = "locked" /\ ActivePhase # "NONE"
    BY <1>0, <2>1, <2>2, AnswerStep
  <2>4. Moves
    BY <1>0, <2>1, <2>3 DEF Moves
  <2> QED
    BY <2>1, <2>3, <2>4 DEF MovesInPhase, MovesWithCause, Working
<1> QED
  BY <1>11, <1>12, <1>13, <1>14, <1>15, <1>16, <1>17, <1>18, <1>19, <1>20, <1>21, <1>22, <1>23, <1>24 DEF MasterOwnStep

\* A call starts in the live slot, which was idle: in VALIDATION it is Activate,
\* in SUCCESS Adopt, and Abort only after ABORT.
LEMMA CallTargetIInv ==
  ASSUME IInv, CallTarget
  PROVE  IInv'
<1> USE MigrationAssumption
<1>1. TypeInv /\ CallInv /\ MasterInv /\ AgentInv /\ (FirstMigration => TargetInv)
  BY DEF IInv
<1>2. /\ master \in Masters /\ lost \in 0..MaxLost /\ call \in [0..MaxLost -> Handlers]
      /\ UNCHANGED <<phase, attempt, reports, fort, tgt, lost, agent, faults>>
      /\ master' = At("call") /\ Calling
      /\ call' = [call EXCEPT ![lost] = [op |-> CallOf[master.at], step |-> "begin"]]
  BY <1>1 DEF TypeInv, CallTarget
<1>3. /\ master.pc \in {"do", "checks"} /\ master.at \in {"IMPORT", "ABORT", "VALIDATION", "SUCCESS"}
      /\ master.at = phase /\ ActivePhase # "NONE" /\ fort = "locked"
  BY <1>1, <1>2 DEF Calling, MasterInv, AtPhase, Shut, Working
<1>4. /\ CallOf[phase] \in Ops /\ CallOf[phase] # "none"
      /\ phase = "IMPORT" => CallOf[phase] = "Import"
      /\ phase = "VALIDATION" => CallOf[phase] = "Activate"
      /\ phase = "SUCCESS" => CallOf[phase] = "Adopt"
      /\ phase = "ABORT" => CallOf[phase] = "Abort"
  BY <1>3, CallOfValues DEF Ops
<1>5. master' \in Masters /\ master'.pc = "call" /\ master'.at = phase
  BY <1>2, <1>3, AtRecord DEF PCs
<1>6. /\ call' \in [0..MaxLost -> Handlers]
      /\ call'[lost].op = CallOf[phase] /\ call'[lost].step = "begin"
      /\ \A j \in 0..MaxLost : j # lost => call'[j] = call[j]
  <2>1. [op |-> CallOf[phase], step |-> "begin"] \in Handlers
    BY <1>4 DEF Handlers, Steps
  <2> QED
    BY <1>2, <1>3, <2>1
<1>7. TypeInv'
  BY <1>1, <1>2, <1>5, <1>6 DEF TypeInv
<1>8. CallInv'
  <2>1. \A i \in 0..MaxLost : i > lost' => call'[i].step = "idle"
    BY <1>1, <1>2, <1>6 DEF CallInv
  <2>2. \A i \in 0..MaxLost : call'[i].step = "idle" <=> call'[i].op = "none"
    BY <1>1, <1>2, <1>4, <1>6 DEF CallInv
  <2> QED
    BY <1>2, <1>3, <1>5, <1>6, <2>1, <2>2 DEF CallInv
<1>9. MasterInv'
  <2>1. ActivePhase' = ActivePhase
    BY <1>2 DEF ActivePhase, IsTerminal
  <2> QED
    BY <1>1, <1>2, <1>3, <1>5, <2>1 DEF MasterInv, AtPhase, MasterSteps, Shut
<1>10. AgentInv'
  <2>1. AllQuiesced'
    BY <1>1, <1>2, <1>3, <1>5 DEF AgentInv, AllQuiesced
  <2> QED
    BY <1>1, <1>2, <2>1 DEF AgentInv, Stopped, KeepsStill, NeverFailsQuiesce
<1>11. FirstMigration' => TargetInv'
  <2> SUFFICES ASSUME FirstMigration' PROVE TargetInv'
    OBVIOUS
  <2>1. TargetInv
    BY <1>1, <1>2 DEF FirstMigration
  <2>2. \A j \in 0..MaxLost : call'[j] = call[j] \/ (call'[j].op = CallOf[phase] /\ call'[j].step = "begin")
    BY <1>6
  <2>3. CallsOfPhase'
    BY <1>2, <1>3, <1>4, <2>1, <2>2 DEF TargetInv, CallsOfPhase, Decided
  <2>4. ClaimOfPhase' /\ Untouched' /\ AfterAbort' /\ AgentsLate'
    BY <1>2, <2>1 DEF TargetInv, ClaimOfPhase, Untouched, AfterAbort, AgentsLate
  <2>5. DuringImport'
    BY <1>2, <1>5, <2>1, <2>2 DEF TargetInv, DuringImport, ImportSteps
  <2>6. DuringValidation'
    BY <1>2, <2>1, <2>2 DEF TargetInv, DuringValidation, Imported
  <2>7. AfterSuccess'
    BY <1>2, <1>5, <2>1, <2>2 DEF TargetInv, AfterSuccess, Imported
  <2> QED
    BY <2>3, <2>4, <2>5, <2>6, <2>7 DEF TargetInv
<1> QED
  BY <1>7, <1>8, <1>9, <1>10, <1>11 DEF IInv

\* The steps that record a phase: what the next phase requires has been
\* prepared in the phase before it.
LEMMA RecordPhaseIInv ==
  ASSUME IInv, SetMigrationPhase \/ MarkModelAsGone
  PROVE  IInv'
<1> USE MigrationAssumption
<1>1. TypeInv /\ CallInv /\ MasterInv /\ AgentInv /\ (FirstMigration => TargetInv)
  BY DEF IInv
<1>2. /\ master \in Masters /\ phase \in Phases /\ faults \in 0..MaxFaults
      /\ UNCHANGED <<attempt, reports, fort, tgt, call, lost, agent>> /\ faults' \in 0..MaxFaults
  BY <1>1 DEF TypeInv, SetMigrationPhase, MarkModelAsGone, Fault
<1>3. /\ master.pc \in {"set", "do"} /\ master.at = phase /\ ActivePhase # "NONE" /\ fort = "locked"
      /\ master.pc = "do" => phase = "REAP"
      /\ master.pc = "set" => master.next # "DONE"
  BY <1>1 DEF SetMigrationPhase, MarkModelAsGone, MasterInv, AtPhase, MasterSteps, Shut, Working
<1>n. {"do", "uninstalled"} \subseteq PCs /\ {"DONE", "REAPFAILED"} \subseteq Phases
  BY DEF PCs, Phases, PostSuccess
\* The phase that follows, and the master in it.
<1>4. \/ /\ phase' = phase /\ phase = "REAP" /\ master' = To("REAPFAILED")
      \/ /\ phase = "REAP" /\ phase' = "DONE" /\ master' = At("uninstalled")
      \/ /\ master.pc = "set" /\ CanTransitionTo(phase, master.next) /\ phase' = master.next
         /\ phase' = "REAPFAILED" => master' = At("uninstalled")
         /\ phase' = "ABORTDONE" => master' = Exited
         /\ phase' \notin {"REAPFAILED", "ABORTDONE"} => master' = [At("do") EXCEPT !.at = phase']
  <2>1. CASE MarkModelAsGone
    BY <1>3, <2>1 DEF MarkModelAsGone
  <2>2. CASE SetMigrationPhase
    BY <2>2 DEF SetMigrationPhase
  <2> QED
    BY <2>1, <2>2
<1>5. /\ master' \in Masters /\ phase' \in Phases
      /\ \/ phase' = phase /\ phase = "REAP" /\ master'.pc = "set" /\ master'.at = "REAP" /\ master'.next = "REAPFAILED"
         \/ /\ phase = "REAP" /\ phase' = "DONE" /\ master'.pc = "uninstalled"
         \/ /\ master.pc = "set" /\ CanTransitionTo(phase, phase') /\ phase' = master.next
            /\ master.next = phase'
            /\ \/ phase' = "REAPFAILED" /\ master'.pc = "uninstalled"
               \/ phase' = "ABORTDONE" /\ master'.pc = "down"
               \/ /\ phase' \notin {"REAPFAILED", "ABORTDONE", "DONE"}
                  /\ master'.pc = "do" /\ master'.at = phase'
  <2>1. CASE phase' = phase /\ phase = "REAP" /\ master' = To("REAPFAILED")
    BY <1>2, <1>3, <1>n, <2>1, ToRecord
  <2>2. CASE phase = "REAP" /\ phase' = "DONE" /\ master' = At("uninstalled")
    BY <1>2, <1>n, <2>2, AtRecord
  <2>3. CASE /\ master.pc = "set" /\ CanTransitionTo(phase, master.next) /\ phase' = master.next
             /\ phase' = "REAPFAILED" => master' = At("uninstalled")
             /\ phase' = "ABORTDONE" => master' = Exited
             /\ phase' \notin {"REAPFAILED", "ABORTDONE"} => master' = [At("do") EXCEPT !.at = phase']
    <3>1. phase' \in Phases
      BY <2>3, Transitions
    <3>2. /\ [At("do") EXCEPT !.at = phase'] \in Masters
          /\ [At("do") EXCEPT !.at = phase'].pc = "do" /\ [At("do") EXCEPT !.at = phase'].at = phase'
      BY <1>2, <1>n, <3>1, MoveRecord
    <3>3. CASE phase' = "REAPFAILED"
      <4>1. master' = At("uninstalled")
        BY <1>3, <2>3, <3>3
      <4> QED
        BY <1>2, <1>n, <2>3, <3>1, <3>3, <4>1, AtRecord
    <3>4. CASE phase' = "ABORTDONE"
      <4>1. master' = Exited
        BY <1>3, <2>3, <3>4
      <4> QED
        BY <2>3, <3>1, <3>4, <4>1, ExitedRecord
    <3>5. CASE phase' \notin {"REAPFAILED", "ABORTDONE"}
      <4>1. master' = [At("do") EXCEPT !.at = phase'] /\ phase' # "DONE"
        BY <1>3, <2>3, <3>5
      <4> QED
        BY <2>3, <3>1, <3>2, <3>5, <4>1
    <3> QED
      BY <3>3, <3>4, <3>5
  <2> QED
    BY <1>4, <2>1, <2>2, <2>3
<1>t. \/ phase' = phase /\ phase = "REAP"
      \/ phase = "REAP" /\ phase' = "DONE"
      \/ /\ master.pc = "set" /\ phase' = master.next
         /\ \/ phase = "QUIESCE" /\ phase' \in {"IMPORT", "ABORT"}
            \/ phase = "IMPORT" /\ phase' \in {"VALIDATION", "ABORT"}
            \/ phase = "VALIDATION" /\ phase' \in {"SUCCESS", "ABORT"}
            \/ phase = "SUCCESS" /\ phase' = "LOGTRANSFER"
            \/ phase = "LOGTRANSFER" /\ phase' = "REAP"
            \/ phase = "REAP" /\ phase' \in {"DONE", "REAPFAILED"}
            \/ phase = "ABORT" /\ phase' = "ABORTDONE"
  BY <1>5, Transitions
<1>6. TypeInv'
  BY <1>1, <1>2, <1>5 DEF TypeInv
<1>7. CallInv'
  BY <1>1, <1>2, <1>3, <1>5 DEF CallInv
<1>8. MasterInv'
  <2>1. CanTransitionTo("REAP", "REAPFAILED")
    BY DEF CanTransitionTo
  <2>2. phase' \notin {"NONE", "REAPFAILED", "DONE", "ABORTDONE"} => ActivePhase' # "NONE"
    BY <1>5, Active, Terminal DEF ActivePhase
  <2>3. phase' # "NONE"
    BY <1>t
  <2>4. attempt # 0
    BY <1>1, <1>3, <1>t DEF MasterInv, MasterSteps
  <2> QED
    BY <1>2, <1>3, <1>5, <2>1, <2>2, <2>3, <2>4 DEF MasterInv, AtPhase, MasterSteps, Shut, Working
<1>9. AgentInv'
  <2>1. AllQuiesced'
    <3>1. phase' \in {"IMPORT", "VALIDATION", "SUCCESS"} => \A a \in Agents : reports["QUIESCE"][a] = "ok"
      BY <1>1, <1>t DEF AgentInv, AllQuiesced
    <3>2. phase' # "QUIESCE"
      BY <1>t
    <3> QED
      BY <1>2, <3>1, <3>2 DEF AllQuiesced
  <2>2. phase' \in Running => phase \in Running
    BY <1>t DEF Running
  <2> QED
    BY <1>1, <1>2, <2>1, <2>2 DEF AgentInv, Stopped, KeepsStill, NeverFailsQuiesce
<1>10. FirstMigration' => TargetInv'
  <2> SUFFICES ASSUME FirstMigration' PROVE TargetInv'
    OBVIOUS
  <2>1. TargetInv
    BY <1>1, <1>2 DEF FirstMigration
  <2>2. phase \in Decided => phase' \in Decided
    BY <1>t DEF Decided, PostSuccess
  <2>3. /\ phase' \in Decided => phase \in Decided \/ phase = "VALIDATION"
        /\ phase' \in Decided /\ phase \notin Decided => phase' = "SUCCESS"
        /\ phase' = "VALIDATION" => phase = "IMPORT" /\ master.pc = "set" /\ master.next = "VALIDATION"
        /\ phase' = "IMPORT" => phase = "QUIESCE"
        /\ phase \in Decided => phase' # "SUCCESS"
        /\ phase' \notin {"NONE", "QUIESCE"}
        /\ phase \in {"ABORT", "ABORTDONE"} => phase' \in {"ABORT", "ABORTDONE"}
        /\ phase' \in {"ABORT", "ABORTDONE"} => phase \in {"QUIESCE", "IMPORT", "VALIDATION", "ABORT"}
        /\ phase' \in {"QUIESCE", "IMPORT"} => phase \in {"NONE", "QUIESCE", "IMPORT"}
        /\ phase' \in Decided /\ phase' # "SUCCESS" => phase # "SUCCESS" \/ master.pc = "set"
    BY <1>t DEF Decided, PostSuccess
  <2>4. CallsOfPhase'
    BY <1>2, <2>1, <2>2, <2>3 DEF TargetInv, CallsOfPhase
  <2>5. ClaimOfPhase' /\ Untouched' /\ AgentsLate'
    BY <1>2, <2>1, <2>2, <2>3 DEF TargetInv, ClaimOfPhase, Untouched, AgentsLate
  <2>6. DuringImport'
    <3> SUFFICES ASSUME phase' = "IMPORT" PROVE DuringImport'
      BY DEF DuringImport
    <3>1. tgt = NoModel /\ phase = "QUIESCE"
      BY <2>1, <2>3 DEF TargetInv, Untouched
    <3>2. \A i \in 0..MaxLost : call[i].op # "Import"
      BY <2>1, <3>1 DEF TargetInv, CallsOfPhase
    <3>3. master'.pc = "do"
      BY <1>5
    <3> QED
      BY <1>2, <3>1, <3>2, <3>3 DEF DuringImport, ImportSteps, NoModel
  <2>7. DuringValidation'
    BY <1>2, <2>1, <2>3 DEF TargetInv, DuringImport, DuringValidation, Imported
  <2>8. AfterSuccess'
    <3> SUFFICES ASSUME phase' \in Decided PROVE AfterSuccess'
      BY DEF AfterSuccess
    <3>1. CASE phase \in Decided
      BY <1>2, <2>1, <2>3, <3>1 DEF TargetInv, AfterSuccess, Imported
    <3>2. CASE phase \notin Decided
      <4>1. phase = "VALIDATION" /\ phase' = "SUCCESS" /\ master'.pc = "do"
        BY <1>5, <2>3, <3>2
      <4>2. \A i \in 0..MaxLost : call[i].op # "Adopt"
        BY <2>1, <3>2 DEF TargetInv, CallsOfPhase
      <4> QED
        BY <1>2, <2>1, <4>1, <4>2 DEF TargetInv, DuringValidation, AfterSuccess, Imported
    <3> QED
      BY <3>1, <3>2
  <2>9. AfterAbort'
    BY <1>2, <2>1, <2>3 DEF TargetInv, AfterAbort, Untouched, DuringImport, DuringValidation, NoModel
  <2> QED
    BY <2>4, <2>5, <2>6, <2>7, <2>8, <2>9 DEF TargetInv
<1> QED
  BY <1>6, <1>7, <1>8, <1>9, <1>10 DEF IInv

\* A new export starts with no report; the first one with nothing on the target.
LEMMA InitiateIInv ==
  ASSUME IInv, InitiateMigration
  PROVE  IInv'
<1> USE MigrationAssumption
<1>1. TypeInv /\ CallInv /\ MasterInv /\ AgentInv /\ (FirstMigration => TargetInv)
  BY DEF IInv
<1>2. /\ attempt \in 0..MaxMigrations /\ attempt < MaxMigrations /\ attempt' = attempt + 1
      /\ phase' = "QUIESCE" /\ reports' = NoReports /\ ActivePhase = "NONE" /\ phase # "DONE"
      /\ UNCHANGED <<fort, master, tgt, call, lost, agent, faults>>
  BY <1>1 DEF TypeInv, InitiateMigration
<1>3. Minions(attempt) \subseteq Minions(attempt')
  <2>1. Statuses(attempt) \subseteq Statuses(attempt')
    BY <1>2 DEF Statuses
  <2> QED
    BY <2>1 DEF Minions
<1>4. TypeInv'
  <2>1. NoReports \in [Reported -> [Agents -> {"none", "ok", "failed"}]]
    BY DEF NoReports
  <2>2. agent \in [Agents -> Minions(attempt')]
    BY <1>1, <1>3 DEF TypeInv
  <2>3. attempt' \in 0..MaxMigrations /\ "QUIESCE" \in Phases
    BY <1>2 DEF Phases, Running
  <2> QED
    BY <1>1, <1>2, <2>1, <2>2, <2>3 DEF TypeInv
<1>5. CallInv'
  BY <1>1, <1>2 DEF CallInv
<1>6. master.pc \notin Working \cup {"lock"}
  BY <1>1, <1>2 DEF MasterInv, AtPhase
<1>7. MasterInv'
  BY <1>1, <1>2, <1>6 DEF MasterInv, AtPhase, MasterSteps, Shut, Working, Decided, PostSuccess
<1>8. AgentInv'
  <2>1. \A a \in Agents : reports'["QUIESCE"][a] = "none"
    BY <1>2 DEF NoReports, Reported
  <2>2. AllQuiesced' /\ NeverFailsQuiesce'
    BY <1>2, <1>6, <2>1 DEF AllQuiesced, NeverFailsQuiesce, Working
  <2> QED
    BY <1>1, <1>2, <2>1, <2>2 DEF AgentInv, Stopped, KeepsStill
<1>9. FirstMigration' => TargetInv'
  <2> SUFFICES ASSUME FirstMigration' PROVE TargetInv'
    OBVIOUS
  <2>1. TargetInv /\ phase = "NONE"
    BY <1>1, <1>2 DEF FirstMigration, MasterInv, MasterSteps
  <2>2. /\ tgt = NoModel
        /\ \A i \in 0..MaxLost : call[i].op \notin {"Import", "Activate", "Adopt", "Abort"}
    BY <2>1 DEF TargetInv, Untouched, CallsOfPhase, Decided, PostSuccess
  <2>3. AgentsLate'
    BY <1>2, <2>1 DEF TargetInv, AgentsLate, Decided, PostSuccess
  <2> QED
    BY <1>2, <2>2, <2>3 DEF TargetInv, CallsOfPhase, ClaimOfPhase, Untouched, DuringImport,
       DuringValidation, AfterSuccess, AfterAbort, NoModel, Decided, PostSuccess
<1> QED
  BY <1>4, <1>5, <1>7, <1>8, <1>9 DEF IInv

\* The deleter takes the database of an abandoned import only.
LEMMA DropDatabaseIInv ==
  ASSUME IInv, DropDatabase
  PROVE  IInv'
<1>1. TypeInv /\ CallInv /\ MasterInv /\ AgentInv /\ (FirstMigration => TargetInv)
  BY DEF IInv
<1>2. /\ tgt \in Targets /\ tgt.staged
      /\ tgt' = [tgt EXCEPT !.staged = FALSE, !.gate = FALSE, !.data = FALSE]
      /\ UNCHANGED <<phase, attempt, reports, fort, master, call, lost, agent, faults>>
  BY <1>1 DEF TypeInv, DropDatabase
<1>3. tgt' \in Targets /\ tgt'.claim = tgt.claim /\ tgt'.row = tgt.row /\ ~tgt'.staged
  BY <1>2 DEF Targets
<1>4. TypeInv' /\ CallInv'
  BY <1>1, <1>2, <1>3 DEF TypeInv, CallInv
<1>5. MasterInv'
  BY <1>1, <1>2 DEF MasterInv, AtPhase, MasterSteps, Shut, ActivePhase, IsTerminal
<1>6. AgentInv'
  BY <1>1, <1>2 DEF AgentInv, Stopped, KeepsStill, AllQuiesced, NeverFailsQuiesce
<1>7. FirstMigration' => TargetInv'
  <2> SUFFICES ASSUME FirstMigration' PROVE TargetInv'
    OBVIOUS
  <2>1. TargetInv
    BY <1>1, <1>2 DEF FirstMigration
  <2>2. phase \in {"ABORT", "ABORTDONE"}
    BY <1>2, <2>1 DEF TargetInv, ClaimOfPhase
  <2>3. CallsOfPhase' /\ AgentsLate' /\ ClaimOfPhase' /\ AfterAbort'
    BY <1>2, <1>3, <2>1 DEF TargetInv, CallsOfPhase, AgentsLate, ClaimOfPhase, AfterAbort
  <2> QED
    BY <1>2, <2>2, <2>3 DEF TargetInv, Untouched, DuringImport, DuringValidation, AfterSuccess,
       Decided, PostSuccess
<1> QED
  BY <1>4, <1>5, <1>6, <1>7 DEF IInv

-----------------------------------------------------------------------------
(* The theorems *)

\* Every step keeps the invariant.
LEMMA NextIInv == IInv /\ [Next]_vars => IInv'
<1> SUFFICES ASSUME IInv, [Next]_vars PROVE IInv'
  OBVIOUS
<1>1. CASE MasterOwnStep
  BY <1>1, MasterOwnMoves, MovesIInv
<1>2. CASE CallTarget
  BY <1>2, CallTargetIInv
<1>3. CASE SetMigrationPhase \/ MarkModelAsGone
  BY <1>3, RecordPhaseIInv
<1>4. CASE InitiateMigration
  BY <1>4, InitiateIInv
<1>5. CASE \E i \in 0..MaxLost : Target(i) \/ AbortTimeout(i) \/ HandlerFails(i)
  BY <1>5, HandlerIInv DEF HandlerStep
<1>6. CASE DropDatabase
  BY <1>6, DropDatabaseIInv
<1>7. CASE \E a \in Agents : Minion(a) \/ MinionReportLost(a) \/ MinionDies(a)
  BY <1>7, MinionIInv DEF MinionStep
<1>8. CASE UNCHANGED vars
  <2>1. UNCHANGED <<phase, attempt, reports, fort, master, tgt, call, lost, agent, faults>>
    BY <1>8 DEF vars
  <2>2. TypeInv' = TypeInv /\ CallInv' = CallInv /\ FirstMigration' = FirstMigration
    BY <2>1 DEF TypeInv, CallInv, FirstMigration
  <2>3. MasterInv' = MasterInv
    BY <2>1 DEF MasterInv, AtPhase, MasterSteps, Shut, ActivePhase, IsTerminal
  <2>4. AgentInv' = AgentInv
    BY <2>1 DEF AgentInv, Stopped, KeepsStill, AllQuiesced, NeverFailsQuiesce
  <2>5. TargetInv' = TargetInv
    BY <2>1 DEF TargetInv, CallsOfPhase, ClaimOfPhase, Untouched, DuringImport, ImportSteps,
       Imported, DuringValidation, AfterSuccess, AfterAbort, AgentsLate
  <2> QED
    BY <2>2, <2>3, <2>4, <2>5 DEF IInv
<1> QED
  BY <1>1, <1>2, <1>3, <1>4, <1>5, <1>6, <1>7, <1>8 DEF Next, Master, MasterOwnStep

\* The inductive invariant holds in every reachable state.
LEMMA Invariance == Spec => []IInv
BY InitIInv, NextIInv, PTL DEF Spec

\* The state has its shape, and an answer is awaited exactly while the handler
\* that will give it runs (migrationmaster's calls of the target's facade), in
\* every migration of the model.
THEOREM MigrationTypes == Spec => []MigrationTypeOK
<1>1. IInv => MigrationTypeOK
  <2> SUFFICES ASSUME IInv PROVE MigrationTypeOK
    OBVIOUS
  <2>1. TypeInv /\ CallInv
    BY DEF IInv
  <2>2. \A a \in Agents :
          /\ {agent[a].conf, agent[a].conn} \subseteq {"source", "target"}
          /\ agent[a].fort \in {"open", "locked"}
          /\ agent[a].step \in {"idle", "got", "act", "config"}
          /\ \A s \in agent[a].proc \cup {agent[a].st} : s.id \in 0..attempt /\ s.ph \in Phases
    BY <2>1 DEF TypeInv, Minions, Statuses
  <2> QED
    BY <2>1, <2>2 DEF MigrationTypeOK, TypeInv, CallInv, Masters, Targets, PCs, Claims
<1> QED
  BY <1>1, Invariance, PTL

\* While the model's first export is the last one, the source and the target
\* agree on the point of no return (commitActivation on the target, SUCCESS and
\* the phases after it on the source), whatever fails and whichever calls are
\* left behind.
THEOREM PointOfNoReturn == Spec => [](FirstMigration => CommitAgreed)
<1>1. IInv => (FirstMigration => CommitAgreed)
  BY DEF IInv, TargetInv, ClaimOfPhase, AfterSuccess, Imported, CommitAgreed, Committed, Decided,
     PostSuccess
<1> QED
  BY <1>1, Invariance, PTL

\* From the first byte exported until SUCCESS has been left, every agent has
\* stopped its workers or has moved over, in every migration of the model.
THEOREM AgentsQuiesced ==
  Spec => [](phase \in {"IMPORT", "VALIDATION", "SUCCESS"} =>
               \A a \in Agents : agent[a].fort = "locked" \/ agent[a].conn = "target")
<1>1. IInv => (phase \in {"IMPORT", "VALIDATION", "SUCCESS"} =>
                 \A a \in Agents : agent[a].fort = "locked" \/ agent[a].conn = "target")
  BY DEF IInv, AgentInv, AllQuiesced, KeepsStill, Running
<1> QED
  BY <1>1, Invariance, PTL

\* In the first migration no agent gets the target's address of an abandoned one
\* (doSUCCESS of the minion), and none works for the source during the import.
THEOREM AgentsFollowPhase == Spec => [](FirstMigration => AgentsFollow)
<1>1. IInv => (FirstMigration => AgentsFollow)
  BY DEF IInv, AgentInv, AllQuiesced, KeepsStill, TargetInv, AgentsLate, AgentsFollow, Running,
     Decided, PostSuccess
<1> QED
  BY <1>1, Invariance, PTL

\* The source's workers do not run next to the target's: the source's fortress
\* is shut from the import on (Guard.Lockdown), and the target's model is only
\* released after SUCCESS.
THEOREM SingleOwner == Spec => [](FirstMigration => SoleOwner)
<1>1. IInv => (FirstMigration => SoleOwner)
  <2> SUFFICES ASSUME IInv, FirstMigration, Committed, tgt.claim = "none", fort = "open"
               PROVE  phase = "REAPFAILED"
    BY DEF SoleOwner
  <2>1. TypeInv /\ TargetInv /\ MasterInv
    BY DEF IInv
  <2>2. phase \notin {"NONE", "QUIESCE"}
    BY <2>1 DEF TargetInv, Untouched, NoModel, Committed
  <2>3. phase \notin {"IMPORT", "VALIDATION", "ABORT", "ABORTDONE"}
    BY <2>1 DEF TargetInv, DuringImport, DuringValidation, AfterAbort, Committed
  <2>4. phase \in Decided
    BY <2>1, <2>2, <2>3 DEF TypeInv, Phases, Running, PostSuccess, Decided
  <2> QED
    BY <2>1, <2>4 DEF MasterInv, Shut
<1> QED
  BY <1>1, Invariance, PTL

\* Rows without a claim are those of a committed model, and a database is only
\* deleted under an abort's claim: the claim fences every late handler.
THEOREM ClaimCovers == Spec => [](FirstMigration => ImportClaimed)
<1>1. IInv => (FirstMigration => ImportClaimed)
  <2> SUFFICES ASSUME IInv, FirstMigration PROVE ImportClaimed
    OBVIOUS
  <2>1. TypeInv /\ TargetInv
    BY DEF IInv
  <2>2. ASSUME tgt.row, tgt.claim = "none" PROVE Committed
    <3>1. phase \notin {"NONE", "QUIESCE"}
      BY <2>1, <2>2 DEF TargetInv, Untouched, NoModel
    <3>2. phase \notin {"IMPORT", "VALIDATION", "ABORT", "ABORTDONE"}
      BY <2>1, <2>2 DEF TargetInv, DuringImport, DuringValidation, AfterAbort
    <3>3. phase \in Decided
      BY <2>1, <3>1, <3>2 DEF TypeInv, Phases, Running, PostSuccess, Decided
    <3> QED
      BY <2>1, <2>2, <3>3 DEF TargetInv, AfterSuccess, Imported, Committed
  <2> QED
    BY <2>1, <2>2 DEF ImportClaimed, TargetInv, ClaimOfPhase
<1> QED
  BY <1>1, Invariance, PTL
=============================================================================
