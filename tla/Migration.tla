----------------------------- MODULE Migration -----------------------------
(***************************************************************************)
(* The migration of one model from a source to a target controller: the    *)
(* persisted phases of the export, the migration master that drives them,   *)
(* the migration minions on the model's agents that quiesce, validate and   *)
(* move over, and the target controller's import claim with the handlers    *)
(* of Import, Activate, AdoptResources and Abort.                           *)
(*                                                                         *)
(* A call to the target is a handler process of its own there: when the     *)
(* connection breaks, or the master dies, the source sees an error while    *)
(* the handler goes on (an orphan).  Any handler, any worker and any        *)
(* controller may fail at any step; the failures are counted by `faults'    *)
(* and the broken calls by `lost'.                                          *)
(***************************************************************************)
EXTENDS Naturals, FiniteSets

CONSTANTS Agents,         \* the machine and unit agents of the model
          MaxMigrations,  \* bound on InitiateMigration
          MaxFaults,      \* bound on failures and restarts
          MaxLost         \* bound on calls whose answer is lost

ASSUME MigrationAssumption ==
    /\ IsFiniteSet(Agents)
    /\ {MaxMigrations, MaxFaults, MaxLost} \subseteq Nat

VARIABLES
    phase,     \* current phase of the last export; "NONE" before the first
    attempt,   \* number (identity) of the last export
    reports,   \* minion reports of the last export: phase -> agent -> result
    fort,      \* the source model's migration fortress: "open" or "locked"
    master,    \* the migration master: where it is, its phase, the phase to set
    tgt,       \* the target's rows for the model: claim, model, database
    call,      \* handlers on the target, one per slot; slot `lost' is the live one
    lost,      \* number of calls that lost their connection
    agent,     \* per agent: its configuration, fortress and minion
    faults     \* number of failures so far

vars == <<phase, attempt, reports, fort, master, tgt, call, lost, agent, faults>>

-----------------------------------------------------------------------------
(* Phases *)

Running     == {"QUIESCE", "IMPORT", "VALIDATION", "SUCCESS"}
PostSuccess == {"LOGTRANSFER", "REAP", "REAPFAILED", "DONE"}
Decided     == {"SUCCESS"} \cup PostSuccess
Reported    == {"QUIESCE", "VALIDATION", "SUCCESS"}
Phases      == {"NONE", "ABORT", "ABORTDONE"} \cup Running \cup PostSuccess

CanTransitionTo(p, q) ==
    <<p, q>> \in {<<"QUIESCE", "IMPORT">>, <<"QUIESCE", "ABORT">>,
                  <<"IMPORT", "VALIDATION">>, <<"IMPORT", "ABORT">>,
                  <<"VALIDATION", "SUCCESS">>, <<"VALIDATION", "ABORT">>,
                  <<"SUCCESS", "LOGTRANSFER">>, <<"LOGTRANSFER", "REAP">>,
                  <<"REAP", "DONE">>, <<"REAP", "REAPFAILED">>,
                  <<"ABORT", "ABORTDONE">>}

IsTerminal(p) == \A q \in Phases : ~CanTransitionTo(p, q)

\* Service.Migration: an export in a terminal phase is no longer active.
ActivePhase == IF IsTerminal(phase) THEN "NONE" ELSE phase

Status == [id |-> IF ActivePhase = "NONE" THEN 0 ELSE attempt, ph |-> ActivePhase]

-----------------------------------------------------------------------------
(* State *)

NoReports == [p \in Reported |-> [a \in Agents |-> "none"]]
NoStatus  == [id |-> 0, ph |-> "NONE"]
Idle      == [op |-> "none", step |-> "idle"]
Exited    == [pc |-> "down", at |-> "NONE", next |-> "NONE"]

\* A minion that has just started: nothing read, nothing processed.
Fresh(r) == [r EXCEPT !.conn = r.conf, !.proc = {}, !.st = NoStatus, !.step = "idle"]

NoModel == [claim |-> "none", id |-> 0, row |-> FALSE, active |-> FALSE,
            reg |-> FALSE, gate |-> FALSE, data |-> FALSE, staged |-> FALSE,
            adopted |-> FALSE]

Init ==
    /\ phase = "NONE" /\ attempt = 0 /\ reports = NoReports
    /\ fort = "open" /\ master = [Exited EXCEPT !.pc = "wait"]
    /\ tgt = NoModel /\ call = [i \in 0..MaxLost |-> Idle] /\ lost = 0
    /\ agent = [a \in Agents |->
                  [conf |-> "source", conn |-> "source", fort |-> "open",
                   proc |-> {}, st |-> NoStatus, step |-> "idle"]]
    /\ faults = 0

Fault == faults < MaxFaults /\ faults' = faults + 1

\* InitiateMigration: refused while an export is active.
InitiateMigration ==
    /\ attempt < MaxMigrations
    /\ phase # "DONE" /\ ActivePhase = "NONE"
    /\ attempt' = attempt + 1 /\ phase' = "QUIESCE" /\ reports' = NoReports
    /\ UNCHANGED <<fort, master, tgt, call, lost, agent, faults>>

-----------------------------------------------------------------------------
(* The migration master on the source controller *)

To(p)   == [master EXCEPT !.pc = "set", !.next = p]
At(pc)  == [master EXCEPT !.pc = pc]
OnlyMaster == UNCHANGED <<phase, attempt, reports, fort, tgt, call, lost, agent>>

MasterStart ==
    /\ master.pc = "down" /\ phase # "DONE"
    /\ master' = At("wait")
    /\ OnlyMaster /\ UNCHANGED faults

\* waitForActiveMigration: the fortress is opened while there is none.
WaitForActiveMigration ==
    /\ master.pc = "wait"
    /\ IF ActivePhase = "NONE"
       THEN /\ fort = "locked" /\ fort' = "open"
            /\ UNCHANGED master
       ELSE /\ master' = [At("lock") EXCEPT !.at = phase]
            /\ UNCHANGED fort
    /\ UNCHANGED <<phase, attempt, reports, tgt, call, lost, agent, faults>>

\* Mutant of MasterLockdown: the migration starts with the fortress as it is.
MasterLockdownSkipped ==
    /\ master.pc = "lock"
    /\ master' = At("do")
    /\ UNCHANGED <<phase, attempt, reports, fort, tgt, call, lost, agent, faults>>

\* Guard.Lockdown: the model's workers on the source stop and stay stopped.
MasterLockdown ==
    /\ master.pc = "lock"
    /\ fort' = "locked" /\ master' = At("do")
    /\ UNCHANGED <<phase, attempt, reports, tgt, call, lost, agent, faults>>

\* prechecks of QUIESCE, before and after the minions' reports.
Prechecks ==
    /\ master.at = "QUIESCE" /\ master.pc \in {"do", "checks"}
    /\ \/ master' = To("ABORT")
       \/ master.pc = "do" /\ master' = At("minions")
       \/ master.pc = "checks" /\ master' = To("IMPORT")
    /\ OnlyMaster /\ UNCHANGED faults

AwaitMinions ==
    /\ master.at \in {"VALIDATION", "SUCCESS"} /\ master.pc = "do"
    /\ master' = At("minions")
    /\ OnlyMaster /\ UNCHANGED faults

\* The step after waitForMinions; doSUCCESS ignores how it went.
AfterMinions(ok) == IF ok \/ master.at = "SUCCESS" THEN At("checks") ELSE To("ABORT")

\* A look at the reports: the first failure ends the wait (unless in SUCCESS),
\* and so does the last missing report.
ReadReports ==
    /\ master.pc = "minions"
    /\ LET Got(r) == {a \in Agents : reports[master.at][a] = r}
       IN  /\ \/ Got("none") = {}
              \/ Got("failed") # {} /\ master.at # "SUCCESS"
           /\ master' = AfterMinions(Got("failed") = {})
    /\ OnlyMaster /\ UNCHANGED faults

\* minionReportTimeout passed.
MinionTimeout ==
    /\ master.pc = "minions"
    /\ master' = AfterMinions(FALSE)
    /\ OnlyMaster /\ UNCHANGED faults

\* checkTargetMachines finds a discrepancy.
MachinesDiffer ==
    /\ master.at = "VALIDATION" /\ master.pc = "checks"
    /\ master' = To("ABORT")
    /\ OnlyMaster /\ UNCHANGED faults

\* The call each phase makes to the target, at the step that makes it.
CallOf == [p \in {"IMPORT", "VALIDATION", "SUCCESS", "ABORT"} |->
             CASE p = "IMPORT" -> "Import" [] p = "VALIDATION" -> "Activate"
               [] p = "SUCCESS" -> "Adopt" [] p = "ABORT" -> "Abort"]
Calling == \/ master.at \in {"IMPORT", "ABORT"} /\ master.pc = "do"
           \/ master.at \in {"VALIDATION", "SUCCESS"} /\ master.pc = "checks"

CallTarget ==
    /\ Calling
    /\ call' = [call EXCEPT ![lost] = [op |-> CallOf[master.at], step |-> "begin"]]
    /\ master' = At("call")
    /\ UNCHANGED <<phase, attempt, reports, fort, tgt, lost, agent, faults>>

\* What the master does with the answer to its call.
Answered(op, res) ==
    CASE op = "Import" /\ res = "ok"         -> At("upload")
      [] op = "Import" /\ res = "activating" -> To("VALIDATION")
      [] op = "Import" /\ res = "error"      -> To("ABORT")
      [] op = "Activate"                     -> To(IF res = "ok" THEN "SUCCESS" ELSE "ABORT")
      [] op = "Adopt" /\ res = "ok"          -> To("LOGTRANSFER")
      [] op = "Adopt" /\ res = "error"       -> Exited
      [] op = "Abort"                        -> To("ABORTDONE")

\* The target cannot be reached: an error of the call, except that VALIDATION
\* only gives up once it has sent Activate.
TargetUnreachable ==
    /\ Calling /\ Fault
    /\ master' = IF master.at = "VALIDATION" THEN Exited
                 ELSE Answered(CallOf[master.at], "error")
    /\ OnlyMaster

\* UploadBinaries of doIMPORT.
UploadBinaries ==
    /\ master.pc = "upload"
    /\ \E p \in {"VALIDATION", "ABORT"} : master' = To(p)
    /\ OnlyMaster /\ UNCHANGED faults

\* doLOGTRANSFER; a broken transfer ends the worker, which starts it again.
TransferLogs ==
    /\ master.at = "LOGTRANSFER" /\ master.pc = "do"
    /\ \/ master' = To("REAP") /\ UNCHANGED faults
       \/ master' = Exited /\ Fault
    /\ OnlyMaster

\* doREAP: one transaction purges the model and ends the export; any failure
\* before it is final.
MarkModelAsGone ==
    /\ master.at = "REAP" /\ master.pc = "do"
    /\ \/ /\ phase' = "DONE" /\ master' = At("uninstalled")
          /\ UNCHANGED faults
       \/ master' = To("REAPFAILED") /\ Fault /\ UNCHANGED phase
    /\ UNCHANGED <<attempt, reports, fort, tgt, call, lost, agent>>

\* SetMigrationPhase and the end of the loop.
SetMigrationPhase ==
    /\ master.pc = "set" /\ CanTransitionTo(phase, master.next)
    /\ phase' = master.next
    /\ master' = CASE master.next = "REAPFAILED" -> At("uninstalled")
                   [] master.next = "ABORTDONE"  -> Exited
                   [] OTHER -> [At("do") EXCEPT !.at = master.next]
    /\ UNCHANGED <<attempt, reports, fort, tgt, call, lost, agent, faults>>

\* The master's worker dies; a call it waits for is left behind.
MasterDies ==
    /\ master.pc \notin {"down", "uninstalled"} /\ Fault
    /\ IF master.pc = "call" THEN lost < MaxLost /\ lost' = lost + 1
                             ELSE UNCHANGED lost
    /\ master' = Exited
    /\ UNCHANGED <<phase, attempt, reports, fort, tgt, call, agent>>

\* The model's workers move to another controller or their engine restarts:
\* a new fortress, which starts locked, and a new master.
ModelWorkersRestart ==
    /\ phase # "DONE" /\ Fault
    /\ IF master.pc = "call" THEN lost < MaxLost /\ lost' = lost + 1
                             ELSE UNCHANGED lost
    /\ fort' = "locked" /\ master' = Exited
    /\ UNCHANGED <<phase, attempt, reports, tgt, call, agent>>

\* The connection of a call breaks before the answer arrives.
LoseConnection ==
    /\ master.pc = "call" /\ lost < MaxLost
    /\ lost' = lost + 1 /\ master' = Answered(call[lost].op, "error")
    /\ UNCHANGED <<phase, attempt, reports, fort, tgt, call, agent, faults>>

Master ==
    \/ MasterStart \/ WaitForActiveMigration \/ MasterLockdown \/ Prechecks
    \/ AwaitMinions \/ ReadReports \/ MinionTimeout \/ MachinesDiffer \/ CallTarget
    \/ UploadBinaries \/ TransferLogs \/ MarkModelAsGone \/ SetMigrationPhase

-----------------------------------------------------------------------------
(* The target controller's handlers; i is the handler's slot *)

Handling(i, op, step) == call[i].op = op /\ call[i].step = step
Goto(i, step) == call' = [call EXCEPT ![i].step = step] /\ UNCHANGED master

\* Mutant of Finish: only an answer without an error is sent.
FinishUnanswered(i, res) ==
    /\ master' = IF i = lost /\ res = "ok" THEN Answered(call[i].op, res) ELSE master
    /\ call' = [call EXCEPT ![i] = Idle]

\* The handler ends; only the live one's answer reaches the master.
Finish(i, res) ==
    /\ master' = IF i = lost THEN Answered(call[i].op, res) ELSE master
    /\ call' = [call EXCEPT ![i] = Idle]

TargetOnly == UNCHANGED <<phase, attempt, reports, fort, lost, agent, faults>>

\* assertImportingClaim: this very import still holds the claim.
Importing(i) == tgt.claim = "importing" /\ tgt.id = i

\* committedPredicates: without a claim, the model is here and in use.
Committed == tgt.row /\ tgt.active /\ ~tgt.gate

\* BeginImport: the claim is the first row an import writes.
ImportBegin(i) ==
    /\ Handling(i, "Import", "begin")
    /\ IF tgt.claim = "none"
       THEN tgt' = [tgt EXCEPT !.claim = "importing", !.id = i] /\ Goto(i, "rows")
       ELSE /\ Finish(i, IF tgt.claim = "activating" THEN "activating" ELSE "error")
            /\ UNCHANGED tgt
    /\ TargetOnly

\* Mutant of ImportRows: the rows are written without looking at the claim.
ImportRowsUnfenced(i) ==
    /\ Handling(i, "Import", "rows")
    /\ IF ~tgt.row
       THEN tgt' = [tgt EXCEPT !.row = TRUE, !.reg = TRUE] /\ Goto(i, "gate")
       ELSE Finish(i, "error") /\ UNCHANGED tgt
    /\ TargetOnly

\* The model's row and namespace, in a transaction fenced by the claim.
ImportRows(i) ==
    /\ Handling(i, "Import", "rows")
    /\ IF Importing(i) /\ ~tgt.row
       THEN tgt' = [tgt EXCEPT !.row = TRUE, !.reg = TRUE] /\ Goto(i, "gate")
       ELSE Finish(i, "error") /\ UNCHANGED tgt
    /\ TargetOnly

\* The model's database is made, with the import gate closed; it is reached
\* through the registered namespace.
ImportGate(i) ==
    /\ Handling(i, "Import", "gate")
    /\ IF tgt.reg
       THEN tgt' = [tgt EXCEPT !.gate = TRUE] /\ Goto(i, "perms")
       ELSE Finish(i, "error") /\ UNCHANGED tgt
    /\ TargetOnly

\* The remaining controller rows: permissions, keys, leadership ..., fenced.
ImportPerms(i) ==
    /\ Handling(i, "Import", "perms")
    /\ IF Importing(i) THEN Goto(i, "data") ELSE Finish(i, "error")
    /\ TargetOnly /\ UNCHANGED tgt

\* The payload goes into the model's database.
ImportData(i) ==
    /\ Handling(i, "Import", "data")
    /\ IF tgt.reg
       THEN tgt' = [tgt EXCEPT !.data = TRUE] /\ Goto(i, "activate")
       ELSE Finish(i, "error") /\ UNCHANGED tgt
    /\ TargetOnly

\* ActivateModel makes the model visible to its agents.
ImportActivate(i) ==
    /\ Handling(i, "Import", "activate")
    /\ IF tgt.row
       THEN tgt' = [tgt EXCEPT !.active = TRUE] /\ Finish(i, "ok")
       ELSE Finish(i, "error") /\ UNCHANGED tgt
    /\ TargetOnly

\* prepareActivation: look at the claim ...
ActivateBegin(i) ==
    /\ Handling(i, "Activate", "begin")
    /\ CASE tgt.claim = "none"       -> Finish(i, IF Committed THEN "ok" ELSE "error")
         [] tgt.claim = "aborting"   -> Finish(i, "error")
         [] tgt.claim = "activating" -> Finish(i, "ok")
         [] tgt.claim = "importing"  -> Goto(i, "assert")
    /\ TargetOnly /\ UNCHANGED tgt

\* Mutant of ActivateAssert: Activate itself crosses the point of no return.
ActivateAssertCommits(i) ==
    /\ Handling(i, "Activate", "assert")
    /\ IF tgt.claim = "importing"
       THEN tgt' = [tgt EXCEPT !.claim = "activating"] /\ Finish(i, "ok")
       ELSE Finish(i, "error") /\ UNCHANGED tgt
    /\ TargetOnly

\* ... validate and reconcile, then look at it again.
ActivateAssert(i) ==
    /\ Handling(i, "Activate", "assert")
    /\ Finish(i, IF tgt.claim = "importing" THEN "ok" ELSE "error")
    /\ TargetOnly /\ UNCHANGED tgt

\* commitActivation: the first look at the claim.
AdoptBegin(i) ==
    /\ Handling(i, "Adopt", "begin")
    /\ CASE tgt.claim = "none"       -> IF Committed THEN Goto(i, "adopt") ELSE Finish(i, "error")
         [] tgt.claim = "aborting"   -> Finish(i, "error")
         [] tgt.claim = "activating" -> Goto(i, "ungate")
         [] tgt.claim = "importing"  -> Goto(i, "commit")
    /\ TargetOnly /\ UNCHANGED tgt

\* SetImportPhaseActivating.
AdoptCommit(i) ==
    /\ Handling(i, "Adopt", "commit")
    /\ IF tgt.claim \in {"importing", "activating"}
       THEN tgt' = [tgt EXCEPT !.claim = "activating"] /\ Goto(i, "ungate")
       ELSE Finish(i, "error") /\ UNCHANGED tgt
    /\ TargetOnly

\* releaseModel: DeleteModelImportingStatus, ActivateModel, DeleteActivatedImport.
AdoptUngate(i) ==
    /\ Handling(i, "Adopt", "ungate")
    /\ tgt' = [tgt EXCEPT !.gate = FALSE] /\ Goto(i, "activate")
    /\ TargetOnly

AdoptActivate(i) ==
    /\ Handling(i, "Adopt", "activate")
    /\ tgt' = [tgt EXCEPT !.active = TRUE] /\ Goto(i, "release")
    /\ TargetOnly

AdoptRelease(i) ==
    /\ Handling(i, "Adopt", "release")
    /\ IF tgt.claim \in {"none", "activating"}
       THEN tgt' = [tgt EXCEPT !.claim = "none"] /\ Goto(i, "adopt")
       ELSE Finish(i, "error") /\ UNCHANGED tgt
    /\ TargetOnly

\* The provider tags the model's resources with this controller.
AdoptResources(i) ==
    /\ Handling(i, "Adopt", "adopt")
    /\ tgt' = [tgt EXCEPT !.adopted = TRUE] /\ Finish(i, "ok")
    /\ TargetOnly

\* abortModelImport: the first look at the claim.
AbortBegin(i) ==
    /\ Handling(i, "Abort", "begin")
    /\ CASE tgt.claim = "none"       -> Goto(i, "finalize")
         [] tgt.claim = "activating" -> Finish(i, "error")
         [] tgt.claim = "importing"  -> Goto(i, "phase")
         [] tgt.claim = "aborting"   -> Goto(i, "remove")
    /\ TargetOnly /\ UNCHANGED tgt

\* SetImportPhaseAborting.
AbortPhase(i) ==
    /\ Handling(i, "Abort", "phase")
    /\ IF tgt.claim \in {"importing", "aborting"}
       THEN tgt' = [tgt EXCEPT !.claim = "aborting"] /\ Goto(i, "remove")
       ELSE Finish(i, "error") /\ UNCHANGED tgt
    /\ TargetOnly

\* removeOnAbortImport: the controller rows are deleted.
AbortRemove(i) ==
    /\ Handling(i, "Abort", "remove")
    /\ tgt' = [tgt EXCEPT !.row = FALSE, !.active = FALSE] /\ Goto(i, "stage")
    /\ TargetOnly

\* StageAbortedModelDatabaseDeletion, if the namespace is still registered: it
\* looks at the claim again, so that the look and the staging can be one step.
AbortStage(i) ==
    /\ Handling(i, "Abort", "stage")
    /\ CASE ~tgt.reg \/ tgt.claim = "none" -> Goto(i, "finalize") /\ UNCHANGED tgt
         [] tgt.reg /\ tgt.claim = "aborting" ->
              /\ tgt' = [tgt EXCEPT !.reg = FALSE, !.staged = TRUE]
              /\ Goto(i, "finalize")
         [] OTHER -> Finish(i, "error") /\ UNCHANGED tgt
    /\ TargetOnly

\* FinalizeAbortedImport, retried until nothing is left of the model.
AbortFinalize(i) ==
    /\ Handling(i, "Abort", "finalize")
    /\ \/ tgt.claim = "none" /\ Finish(i, "ok") /\ UNCHANGED tgt
       \/ tgt.claim \in {"importing", "activating"} /\ Finish(i, "error") /\ UNCHANGED tgt
       \/ /\ tgt.claim = "aborting" /\ ~tgt.row /\ ~tgt.staged
          /\ tgt' = [tgt EXCEPT !.claim = "none"] /\ Finish(i, "ok")
    /\ TargetOnly

\* The wait of twenty seconds for FinalizeAbortedImport is over.
AbortTimeout(i) ==
    /\ Handling(i, "Abort", "finalize")
    /\ tgt.claim = "aborting" /\ (tgt.row \/ tgt.staged)
    /\ Finish(i, "error")
    /\ TargetOnly /\ UNCHANGED tgt

\* The model database deleter of the undertaker.
DropDatabase ==
    /\ tgt.staged /\ ~tgt.reg
    /\ tgt' = [tgt EXCEPT !.staged = FALSE, !.gate = FALSE, !.data = FALSE]
    /\ UNCHANGED <<phase, attempt, reports, fort, master, call, lost, agent, faults>>

\* A handler fails at its next step: a database or provider error, a refused
\* validation, its cancelled context, or a restart of the target.
HandlerFails(i) ==
    /\ call[i].step # "idle" /\ Fault
    /\ Finish(i, "error")
    /\ UNCHANGED <<phase, attempt, reports, fort, tgt, lost, agent>>

Target(i) ==
    \/ ImportBegin(i) \/ ImportRows(i) \/ ImportGate(i) \/ ImportPerms(i)
    \/ ImportData(i) \/ ImportActivate(i) \/ ActivateBegin(i) \/ ActivateAssert(i)
    \/ AdoptBegin(i) \/ AdoptCommit(i) \/ AdoptUngate(i) \/ AdoptActivate(i)
    \/ AdoptRelease(i) \/ AdoptResources(i) \/ AbortBegin(i) \/ AbortPhase(i)
    \/ AbortRemove(i) \/ AbortStage(i) \/ AbortFinalize(i)

-----------------------------------------------------------------------------
(* The migration minions *)

OnlyAgents == UNCHANGED <<phase, attempt, fort, master, tgt, call, lost>>

\* The status watcher's Next, at the controller the agent is connected to; the
\* source answers as long as it has the model.
MinionRead(a) ==
    /\ agent[a].step = "idle"
    /\ agent[a].conn = "source" => phase # "DONE"
    /\ agent' = [agent EXCEPT ![a].step = "got",
                    ![a].st = IF agent[a].conn = "source" THEN Status ELSE NoStatus]
    /\ OnlyAgents /\ UNCHANGED <<reports, faults>>

\* Mutant of MinionStandDown: the fortress is only opened after the migration.
MinionStandDownLate(a) ==
    /\ agent[a].step = "got" /\ agent[a].st.ph \notin Running
    /\ agent' = [agent EXCEPT ![a] = [@ EXCEPT
            !.conf = IF agent[a].st.ph \in PostSuccess THEN "target" ELSE agent[a].conf,
            !.proc = {s \in agent[a].proc : s.id # agent[a].st.id},
            !.fort = IF agent[a].st.ph \in PostSuccess THEN "open" ELSE agent[a].fort,
            !.step = "idle"]]
    /\ OnlyAgents /\ UNCHANGED <<reports, faults>>

\* handle, no phase to take part in: an agent that missed SUCCESS moves over,
\* and the agent's fortress is opened.
MinionStandDown(a) ==
    /\ agent[a].step = "got" /\ agent[a].st.ph \notin Running
    /\ agent' = [agent EXCEPT ![a] = [@ EXCEPT
            !.conf = IF agent[a].st.ph \in PostSuccess THEN "target" ELSE agent[a].conf,
            !.proc = {s \in agent[a].proc : s.id # agent[a].st.id},
            !.fort = "open", !.step = "idle"]]
    /\ OnlyAgents /\ UNCHANGED <<reports, faults>>

\* Mutant of MinionLockdown: the workers are stopped once the import begins.
MinionLockdownLate(a) ==
    /\ agent[a].step = "got" /\ agent[a].st.ph \in Running
    /\ agent' = IF agent[a].st \in agent[a].proc
                THEN [agent EXCEPT ![a].step = "idle"]
                ELSE [agent EXCEPT ![a].step = "act",
                         ![a].fort = IF agent[a].st.ph = "QUIESCE" THEN @ ELSE "locked"]
    /\ OnlyAgents /\ UNCHANGED <<reports, faults>>

\* handle, a phase to take part in: unless it has been processed, the agent's
\* workers are stopped first.
MinionLockdown(a) ==
    /\ agent[a].step = "got" /\ agent[a].st.ph \in Running
    /\ agent' = IF agent[a].st \in agent[a].proc
                THEN [agent EXCEPT ![a].step = "idle"]
                ELSE [agent EXCEPT ![a].step = "act", ![a].fort = "locked"]
    /\ OnlyAgents /\ UNCHANGED <<reports, faults>>

\* The phase becomes the one processed for its migration.
Processed(r) == [r EXCEPT !.proc = {s \in r.proc : s.id # r.st.id} \cup {r.st},
                          !.step = "idle"]

\* ReportMinion: recorded for the active migration, whichever the minion means;
\* refused without one, and against an earlier report to the contrary.
Report(a, res, done) ==
    LET ph == agent[a].st.ph
    IN  IF ActivePhase # "NONE" /\ reports[ph][a] \in {"none", res}
        THEN /\ reports' = [reports EXCEPT ![ph][a] = res]
             /\ agent' = [agent EXCEPT ![a] = done]
        ELSE /\ agent' = [agent EXCEPT ![a] = Fresh(@)]
             /\ UNCHANGED reports

MinionQuiesce(a) ==
    /\ agent[a].step = "act" /\ agent[a].st.ph = "QUIESCE"
    /\ Report(a, "ok", Processed(agent[a]))
    /\ OnlyAgents /\ UNCHANGED faults

MinionImport(a) ==
    /\ agent[a].step = "act" /\ agent[a].st.ph = "IMPORT"
    /\ agent' = [agent EXCEPT ![a] = Processed(@)]
    /\ OnlyAgents /\ UNCHANGED <<reports, faults>>

\* doVALIDATION: the target accepts the agent, or not, or is too busy to say.
MinionValidation(a) ==
    /\ agent[a].step = "act" /\ agent[a].st.ph = "VALIDATION"
    /\ \/ \E res \in {"ok", "failed"} : Report(a, res, Processed(agent[a]))
       \/ agent' = [agent EXCEPT ![a].step = "idle"] /\ UNCHANGED reports
    /\ OnlyAgents /\ UNCHANGED faults

\* Not reported: the configuration is written all the same, and the minion
\* starts over, to report again if it still finds the phase.
Unreported(a) == agent' = [agent EXCEPT ![a] = [Fresh(@) EXCEPT !.conf = "target"]]

\* doSUCCESS: the report ...
MinionSuccess(a) ==
    /\ agent[a].step = "act" /\ agent[a].st.ph = "SUCCESS"
    /\ \/ ActivePhase = "NONE" /\ Unreported(a) /\ UNCHANGED reports
       \/ /\ ActivePhase # "NONE"
          /\ agent' = [agent EXCEPT ![a].step = "config"]
          /\ reports' = [reports EXCEPT !["SUCCESS"][a] = "ok"]
    /\ OnlyAgents /\ UNCHANGED faults

\* ... which may not arrive ...
MinionReportLost(a) ==
    /\ agent[a].step = "act" /\ agent[a].st.ph = "SUCCESS" /\ Fault
    /\ Unreported(a)
    /\ OnlyAgents /\ UNCHANGED reports

\* ... and the agent's configuration.
MinionConfig(a) ==
    /\ agent[a].step = "config"
    /\ agent' = [agent EXCEPT ![a] = [Processed(@) EXCEPT !.conf = "target"]]
    /\ OnlyAgents /\ UNCHANGED <<reports, faults>>

\* The agent connects to the controller of its new configuration.
Reconnect(a) ==
    /\ agent[a].conn # agent[a].conf
    /\ agent' = [agent EXCEPT ![a] = Fresh(@)]
    /\ OnlyAgents /\ UNCHANGED <<reports, faults>>

\* The minion fails at its next step, or the agent's process restarts: with a
\* new fortress, which starts locked.
MinionDies(a) ==
    /\ Fault
    /\ \/ agent[a].step # "idle" /\ agent' = [agent EXCEPT ![a] = Fresh(@)]
       \/ agent' = [agent EXCEPT ![a] = [Fresh(@) EXCEPT !.fort = "locked"]]
    /\ OnlyAgents /\ UNCHANGED reports

Minion(a) ==
    \/ MinionRead(a) \/ MinionStandDown(a) \/ MinionLockdown(a) \/ MinionQuiesce(a)
    \/ MinionImport(a) \/ MinionValidation(a) \/ MinionSuccess(a) \/ MinionConfig(a)
    \/ Reconnect(a)

-----------------------------------------------------------------------------
(* The system *)

Next ==
    \/ Master \/ InitiateMigration
    \/ TargetUnreachable \/ MasterDies \/ ModelWorkersRestart \/ LoseConnection
    \/ \E i \in 0..MaxLost : Target(i) \/ AbortTimeout(i) \/ HandlerFails(i)
    \/ DropDatabase
    \/ \E a \in Agents : Minion(a) \/ MinionReportLost(a) \/ MinionDies(a)

\* The workers are restarted by their engines and act on what they see, the
\* handlers run to their end, and time passes.
Fairness ==
    /\ WF_vars(Master)
    /\ \A i \in 0..MaxLost : WF_vars(Target(i) \/ AbortTimeout(i))
    /\ WF_vars(DropDatabase)
    /\ \A a \in Agents : WF_vars(Minion(a))

Spec == Init /\ [][Next]_vars /\ Fairness

-----------------------------------------------------------------------------
(* Properties *)

\* The state has its shape, and the master waits for an answer exactly while
\* the handler of its call runs: no answer is awaited that cannot come.
MigrationTypeOK ==
    /\ phase \in Phases /\ attempt \in 0..MaxMigrations
    /\ reports \in [Reported -> [Agents -> {"none", "ok", "failed"}]]
    /\ fort \in {"open", "locked"}
    /\ master \in [pc : {"down", "wait", "lock", "do", "minions", "checks", "call",
                         "upload", "set", "uninstalled"},
                   at : Phases, next : Phases]
    /\ tgt \in [claim : {"none", "importing", "activating", "aborting"},
                id : 0..MaxLost, row : BOOLEAN, active : BOOLEAN, reg : BOOLEAN,
                gate : BOOLEAN, data : BOOLEAN, staged : BOOLEAN, adopted : BOOLEAN]
    /\ lost \in 0..MaxLost /\ faults \in 0..MaxFaults
    /\ \A a \in Agents :
         /\ {agent[a].conf, agent[a].conn} \subseteq {"source", "target"}
         /\ agent[a].fort \in {"open", "locked"}
         /\ agent[a].step \in {"idle", "got", "act", "config"}
         /\ \A s \in agent[a].proc \cup {agent[a].st} :
              s.id \in 0..attempt /\ s.ph \in Phases
    /\ master.pc = "call" <=> call[lost].step # "idle"

\* The two controllers agree on the point of no return: the target only commits
\* to a model once the source has recorded SUCCESS (commitActivation), it can
\* still do so while the source is in SUCCESS, and it has done so, with the
\* model's data and the provider's resources, before the source moves on.
CommitAgreed ==
    /\ tgt.claim = "activating" => phase \in Decided
    /\ phase = "SUCCESS" => tgt.row /\ tgt.data /\ tgt.claim # "aborting"
    /\ phase \in PostSuccess => Committed /\ tgt.data /\ tgt.adopted

\* The agents follow the migration, never ahead of it and never behind: from the
\* first byte exported no worker of an agent works for the source (each agent
\* has stopped its workers, or has moved over), and an abandoned migration
\* leaves no agent with the target's address in its configuration.
AgentsFollow ==
    /\ phase \in {"IMPORT", "VALIDATION", "SUCCESS"} =>
         \A a \in Agents : agent[a].fort = "locked" \/ agent[a].conn = "target"
    /\ phase \in {"ABORT", "ABORTDONE"} => \A a \in Agents : agent[a].conf = "source"

\* The source's workers of the model never run next to the target's: once the
\* target has released the model, the source's fortress is closed, unless the
\* migration ended in REAPFAILED.
SoleOwner ==
    (Committed /\ tgt.claim = "none" /\ fort = "open") => phase = "REAPFAILED"

\* The rows of a model that is not committed are always covered by a claim, and
\* only an abandoned import has its database deleted: no handler, however late,
\* writes to or deletes from a model that nobody is importing.
ImportClaimed ==
    /\ tgt.row /\ tgt.claim = "none" => Committed
    /\ tgt.staged => tgt.claim = "aborting"

\* A migration ends, whatever the minions, the target and the connection do:
\* on the target, or with the model at work again on the source, its fortress
\* and every agent's opened.
MigrationEnds ==
    (phase = "QUIESCE") ~>
        \/ phase \in {"DONE", "REAPFAILED"}
        \/ /\ phase = "ABORTDONE" /\ fort = "open"
           /\ \A a \in Agents : agent[a].fort = "open"

\* What the migration master promises of a model that has moved: it returns
\* ErrMigrated, is not restarted, and the model's fortress stays closed.
MigratedStaysShut == phase \in {"REAPFAILED", "DONE"} => fort = "locked"
=============================================================================
