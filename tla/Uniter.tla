-------------------------------- MODULE Uniter --------------------------------
(***************************************************************************)
(* The unit agent's operation loop: a resolver picks the next operation    *)
(* from the saved state and the watcher's view of the controller; the      *)
(* executor runs it as Prepare, Execute and Commit, and saves the state    *)
(* that each of them returns.  The agent may die between any two of these  *)
(* steps and starts again from what it saved.                              *)
(*                                                                         *)
(* Modelled: a machine unit's charm install and upgrade (with conflicts),  *)
(* its lifecycle hooks (install, config-changed, start, upgrade-charm,     *)
(* leader-elected, stop, remove), hook errors and their resolution,        *)
(* actions, reboots, the charm directory's fortress, and the controller's  *)
(* record of the unit.  Left out: relation, storage, secret and workload   *)
(* hooks, update-status, run-commands, the shutdown of a sidecar, and a    *)
(* refresh of resources alone.                                             *)
(* Task cancellation is left out because CancelTask cannot succeed: its    *)
(* statement names a column that the type it is prepared with lacks.       *)
(***************************************************************************)
EXTENDS Naturals, Sequences, FiniteSets, SequencesExt

CONSTANTS
    NumActions,         \* tasks the operator may enqueue for the unit
    MaxChanges,         \* bound: operator changes (config, charm, leader, ...)
    MaxCrashes,         \* bound: agent crashes and machine reboots
    MaxFails,           \* bound: hooks and deployments that do not succeed
    ShouldRetryHooks    \* the model's automatically-retry-hooks setting

ASSUME UniterAssumption ==
    /\ NumActions \in Nat /\ MaxChanges \in Nat
    /\ MaxCrashes \in Nat /\ MaxFails \in Nat
    /\ ShouldRetryHooks \in BOOLEAN

Actions == 1 .. NumActions
Hooks == {"install", "config-changed", "start", "upgrade-charm",
          "leader-elected", "stop", "remove"}

VARIABLES
    ctl,        \* the controller's record of the unit and its application
    unitCharm,  \* the charm the unit told the controller it uses
    acts,       \* [Actions -> status of the task]
    st,         \* operation.State: in memory and, when saved, on the controller
    saved,      \* a state has been saved
    phase,      \* where Uniter.loop is
    w,          \* the remote state watcher's snapshot
    loc,        \* LocalState: charm, version, restart, conflicted, retry
    op,         \* the operation being run, and how far it is
    gate,       \* the charm directory's fortress is unlocked
    reboot,     \* the reboot resolver still has a reboot to report
    rebooted,   \* the machine rebooted since the monitor was last queried
    dir,        \* the charm in the charm directory
    seen,       \* history: configuration the last config-changed hook ran with
    up,         \* history: the last of start and stop to have run was start
    ran,        \* history: times each action's process was started
    lost,       \* history: what a known window has lost
    n           \* counters for the bounds

vars == <<ctl, unitCharm, acts, st, saved, phase, w, loc, op, gate, reboot,
          rebooted, dir, seen, up, ran, lost, n>>

-----------------------------------------------------------------------------
(* Operations, and what a resolver returns when it has none. *)

NoOp == [name |-> "none", hook |-> "none", action |-> 0, charm |-> 0,
         ver |-> 0, config |-> 0, clears |-> FALSE, at |-> "none",
         step |-> "done"]

Outcome(name) == [NoOp EXCEPT !.name = name]

\* wrapHookOp: the hashes and versions a commit will record are the
\* snapshot's at the time the operation is made.
HookOp(name, hook) ==
    [NoOp EXCEPT !.name = name, !.hook = hook, !.ver = w.ver,
                 !.config = w.config]

UpgradeOp(charm) ==
    [NoOp EXCEPT !.name = "upgrade", !.charm = charm, !.ver = w.ver]

ActionOp(name, id) == [NoOp EXCEPT !.name = name, !.action = id]

Clearing(o) == [o EXCEPT !.clears = TRUE]

\* A resolver that returns ErrNoOperation passes on to the next one.
FirstOp(ops) ==
    LET some == {i \in DOMAIN ops : ops[i].name # "none"}
    IN  IF some = {} THEN NoOp
        ELSE ops[CHOOSE i \in some : \A j \in some : i <= j]

-----------------------------------------------------------------------------
(* The resolvers. *)

When(condition, o) == IF condition THEN o ELSE NoOp

RebootOp ==
    When(reboot /\ st.started /\ st.kind # "runHook", HookOp("hook", "start"))

CharmModified == loc.charm # w.charm \/ loc.ver # w.ver

\* An upgrade in progress is resumed; one that met a conflict waits for the
\* operator to resolve it or to force another charm on the unit.
UpgradingOp ==
    When(st.kind = "upgrade",
         FirstOp(<<When(~loc.conflicted, UpgradeOp(w.charm)),
                   When(w.resolved # "none", Clearing(UpgradeOp(loc.charm))),
                   When(w.force /\ CharmModified, UpgradeOp(w.charm)),
                   Outcome("wait")>>))

RestartOp == When(loc.restart, Outcome("restart"))

LeadershipOp ==
    When(st.installed,
         FirstOp(<<When(/\ w.leader /\ ~st.leader /\ w.life # "dying"
                        /\ st.kind = "continue", Outcome("accept")),
                   When(st.leader /\ (~w.leader \/ w.life = "dying"),
                        Outcome("resign"))>>))

\* The controller hands out a task only while it is pending.
Available(id) == acts[id] = "pending"

\* A task that cannot be fetched is failed: the interrupted one, if the state
\* names one that had not finished, and otherwise the next one.
ActionsOp ==
    LET next == IF w.acts = <<>> THEN 0 ELSE Head(w.acts)
        newAction(id) ==
            IF Available(id) THEN ActionOp("action", id)
            ELSE FirstOp(<<When(st.step = "pending" /\ st.action # 0,
                                ActionOp("fail", st.action)),
                           When(next # 0, ActionOp("fail", next))>>)
    IN  CASE st.kind = "runHook" /\ st.step = "pending" /\ next # 0 ->
                 newAction(next)
          [] st.kind = "runAction" /\ st.hook # "none" ->
                 HookOp("skip", st.hook)
          [] st.kind = "runAction" /\ st.hook = "none" ->
                 IF next = st.action THEN ActionOp("fail", st.action)
                 ELSE newAction(st.action)
          [] st.kind = "continue" /\ next # 0 -> newAction(next)
          [] OTHER -> NoOp

\* Mutant of RetryOp: the retry timer's signal is not looked at.
RetryOpNever == NoOp

RetryOp == When(loc.retry, HookOp("hook", st.hook))

HookErrorOp ==
    IF w.force /\ CharmModified THEN UpgradeOp(w.charm)
    ELSE CASE w.resolved = "none" -> RetryOp
           [] w.resolved = "retry-hooks" -> Clearing(HookOp("hook", st.hook))
           [] w.resolved = "no-hooks" -> Clearing(HookOp("skip", st.hook))

DyingOp ==
    FirstOp(<<When(st.started /\ ~st.stopped, HookOp("hook", "stop")),
              When(st.installed /\ ~st.removed, HookOp("hook", "remove")),
              Outcome("dead")>>)

AliveOp ==
    FirstOp(<<When(~st.installed /\ ~st.started, HookOp("hook", "install")),
              When(CharmModified, UpgradeOp(w.charm)),
              When(st.config # w.config, HookOp("hook", "config-changed"))>>)

IdleOp == IF w.life = "dying" THEN DyingOp ELSE AliveOp

\* HookStep, when recorded, overrides Step.
HookProgress == IF st.hookStep # "none" THEN st.hookStep ELSE st.step

HookStateOp ==
    CASE HookProgress = "pending" -> HookErrorOp
      [] HookProgress = "done" -> HookOp("skip", st.hook)
      [] HookProgress = "queued" ->
             IF st.hook = "install" THEN IdleOp ELSE HookOp("hook", st.hook)

StateOp ==
    CASE st.kind = "continue" -> IdleOp
      [] st.kind = "runHook" -> HookStateOp
      [] OTHER -> Outcome("error")

NextOp ==
    IF w.life = "dead" \/ st.removed THEN Outcome("dead")
    ELSE FirstOp(<<RebootOp, UpgradingOp, RestartOp, LeadershipOp, ActionsOp,
                   StateOp>>)

-----------------------------------------------------------------------------
(* Saved state. *)

\* stateChange.apply replaces these six fields and keeps the others.
Apply(kind, step, hook, hookStep, action, charm) ==
    [st EXCEPT !.kind = kind, !.step = step, !.hook = hook,
               !.hookStep = hookStep, !.action = action, !.charm = charm]

\* State.Validate, which every write and read goes through.
Valid(s) ==
    /\ s.kind = "install" => ~s.installed
    /\ s.kind \in {"install", "upgrade"} => s.charm # 0 /\ s.action = 0
    /\ s.kind = "runAction" => s.action # 0 /\ s.charm = 0
    /\ s.kind = "runHook" => s.hook # "none" /\ s.charm = 0 /\ s.action = 0
    /\ s.kind = "continue" => s.hook = "none" /\ s.charm = 0 /\ s.action = 0

InterruptedHook ==
    IF st.kind \in {"runHook", "upgrade"} THEN st.hook ELSE "none"

AlreadyDone(o) ==
    st.kind = o.name /\ st.charm = o.charm /\ st.step = "done"

\* Mutant of CharmDirAvailable: only the deployment closes the directory.
CharmDirAvailableInHook(s) ==
    s.started /\ ~s.stopped /\ s.kind \notin {"install", "upgrade"}

\* updateCharmDir: whether the charm directory's fortress is unlocked.
CharmDirAvailable(s) ==
    /\ s.started /\ ~s.stopped
    /\ s.kind \notin {"install", "upgrade"}
    /\ ~(s.kind = "runHook" /\ s.hook = "upgrade-charm")

-----------------------------------------------------------------------------
(* Starting. *)

LocalState(charm, ver) ==
    [charm |-> charm, ver |-> ver, restart |-> FALSE, conflicted |-> FALSE,
     retry |-> FALSE]

NoSnapshot ==
    [life |-> "alive", resolved |-> "none", charm |-> 0, ver |-> 0,
     force |-> FALSE, config |-> 0, leader |-> FALSE, acts |-> <<>>]

\* What an agent process that ends takes with it.
Down ==
    /\ phase' = "down" /\ op' = NoOp /\ w' = NoSnapshot
    /\ loc' = LocalState(0, 0) /\ reboot' = FALSE

Init ==
    /\ ctl = [life |-> "alive", charm |-> 1, ver |-> 1, force |-> FALSE,
              config |-> 1, resolved |-> "none", leader |-> FALSE]
    /\ unitCharm = 1
    /\ acts = [a \in Actions |-> "none"]
    /\ st = [kind |-> "install", step |-> "queued", hook |-> "none",
             hookStep |-> "none", action |-> 0, charm |-> 1,
             leader |-> FALSE, started |-> FALSE, stopped |-> FALSE,
             installed |-> FALSE, removed |-> FALSE, config |-> 0]
    /\ saved = FALSE
    /\ phase = "down"
    /\ w = NoSnapshot
    /\ loc = LocalState(0, 0)
    /\ op = NoOp
    /\ gate = FALSE
    /\ reboot = FALSE
    /\ rebooted = FALSE
    /\ dir = 0
    /\ seen = 0
    /\ up = FALSE
    /\ ran = [a \in Actions |-> 0]
    /\ lost = {}
    /\ n = [changes |-> 0, crashes |-> 0, fails |-> 0]

\* init and charmState: the saved state is read, or the initial one made from
\* the application's charm; an interrupted install is run before there is a
\* watcher, and otherwise the unit's charm is what the controller has for it.
Start ==
    /\ phase = "down" /\ ctl.life # "dead"
    /\ st' = IF saved THEN st ELSE [st EXCEPT !.charm = ctl.charm]
    /\ reboot' = rebooted /\ rebooted' = FALSE
    /\ IF st.kind = "install"
       THEN /\ phase' = "install"
            /\ loc' = LocalState(st'.charm, 0)
            /\ op' = [NoOp EXCEPT !.name = "install", !.charm = st'.charm,
                          !.at = IF st.step = "done" THEN "commit"
                                 ELSE "prepare"]
            /\ unitCharm' = IF st.step = "done" THEN unitCharm ELSE st'.charm
       ELSE /\ phase' = "watch"
            /\ loc' = LocalState(unitCharm, ctl.ver)
            /\ UNCHANGED <<op, unitCharm>>
    /\ UNCHANGED <<ctl, acts, saved, w, gate, dir, seen, up, ran, lost, n>>

\* A watcher is ready once every one of its sources has reported.
StartWatcher ==
    /\ phase = "watch"
    /\ phase' = "enter"
    /\ \E pending \in SetToSeqs({a \in Actions : Available(a)}) :
           w' = [life |-> ctl.life, resolved |-> ctl.resolved,
                 charm |-> ctl.charm, ver |-> ctl.ver, force |-> ctl.force,
                 config |-> ctl.config, leader |-> ctl.leader,
                 acts |-> pending]
    /\ loc' = LocalState(loc.charm, loc.ver)
    /\ UNCHANGED <<ctl, unitCharm, acts, st, saved, op, gate, reboot, rebooted,
                   dir, seen, up, ran, lost, n>>

\* Loop, up to its first NextOp: the charm directory is opened or closed for
\* the saved state, and an upgrade that is waiting is run first.  The
\* operation it makes sees no remote state yet, so carries version 0.
EnterLoop ==
    /\ phase = "enter" /\ op = NoOp
    /\ gate' = CharmDirAvailable(st)
    /\ IF /\ st.installed /\ st.started /\ loc.charm # w.charm
          /\ st.kind # "upgrade" /\ st.hook # "upgrade-charm"
       THEN /\ op' = [UpgradeOp(w.charm) EXCEPT !.ver = 0, !.at = "prepare"]
            /\ unitCharm' = w.charm
            /\ UNCHANGED phase
       ELSE /\ phase' = "loop"
            /\ UNCHANGED <<op, unitCharm>>
    /\ UNCHANGED <<ctl, acts, st, saved, w, loc, reboot, rebooted, dir, seen,
                   up, ran, lost, n>>

-----------------------------------------------------------------------------
(* Running an operation.  Begin is NextOp with what Prepare does to the     *)
(* controller; the state Prepare returns is saved in the next step.         *)

\* The step that follows Prepare: the hook is skipped when the unit has lost
\* the leadership it was queued for, a deployment when it is already done.
FirstStep(o) ==
    IF \/ o.name \in {"skip", "accept", "resign"}
       \/ o.name = "hook" /\ o.hook = "leader-elected" /\ ~ctl.leader
       \/ o.name = "upgrade" /\ AlreadyDone(o)
    THEN "commit" ELSE "prepare"

Begin ==
    /\ phase = "loop" /\ op = NoOp
    /\ \E o \in {NextOp} : LET at == FirstStep(o) IN
        /\ o.name \notin {"none", "wait", "error"}
        /\ IF w.life = "dead" \/ st.removed THEN UNCHANGED reboot
           ELSE reboot' = (reboot /\ st.started /\ st.kind = "runHook")
        /\ CASE o.name = "dead" -> phase' = "terminate" /\ UNCHANGED op
             [] o.name = "restart" -> phase' = "watch" /\ UNCHANGED op
             [] OTHER -> op' = [o EXCEPT !.at = at] /\ UNCHANGED phase
        /\ ctl' = IF o.clears THEN [ctl EXCEPT !.resolved = "none"] ELSE ctl
        /\ w' = IF o.clears THEN [w EXCEPT !.resolved = "none"] ELSE w
        /\ unitCharm' = IF o.name = "upgrade" /\ at = "prepare"
                        THEN o.charm ELSE unitCharm
        /\ acts' = IF o.name = "action"
                   THEN [acts EXCEPT ![o.action] = "running"] ELSE acts
        /\ loc' = IF o.name = "hook" /\ at = "prepare"
                  THEN [loc EXCEPT !.retry = FALSE] ELSE loc
    /\ UNCHANGED <<st, saved, gate, rebooted, dir, seen, up, ran, lost, n>>

\* A state that no resolver knows stops the uniter, which is then restarted.
Exit ==
    /\ phase = "loop" /\ op = NoOp /\ NextOp.name = "error"
    /\ Down
    /\ UNCHANGED <<ctl, unitCharm, acts, st, saved, gate, rebooted, dir, seen,
                   up, ran, lost, n>>

\* An action that the charm does not define is marked as an error at Prepare.
BeginBadAction ==
    /\ phase = "loop" /\ op = NoOp
    /\ \E o \in {NextOp} :
        /\ o.name = "action"
        /\ n.fails < MaxFails
        /\ n' = [n EXCEPT !.fails = @ + 1]
        /\ acts' = [acts EXCEPT ![o.action] = "error"]
        /\ op' = [o EXCEPT !.at = "commit"]
        /\ reboot' = (reboot /\ st.started /\ st.kind = "runHook")
        /\ UNCHANGED <<ctl, unitCharm, st, saved, phase, w, loc, gate,
                       rebooted, dir, seen, up, ran, lost>>

DeployState(step) ==
    Apply(op.name, step, InterruptedHook, st.hookStep, 0, op.charm)
ActionState(step) == Apply("runAction", step, st.hook, "none", op.action, 0)

Write(state) == st' = state /\ saved' = TRUE

\* The state that Prepare returned is saved.  The start hook that follows a
\* reboot takes the place of an upgrade or an action that was in progress, and
\* the upgrade that Loop begins with the place of an action, with the hook that
\* the action had found in error.
SavePrepared ==
    /\ op.at = "prepare"
    /\ op' = [op EXCEPT !.at = "execute"]
    /\ CASE op.name = "hook" ->
                Write(Apply("runHook", "pending", op.hook, "none", 0, 0))
         [] op.name \in {"install", "upgrade"} -> Write(DeployState("pending"))
         [] op.name \in {"action", "fail"} -> Write(ActionState("pending"))
    /\ lost' = lost \union
           (CASE op.name = "hook" /\ st.kind = "upgrade" -> {"charm"}
              [] op.name = "hook" /\ st.kind = "runAction" -> {"action"}
              [] op.name = "upgrade" /\ st.kind = "runAction" ->
                     {"action"} \union ({st.hook} \intersect {"start"})
              [] OTHER -> {})
    /\ UNCHANGED <<ctl, unitCharm, acts, phase, w, loc, gate, reboot, rebooted,
                   dir, seen, up, ran, n>>

\* A hook runs to its end: it may ask for a reboot, after it or in its place.
ExecuteHook(step) ==
    /\ op.at = "execute" /\ op.name = "hook"
    /\ op' = [op EXCEPT !.at = "save", !.step = step]
    /\ seen' = IF op.hook = "config-changed" /\ step \in {"done", "reboot"}
               THEN ctl.config ELSE seen
    /\ up' = IF op.hook \in {"start", "stop"} /\ step \in {"done", "reboot"}
             THEN op.hook = "start" ELSE up
    /\ IF step = "done" THEN UNCHANGED n
       ELSE n.fails < MaxFails /\ n' = [n EXCEPT !.fails = @ + 1]
    /\ UNCHANGED <<ctl, unitCharm, acts, st, saved, phase, w, loc, gate,
                   reboot, rebooted, dir, ran, lost>>

\* A hook fails: Loop returns, and is entered again with the hook pending.
FailHook ==
    /\ op.at = "execute" /\ op.name = "hook" /\ n.fails < MaxFails
    /\ n' = [n EXCEPT !.fails = @ + 1]
    /\ op' = NoOp /\ phase' = "enter"
    /\ UNCHANGED <<ctl, unitCharm, acts, st, saved, w, loc, gate, reboot,
                   rebooted, dir, seen, up, ran, lost>>

ExecuteDeploy ==
    /\ op.at = "execute" /\ op.name \in {"install", "upgrade"}
    /\ dir' = op.charm
    /\ op' = [op EXCEPT !.at = "save"]
    /\ UNCHANGED <<ctl, unitCharm, acts, st, saved, phase, w, loc, gate,
                   reboot, rebooted, seen, up, ran, lost, n>>

\* An upgrade that cannot be written over the charm directory is a conflict.
ConflictDeploy ==
    /\ op.at = "execute" /\ op.name = "upgrade" /\ n.fails < MaxFails
    /\ n' = [n EXCEPT !.fails = @ + 1]
    /\ loc' = [loc EXCEPT !.conflicted = TRUE]
    /\ op' = NoOp /\ phase' = "enter"
    /\ UNCHANGED <<ctl, unitCharm, acts, st, saved, w, gate, reboot, rebooted,
                   dir, seen, up, ran, lost>>

\* The action's process runs; its result is sent to the controller after it.
ExecuteAction ==
    /\ op.at = "execute" /\ op.name = "action"
    /\ ran' = [ran EXCEPT ![op.action] = @ + 1]
    /\ op' = [op EXCEPT !.at = "finish"]
    /\ UNCHANGED <<ctl, unitCharm, acts, st, saved, phase, w, loc, gate,
                   reboot, rebooted, dir, seen, up, lost, n>>

\* Mutant of FinishTask: a failed task is not reported to the controller.
FinishTaskUnreported ==
    /\ \/ op.at = "finish" /\ op.name = "action"
       \/ op.at = "execute" /\ op.name = "fail"
    /\ acts' = [acts EXCEPT ![op.action] =
                    IF op.name = "fail" THEN @ ELSE "completed"]
    /\ op' = [op EXCEPT !.at = "save"]
    /\ UNCHANGED <<ctl, unitCharm, st, saved, phase, w, loc, gate, reboot,
                   rebooted, dir, seen, up, ran, lost, n>>

\* FinishTask sets the task's status whatever it was.
FinishTask ==
    /\ \/ op.at = "finish" /\ op.name = "action"
       \/ op.at = "execute" /\ op.name = "fail"
    /\ acts' = [acts EXCEPT ![op.action] =
                    IF op.name = "fail" THEN "failed" ELSE "completed"]
    /\ op' = [op EXCEPT !.at = "save"]
    /\ UNCHANGED <<ctl, unitCharm, st, saved, phase, w, loc, gate, reboot,
                   rebooted, dir, seen, up, ran, lost, n>>

\* The state that Execute returned is saved.  A reboot request then stops the
\* agent, a terminated hook leaves Loop, and otherwise the commit follows.
SaveExecuted ==
    LET step == CASE op.step \in {"done", "reboot"} -> "done"
                  [] op.step \in {"requeue", "terminated"} -> "queued"
    IN  /\ op.at = "save"
        /\ CASE op.name = "hook" ->
                    Write(Apply("runHook", step, op.hook, step, 0, 0))
             [] op.name \in {"install", "upgrade"} -> Write(DeployState("done"))
             [] op.name \in {"action", "fail"} -> Write(ActionState("done"))
        /\ CASE op.step = "done" ->
                    /\ op' = [op EXCEPT !.at = "commit"]
                    /\ UNCHANGED <<phase, w, loc, reboot, rebooted, gate>>
             [] op.step \in {"reboot", "requeue"} ->
                    Down /\ rebooted' = TRUE /\ gate' = FALSE
             [] op.step = "terminated" ->
                    /\ op' = NoOp /\ phase' = "enter"
                    /\ UNCHANGED <<w, loc, reboot, rebooted, gate>>
        /\ UNCHANGED <<ctl, unitCharm, acts, dir, seen, up, ran, lost, n>>

-----------------------------------------------------------------------------
(* Commit. *)

\* Mutant of HookHash: the hash is the watcher's when the hook is committed.
HookHashLatest(s) == [s EXCEPT !.config = w.config]

\* A committed config-changed records the hash its operation was made with.
HookHash(s) == [s EXCEPT !.config = op.config]

\* Mutant of HookFlags: a start hook does not undo that stop has run.
HookFlagsStillStopped(s) ==
    CASE op.hook = "install" ->
             [s EXCEPT !.installed = TRUE, !.removed = FALSE]
      [] op.hook = "start" -> [s EXCEPT !.started = TRUE]
      [] op.hook = "stop" -> [s EXCEPT !.stopped = TRUE]
      [] op.hook = "remove" -> [s EXCEPT !.removed = TRUE]
      [] op.hook = "config-changed" -> HookHash(s)
      [] OTHER -> s

HookFlags(s) ==
    CASE op.hook = "install" ->
             [s EXCEPT !.installed = TRUE, !.removed = FALSE]
      [] op.hook = "start" -> [s EXCEPT !.started = TRUE, !.stopped = FALSE]
      [] op.hook = "stop" -> [s EXCEPT !.stopped = TRUE]
      [] op.hook = "remove" -> [s EXCEPT !.removed = TRUE]
      [] op.hook = "config-changed" -> HookHash(s)
      [] OTHER -> s

HookCommitted ==
    HookFlags(
        CASE op.hook = "config-changed" /\ ~st.started ->
                 Apply("runHook", "queued", "start", "none", 0, 0)
          [] op.hook = "upgrade-charm" ->
                 Apply("runHook", "queued", "config-changed", "none", 0, 0)
          [] OTHER -> Apply("continue", "pending", "none", "none", 0, 0))

DeployCommitted ==
    IF InterruptedHook # "none"
    THEN Apply("runHook", "pending", InterruptedHook, st.hookStep, 0, 0)
    ELSE Apply("runHook", "queued",
               IF op.name = "install" THEN "install" ELSE "upgrade-charm",
               "none", 0, 0)

\* Mutant of ActionCommitted: the hook that was in error is not gone back to.
ActionCommittedContinue ==
    Apply("continue", "pending", st.hook, "none", 0, 0)

ActionCommitted ==
    Apply(IF st.hook # "none" THEN "runHook" ELSE "continue", "pending",
          st.hook, "none", 0, 0)

Commit ==
    /\ op.at = "commit"
    /\ CASE op.name \in {"hook", "skip"} -> Write(HookCommitted)
         [] op.name \in {"install", "upgrade"} -> Write(DeployCommitted)
         [] op.name \in {"action", "fail"} -> Write(ActionCommitted)
         [] op.name = "accept" ->
                Write([Apply("runHook", "queued", "leader-elected", "none",
                             0, 0) EXCEPT !.leader = TRUE])
         [] op.name = "resign" -> Write([st EXCEPT !.leader = FALSE])
    /\ loc' = CASE op.name \in {"hook", "skip"} -> [loc EXCEPT !.ver = op.ver]
                [] op.name = "upgrade" ->
                       [loc EXCEPT !.charm = op.charm, !.ver = op.ver,
                                   !.restart = TRUE, !.conflicted = FALSE]
                [] OTHER -> loc
    /\ w' = [w EXCEPT !.acts = RemoveFirst(w.acts, op.action)]
    /\ IF phase = "loop"
       THEN gate' = CharmDirAvailable(st') /\ UNCHANGED phase
       ELSE phase' = "watch" /\ UNCHANGED gate
    /\ op' = NoOp
    /\ lost' = IF op.name = "skip" /\ op.hook = "config-changed"
                  /\ op.config # seen
               THEN lost \union {"config"} ELSE lost
    /\ up' = (up /\ ~(op.name = "skip" /\ op.hook = "stop"))
    /\ UNCHANGED <<ctl, unitCharm, acts, reboot, rebooted, dir, seen, ran,
                   n>>

\* The unit is set to dead once it is known that nothing needs it.
Terminate ==
    /\ phase = "terminate"
    /\ phase' = "ended"
    /\ ctl' = [ctl EXCEPT !.life = "dead"]
    /\ UNCHANGED <<unitCharm, acts, st, saved, w, loc, op, gate, reboot,
                   rebooted, dir, seen, up, up, ran, lost, n>>

-----------------------------------------------------------------------------
(* The agent's surroundings. *)

\* The agent dies, alone or with its machine.  What it had told the controller
\* but not saved yet is remembered in lost.
Crash ==
    /\ phase \notin {"down", "ended"} /\ n.crashes < MaxCrashes
    /\ n' = [n EXCEPT !.crashes = @ + 1]
    /\ Down /\ gate' = FALSE
    /\ rebooted' \in {rebooted, TRUE}
    /\ lost' = lost \union
           (CASE op.at = "prepare" /\ op.name = "upgrade" -> {"charm"}
              [] op.name = "action"
                 /\ op.at \in (IF st.hook = "none" THEN {"prepare"}
                              ELSE {"prepare", "execute", "finish"}) ->
                     {"action"}
              [] OTHER -> {})
    /\ UNCHANGED <<ctl, unitCharm, acts, st, saved, dir, seen, up, ran>>

\* Each source of the watcher reports on its own.  (An event of a task that comes
\* after the task has ended, which nobody filters out, is not modelled.)
Watch ==
    /\ phase = "loop"
    /\ \/ w' = [w EXCEPT !.life = ctl.life, !.resolved = ctl.resolved]
       \/ w' = [w EXCEPT !.charm = ctl.charm, !.ver = ctl.ver,
                         !.force = ctl.force]
       \/ w' = [w EXCEPT !.config = ctl.config]
       \/ w' = [w EXCEPT !.leader = ctl.leader]
       \/ \E a \in Actions :
              /\ Available(a) /\ a \notin ToSet(w.acts)
              /\ w' = [w EXCEPT !.acts = Append(@, a)]
    /\ w' # w
    /\ UNCHANGED <<ctl, unitCharm, acts, st, saved, phase, loc, op, gate,
                   reboot, rebooted, dir, seen, up, ran, lost, n>>

HookError == phase = "loop" /\ op = NoOp /\ st.kind = "runHook"
             /\ HookProgress = "pending"

\* The timer that nextOpHookError starts.
RetryTimer ==
    /\ ShouldRetryHooks /\ HookError /\ w.resolved = "none" /\ ~loc.retry
    /\ loc' = [loc EXCEPT !.retry = TRUE]
    /\ UNCHANGED <<ctl, unitCharm, acts, st, saved, phase, w, op, gate, reboot,
                   rebooted, dir, seen, up, ran, lost, n>>

\* What the operator and the other units do.
Change ==
    /\ n.changes < MaxChanges /\ ctl.life # "dead"
    /\ n' = [n EXCEPT !.changes = @ + 1]
    /\ \/ /\ ctl' = [ctl EXCEPT !.config = @ + 1]
          /\ UNCHANGED acts
       \/ /\ \E force \in BOOLEAN :
                 ctl' = [ctl EXCEPT !.charm = @ + 1, !.ver = @ + 1,
                                    !.force = force]
          /\ UNCHANGED acts
       \/ /\ ctl' = [ctl EXCEPT !.leader = ~@]
          /\ UNCHANGED acts
       \/ /\ HookError \/ (phase = "loop" /\ op = NoOp /\ loc.conflicted)
          /\ \E mode \in {"retry-hooks", "no-hooks"} :
                 ctl' = [ctl EXCEPT !.resolved = mode]
          /\ UNCHANGED acts
       \/ \E a \in Actions :
              /\ acts[a] = "none" /\ \A b \in 1 .. (a - 1) : acts[b] # "none"
              /\ acts' = [acts EXCEPT ![a] = "pending"]
              /\ UNCHANGED ctl
    /\ UNCHANGED <<unitCharm, st, saved, phase, w, loc, op, gate, reboot,
                   rebooted, dir, seen, up, ran, lost>>

Destroy ==
    /\ ctl.life = "alive"
    /\ ctl' = [ctl EXCEPT !.life = "dying"]
    /\ UNCHANGED <<unitCharm, acts, st, saved, phase, w, loc, op, gate, reboot,
                   rebooted, dir, seen, up, ran, lost, n>>

Steps ==
    \/ Start \/ StartWatcher \/ EnterLoop
    \/ SavePrepared \/ SaveExecuted \/ Commit
    \/ ExecuteHook("done") \/ ExecuteDeploy \/ ExecuteAction \/ FinishTask
    \/ Begin \/ Exit \/ Terminate

Faults ==
    \/ Crash \/ FailHook \/ ConflictDeploy \/ BeginBadAction
    \/ \E step \in {"reboot", "requeue", "terminated"} : ExecuteHook(step)

Next == Steps \/ Faults \/ Watch \/ RetryTimer \/ Change \/ Destroy

\* The agent does not stop for good while it, its watcher or its timer has
\* something to do: it is started again when it dies.
Spec == Init /\ [][Next]_vars /\ WF_vars(Steps \/ Watch \/ RetryTimer)

-----------------------------------------------------------------------------
(* Properties. *)

\* The types, and that the saved state is one that State.Validate accepts: a
\* state that is not can be neither written nor read back, and stops the agent
\* for good.
UniterTypeOK ==
    /\ phase \in {"down", "install", "watch", "enter", "loop", "terminate",
                  "ended"}
    /\ st.kind \in {"install", "upgrade", "runHook", "runAction", "continue"}
    /\ st.step \in {"queued", "pending", "done"}
    /\ st.hookStep \in {"none", "queued", "pending", "done"}
    /\ st.hook \in Hooks \union {"none"}
    /\ st.action \in Actions \union {0}
    /\ acts \in [Actions -> {"none", "pending", "running", "completed",
                             "failed", "error"}]
    /\ op.at \in {"none", "prepare", "execute", "finish", "save", "commit"}
    /\ Valid(st)

\* A hook never runs in a state its charm does not expect, through crashes,
\* reboots, errors and upgrades: the others only once installed, stop only
\* while started, and remove only when stop has run, or the operator has
\* waived it, since start last ran; unless an upgrade has made the agent forget
\* a start hook that had run, been left uncommitted by a crash, and then been
\* put aside for an action that another crash cut short.
HookOrder ==
    op.name = "hook" /\ op.at = "execute" =>
        /\ op.hook = "install" => ~st.installed
        /\ op.hook \in {"config-changed", "start", "upgrade-charm",
                        "leader-elected", "stop", "remove"} => st.installed
        /\ op.hook = "stop" => st.started /\ ~st.stopped
        /\ op.hook = "remove" => ~up \/ "start" \in lost

\* While the install or the upgrade-charm hook runs, nobody else is let into the
\* charm directory.
CharmDirShut ==
    op.name = "hook" /\ op.at \in {"execute", "save"}
    /\ op.hook \in {"install", "upgrade-charm"} => ~gate

\* The agent has nothing left to do and its watcher nothing left to report.
Settled ==
    /\ phase = "loop" /\ op = NoOp /\ NextOp.name = "none"
    /\ st.kind = "continue" /\ ctl.life = "alive"
    /\ w = [life |-> ctl.life, resolved |-> ctl.resolved, charm |-> ctl.charm,
            ver |-> ctl.ver, force |-> ctl.force, config |-> ctl.config,
            leader |-> ctl.leader, acts |-> <<>>]
    /\ \A a \in Actions : acts[a] # "pending"

\* An agent that has settled has run config-changed with the configuration the
\* controller has now, and has the application's charm in its directory; unless
\* a config-changed was committed unrun (by the operator, or in recovery from a
\* stop between its execution and its commit), or the agent died after it had
\* told the controller of an upgrade and before it had saved that it was
\* upgrading, or its machine rebooted in an upgrade.
ChangesDelivered ==
    Settled => /\ seen = ctl.config \/ "config" \in lost
               /\ dir = ctl.charm \/ "charm" \in lost

\* An action's process is started at most once, whatever is interrupted
\* (rerunning an arbitrary command may do harm), and yet an agent that has
\* settled leaves no task running; unless it died after it had begun one and
\* before it had saved that it was running it, or while it ran one with a hook
\* in error (the recovery then commits the hook instead), or found a reboot or
\* an upgrade to see to first when it came back to one.
ActionsEndOnce ==
    /\ \A a \in Actions : ran[a] <= 1
    /\ Settled => (\A a \in Actions : acts[a] # "running") \/ "action" \in lost

\* Nothing but the operator can end this wait.
AwaitsOperator == st.kind = "upgrade" /\ loc.conflicted /\ op = NoOp

\* The agent stopped after an action had finished and before its commit: no
\* resolver has an operation for that state.
Wedged == st.kind = "runAction" /\ st.step = "done" /\ st.hook = "none"
          /\ op = NoOp

\* A dying unit is stopped, removed and set to dead, whatever it was doing.
DyingUnitEnds ==
    ctl.life = "dying" ~> (ctl.life = "dead" \/ AwaitsOperator \/ Wedged)
=============================================================================
