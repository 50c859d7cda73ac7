---------------------------- MODULE UniterProofs ----------------------------
(***************************************************************************)
(* Proofs about Uniter for every number of actions, operator changes,      *)
(* crashes and failed hooks: its types and the validity of the saved       *)
(* state, the order of the hooks, the charm directory's gate, that actions *)
(* are run at most once and ended, and that changes are delivered.         *)
(***************************************************************************)
EXTENDS Uniter, FiniteSetTheorems, WellFoundedInduction, TLAPS

(* Types of the records.                                                   *)

Kinds == {"install", "upgrade", "runHook", "runAction", "continue"}
Progress == {"queued", "pending", "done"}
HookOrNone == Hooks \union {"none"}
Lives == {"alive", "dying", "dead"}
Resolutions == {"none", "retry-hooks", "no-hooks"}
Places == {"none", "prepare", "execute", "finish", "save", "commit"}
OpNames == {"none", "hook", "skip", "install", "upgrade", "action", "fail",
            "accept", "resign"}
OutcomeNames == {"wait", "restart", "dead", "error"}

StateRecord ==
    [kind : Kinds, step : Progress, hook : HookOrNone,
     hookStep : Progress \union {"none"}, action : Actions \union {0},
     charm : Nat, leader : BOOLEAN, started : BOOLEAN, stopped : BOOLEAN,
     installed : BOOLEAN, removed : BOOLEAN, config : Nat]

OpRecord ==
    [name : OpNames \union OutcomeNames, hook : HookOrNone,
     action : Actions \union {0}, charm : Nat, ver : Nat, config : Nat,
     clears : BOOLEAN, at : Places,
     step : {"done", "reboot", "requeue", "terminated"}]

Snapshot ==
    [life : Lives, resolved : Resolutions, charm : Nat, ver : Nat,
     force : BOOLEAN, config : Nat, leader : BOOLEAN, acts : Seq(Actions)]

UnitRecord ==
    [life : Lives, charm : Nat \ {0}, ver : Nat, force : BOOLEAN,
     config : Nat, resolved : Resolutions, leader : BOOLEAN]

LocalRecord ==
    [charm : Nat, ver : Nat, restart : BOOLEAN, conflicted : BOOLEAN,
     retry : BOOLEAN]

Types ==
    /\ st \in StateRecord /\ op \in OpRecord /\ w \in Snapshot
    /\ ctl \in UnitRecord /\ loc \in LocalRecord
    /\ phase \in {"down", "install", "watch", "enter", "loop", "terminate",
                  "ended"}
    /\ acts \in [Actions -> {"none", "pending", "running", "completed",
                             "failed", "error"}]
    /\ ran \in [Actions -> Nat]
    /\ unitCharm \in Nat \ {0} /\ dir \in Nat /\ seen \in Nat
    /\ up \in BOOLEAN /\ gate \in BOOLEAN /\ saved \in BOOLEAN

-----------------------------------------------------------------------------
(* The parts of the inductive invariant.                                   *)

\* What HookOrder asks of a hook, in the state as it is.
HookFits(h) ==
    /\ h = "install" => ~st.installed
    /\ h \in Hooks \ {"install"} => st.installed
    /\ h = "stop" => st.started /\ ~st.stopped
    /\ h = "remove" => ~up \/ "start" \in lost

(* The saved state: valid, with a recorded hook that may still run. A       *)
(* start hook that has run is committed, recorded, or known to be lost.     *)
StateInv ==
    /\ Valid(st)
    /\ ~saved => st.kind = "install" /\ st.step = "queued"
    /\ st.kind = "install" => st.hook = "none"
    /\ st.kind = "upgrade" => st.installed \/ st.hook # "none"
    /\ st.started => st.installed
    /\ HookFits(st.hook)
    /\ up => \/ st.started /\ ~st.stopped
             \/ st.hook = "start"
             \/ "start" \in lost

\* Which operations run where, and what is known there.
PhaseInv ==
    /\ phase = "install" <=> op.name = "install"
    /\ phase = "enter" => op.name \in {"none", "upgrade"}
    /\ phase \in {"down", "watch", "terminate", "ended"} => op.name = "none"
    /\ phase \notin {"down", "install"} => st.kind # "install"
    /\ phase \in {"watch", "enter", "loop"} => loc.charm # 0
    /\ phase \in {"enter", "loop"} => w.charm # 0
    /\ phase = "install" => loc.charm = st.charm

\* A hook operation: before its Prepare is saved, and after.
HookOpInv ==
    op.name = "hook" =>
        /\ op.at \in {"prepare", "execute", "save", "commit"}
        /\ op.hook \in Hooks /\ HookFits(op.hook)
        /\ op.at = "prepare" =>
              st.hook \in {"none", "install", op.hook} \/ op.hook = "start"
        /\ op.at # "prepare" => st.kind = "runHook" /\ st.hook = op.hook
        /\ op.hook = "stop" /\ op.step \in {"done", "reboot"}
           /\ op.at \in {"save", "commit"} => ~up

SkipOpInv ==
    op.name = "skip" =>
        /\ op.at = "commit" /\ op.hook = st.hook /\ st.hook # "none"
        /\ st.kind \in {"runHook", "runAction"}

DeployOpInv ==
    /\ op.name \in {"install", "upgrade"} =>
          op.at \in {"prepare", "execute", "save", "commit"} /\ op.charm # 0
    /\ op.name = "install" => st.kind = "install" /\ op.charm = st.charm
    /\ op.name = "upgrade" /\ op.at = "prepare" =>
          st.installed \/ InterruptedHook # "none"
    /\ op.name = "upgrade" /\ op.at # "prepare" =>
          st.kind = "upgrade" /\ st.charm = op.charm

(* An action being run or failed: the state names it once it is saved, and  *)
(* no other one that was interrupted is passed over.                        *)
ActionOpInv ==
    op.name \in {"action", "fail"} =>
        /\ op.action \in Actions
        /\ op.at \in {"prepare", "execute", "finish", "save", "commit"}
        /\ st.kind \in {"runHook", "runAction", "continue"}
        /\ op.at \in {"execute", "finish", "save"} =>
              st.kind = "runAction" /\ st.action = op.action /\ st.step = "pending"
        /\ op.at = "commit" /\ st.kind = "runAction" => st.action = op.action
        /\ op.at = "prepare" /\ st.kind = "runAction" =>
              /\ st.hook = "none"
              /\ op.name = "action" \/ st.step = "pending" =>
                    op.action = st.action

OpInv ==
    /\ op.name \in OpNames
    /\ op.name = "none" => op = NoOp
    /\ op.name # "none" => op.at # "none"
    /\ op.name = "accept" =>
          op.at = "commit" /\ st.installed /\ st.kind = "continue"
    /\ op.name = "resign" => op.at = "commit"
    /\ op.step # "done" => op.name = "hook" /\ op.at = "save"
    /\ HookOpInv /\ SkipOpInv /\ DeployOpInv /\ ActionOpInv

(* The charm directory's gate agrees with the state whenever the resolver   *)
(* is asked, and so is shut for the hooks that need it shut.                *)
GateInv ==
    /\ phase = "loop" /\ op.name = "none" => gate = CharmDirAvailable(st)
    /\ op.name = "hook" /\ op.at # "commit"
       /\ op.hook \in {"install", "upgrade-charm"} => ~gate

(* An action that has not been taken has not run; one that is running is    *)
(* the operation's, the state's, or one that a crash is known to have lost. *)
RunInv(a) ==
    /\ ran[a] <= 1
    /\ acts[a] \in {"none", "pending"} => ran[a] = 0
    /\ op.name = "action" /\ op.action = a =>
          /\ op.at \in {"prepare", "execute"} => ran[a] = 0
          /\ op.at \in {"prepare", "execute", "finish"} => acts[a] = "running"
    /\ op.name \in {"action", "fail"} /\ op.action = a
       /\ op.at \in {"save", "commit"} =>
          acts[a] \in {"completed", "failed", "error"}
    /\ acts[a] = "running" =>
          \/ op.name = "action" /\ op.action = a
          \/ /\ st.kind = "runAction" /\ st.action = a
             /\ st.step = "pending" /\ st.hook = "none"
          \/ "action" \in lost

(* The configuration: what the state records was seen by a hook, and is no  *)
(* newer than the controller's.                                             *)
ConfigInv ==
    /\ seen <= ctl.config /\ w.config <= ctl.config /\ op.config <= ctl.config
    /\ st.config <= seen \/ "config" \in lost
    /\ op.name = "hook" /\ op.hook = "config-changed"
       /\ op.step \in {"done", "reboot"} /\ op.at \in {"save", "commit"}
          => op.config <= seen

\* The controller has been told of an upgrade that no saved state records.
Told == op.name = "upgrade" /\ op.at = "prepare"

(* The charm: the directory holds what the controller was told of, unless   *)
(* a deployment is under way; and so does the agent's own record.           *)
CharmInv ==
    /\ Told => unitCharm = op.charm
    /\ st.kind = "upgrade" /\ ~Told => unitCharm = st.charm
    /\ st.kind = "install" /\ (phase = "install" \/ st.step = "done") =>
          unitCharm = st.charm
    /\ st.kind \in {"install", "upgrade"} /\ st.step = "done" => dir = st.charm
    /\ op.name \in {"install", "upgrade"} /\ op.at \in {"save", "commit"} =>
          dir = op.charm
    /\ st.kind \in {"runHook", "runAction", "continue"} /\ ~Told =>
          dir = unitCharm
    /\ phase \in {"watch", "enter", "loop"} /\ st.kind # "upgrade" /\ ~Told =>
          loc.charm = unitCharm

IInv ==
    /\ Types /\ StateInv /\ PhaseInv /\ OpInv /\ GateInv
    /\ \A a \in Actions : RunInv(a)
    /\ ConfigInv
    /\ "charm" \in lost \/ CharmInv

-----------------------------------------------------------------------------
(* The chain of resolvers.                                                 *)

\* FirstOp returns the first of its operations that is one.
LEMMA FirstOpIs ==
    ASSUME NEW ops, NEW i \in DOMAIN ops, DOMAIN ops \subseteq Nat,
           ops[i].name # "none",
           \A j \in DOMAIN ops : j < i => ops[j].name = "none"
    PROVE  FirstOp(ops) = ops[i]
<1> DEFINE some == {j \in DOMAIN ops : ops[j].name # "none"}
<1>1. i \in some /\ \A j \in some : i <= j
  OBVIOUS
<1>2. (CHOOSE k \in some : \A j \in some : k <= j) = i
  <2>1. ASSUME NEW k \in some, \A j \in some : k <= j PROVE k = i
    BY <1>1, <2>1
  <2> QED
    BY <1>1, <2>1
<1> QED
  BY <1>1, <1>2 DEF FirstOp

\* And none if none is.
LEMMA FirstOpNone ==
    ASSUME NEW ops, \A j \in DOMAIN ops : ops[j].name = "none"
    PROVE  FirstOp(ops) = NoOp
BY DEF FirstOp

\* Every set of naturals has a least element.
LEMMA LeastNatural ==
    ASSUME NEW T, T \in SUBSET Nat, T # {}
    PROVE  \E m \in T : \A j \in T : m <= j
<1> DEFINE R == OpToRel(<, Nat)
<1>1. IsWellFoundedOn(R, Nat)
  BY NatLessThanWellFounded
<1> HIDE DEF R
<1>2. PICK m \in T : \A j \in T : ~(<<j, m>> \in R)
  BY <1>1, WFMin, Zenon
<1>3. ASSUME NEW j \in T PROVE m <= j
  <2>1. ~(<<j, m>> \in R) /\ j \in Nat /\ m \in Nat
    BY <1>2
  <2>2. j < m => <<j, m>> \in R
    BY <2>1 DEF R, OpToRel
  <2> QED
    BY <2>1, <2>2
<1> QED
  BY <1>3

(* Chains of the lengths that the resolvers use.                           *)

\* The earlier of two operations, if there is one.
Or(a, b) == IF a.name # "none" THEN a ELSE b

\* A chain of two.
LEMMA FirstOfTwo ==
    ASSUME NEW a, NEW b, b.name = "none" => b = NoOp
    PROVE  FirstOp(<<a, b>>) = Or(a, b)
<1>2. CASE a.name # "none"
  BY <1>2, FirstOpIs DEF Or
<1>3. CASE a.name = "none" /\ b.name # "none"
  BY <1>3, FirstOpIs DEF Or
<1>4. CASE a.name = "none" /\ b.name = "none"
  BY <1>4, FirstOpNone DEF Or
<1> QED
  BY <1>2, <1>3, <1>4

\* A chain of three.
LEMMA FirstOfThree ==
    ASSUME NEW a, NEW b, NEW c, c.name = "none" => c = NoOp
    PROVE  FirstOp(<<a, b, c>>) = Or(a, Or(b, c))
<1>2. CASE a.name # "none"
  BY <1>2, FirstOpIs DEF Or
<1>3. CASE a.name = "none" /\ b.name # "none"
  BY <1>3, FirstOpIs DEF Or
<1>4. CASE a.name = "none" /\ b.name = "none" /\ c.name # "none"
  BY <1>4, FirstOpIs DEF Or
<1>5. CASE a.name = "none" /\ b.name = "none" /\ c.name = "none"
  BY <1>5, FirstOpNone DEF Or
<1> QED
  BY <1>2, <1>3, <1>4, <1>5

\* A chain of four.
LEMMA FirstOfFour ==
    ASSUME NEW a, NEW b, NEW c, NEW d, d.name = "none" => d = NoOp
    PROVE  FirstOp(<<a, b, c, d>>) = Or(a, Or(b, Or(c, d)))
<1>2. CASE a.name # "none"
  BY <1>2, FirstOpIs DEF Or
<1>3. CASE a.name = "none" /\ b.name # "none"
  BY <1>3, FirstOpIs DEF Or
<1>4. CASE a.name = "none" /\ b.name = "none" /\ c.name # "none"
  BY <1>4, FirstOpIs DEF Or
<1>5. CASE a.name = "none" /\ b.name = "none" /\ c.name = "none" /\ d.name # "none"
  BY <1>5, FirstOpIs DEF Or
<1>6. CASE a.name = "none" /\ b.name = "none" /\ c.name = "none" /\ d.name = "none"
  BY <1>6, FirstOpNone DEF Or
<1> QED
  BY <1>2, <1>3, <1>4, <1>5, <1>6

\* The chain of NextOp.
LEMMA FirstOfSix ==
    ASSUME NEW a, NEW b, NEW c, NEW d, NEW e, NEW f, f.name = "none" => f = NoOp
    PROVE  FirstOp(<<a, b, c, d, e, f>>) = Or(a, Or(b, Or(c, Or(d, Or(e, f)))))
<1> DEFINE none == "none"
<1>2. CASE a.name # none
  BY <1>2, FirstOpIs DEF Or
<1>3. CASE a.name = none /\ b.name # none
  BY <1>3, FirstOpIs DEF Or
<1>4. CASE a.name = none /\ b.name = none /\ c.name # none
  BY <1>4, FirstOpIs DEF Or
<1>5. CASE a.name = none /\ b.name = none /\ c.name = none /\ d.name # none
  BY <1>5, FirstOpIs DEF Or
<1>6. CASE a.name = none /\ b.name = none /\ c.name = none /\ d.name = none
           /\ e.name # none
  BY <1>6, FirstOpIs DEF Or
<1>7. CASE a.name = none /\ b.name = none /\ c.name = none /\ d.name = none
           /\ e.name = none /\ f.name # none
  BY <1>7, FirstOpIs DEF Or
<1>8. CASE a.name = none /\ b.name = none /\ c.name = none /\ d.name = none
           /\ e.name = none /\ f.name = none
  BY <1>8, FirstOpNone DEF Or
<1> QED
  BY <1>2, <1>3, <1>4, <1>5, <1>6, <1>7, <1>8

-----------------------------------------------------------------------------
(* What the resolvers may return in a state of the invariant.              *)

NextFits(o) ==
    /\ o \in OpRecord /\ o.at = "none" /\ o.step = "done"
    /\ o.name # "install" /\ o.config <= ctl.config
    /\ o.name = "hook" =>
          /\ o.hook \in Hooks /\ HookFits(o.hook)
          /\ st.hook \in {"none", "install", o.hook} \/ o.hook = "start"
          /\ o.hook \in {"upgrade-charm", "leader-elected"} =>
                st.kind = "runHook" /\ st.hook = o.hook
    /\ o.name = "skip" =>
          /\ o.hook = st.hook /\ st.hook # "none"
          /\ st.kind \in {"runHook", "runAction"}
    /\ o.name = "upgrade" =>
          /\ o.charm # 0 /\ st.kind \notin {"runAction", "install"}
          /\ st.installed \/ InterruptedHook # "none"
    /\ o.name = "action" => Available(o.action)
    /\ o.name \in {"action", "fail"} =>
          /\ o.action \in Actions
          /\ st.kind \in {"runHook", "runAction", "continue"}
          /\ st.kind = "runAction" =>
                /\ st.hook = "none"
                /\ o.name = "action" \/ st.step = "pending" =>
                      o.action = st.action
    /\ o.name = "accept" => st.installed /\ st.kind = "continue"

\* What the proofs about NextOp need of the invariant.
Asked == Types /\ StateInv /\ PhaseInv /\ ConfigInv /\ phase = "loop"

\* The fields of the snapshot and of the state.
LEMMA FieldTypes ==
    ASSUME Types
    PROVE  /\ w.charm \in Nat /\ w.ver \in Nat /\ w.config \in Nat
           /\ w.acts \in Seq(Actions) /\ w.resolved \in Resolutions
           /\ w.life \in Lives /\ loc.charm \in Nat /\ loc.ver \in Nat
           /\ ctl.charm \in Nat \ {0} /\ ctl.ver \in Nat /\ ctl.config \in Nat
           /\ st.kind \in Kinds /\ st.step \in Progress
           /\ st.hook \in HookOrNone /\ st.hookStep \in Progress \union {"none"}
           /\ st.action \in Actions \union {0} /\ st.charm \in Nat
           /\ st.config \in Nat
           /\ op.name \in OpNames \union OutcomeNames /\ op.hook \in HookOrNone
           /\ op.action \in Actions \union {0} /\ op.charm \in Nat
           /\ op.ver \in Nat /\ op.config \in Nat /\ op.at \in Places
           /\ op.step \in {"done", "reboot", "requeue", "terminated"}
BY DEF Types, StateRecord, OpRecord, Snapshot, UnitRecord, LocalRecord

\* An operation in the making is an operation record.
LEMMA NoOpType == NoOp \in OpRecord
BY DEF NoOp, OpRecord, OpNames, HookOrNone, Places

\* Operations without a target.
LEMMA OutcomeFits ==
    ASSUME Asked, NEW m \in {"none", "resign", "wait", "restart", "dead", "error"}
    PROVE  NextFits(Outcome(m)) /\ Outcome(m).name = m
<1>1. m \in OpNames \union OutcomeNames
  BY DEF OpNames, OutcomeNames
<1>2. Outcome(m) \in OpRecord
  BY <1>1, NoOpType DEF Outcome, OpRecord
<1>3. /\ Outcome(m).name = m /\ Outcome(m).at = "none"
      /\ Outcome(m).step = "done" /\ Outcome(m).config = 0
  BY DEF Outcome, NoOp
<1>4. ctl.config \in Nat
  BY FieldTypes DEF Asked
<1> QED
  BY <1>2, <1>3, <1>4 DEF NextFits

\* No operation is one of them.
LEMMA NoOpFits ==
    ASSUME Asked
    PROVE  NextFits(NoOp) /\ NoOp.name = "none"
<1>1. NoOp.at = "none" /\ NoOp.step = "done" /\ NoOp.config = 0 /\ NoOp.name = "none"
  BY DEF NoOp
<1>2. ctl.config \in Nat
  BY FieldTypes DEF Asked
<1> QED
  BY <1>1, <1>2, NoOpType DEF NextFits

\* The fields of a hook operation.
LEMMA HookOpFields ==
    ASSUME Types, NEW m \in {"hook", "skip"}, NEW h \in HookOrNone
    PROVE  /\ HookOp(m, h) \in OpRecord
           /\ HookOp(m, h).name = m /\ HookOp(m, h).hook = h
           /\ HookOp(m, h).config = w.config
           /\ HookOp(m, h).at = "none" /\ HookOp(m, h).step = "done"
<1>1. w.ver \in Nat /\ w.config \in Nat
  BY FieldTypes
<1>2. m \in OpNames \union OutcomeNames
  BY DEF OpNames
<1>3. HookOp(m, h) \in OpRecord
  BY <1>1, <1>2, NoOpType DEF HookOp, OpRecord
<1>4. /\ HookOp(m, h).name = m /\ HookOp(m, h).hook = h
      /\ HookOp(m, h).config = w.config
      /\ HookOp(m, h).at = "none" /\ HookOp(m, h).step = "done"
  BY DEF HookOp, NoOp
<1> QED
  BY <1>3, <1>4

\* A hook that fits the state.
LEMMA HookFitsNext ==
    ASSUME Asked, NEW h \in Hooks, HookFits(h),
           st.hook \in {"none", "install", h} \/ h = "start",
           h \in {"upgrade-charm", "leader-elected"} =>
               st.kind = "runHook" /\ st.hook = h
    PROVE  NextFits(HookOp("hook", h)) /\ HookOp("hook", h).name = "hook"
<1>1. h \in HookOrNone /\ Types
  BY DEF HookOrNone, Asked
<1>2. w.config <= ctl.config
  BY DEF Asked, ConfigInv
<1> QED
  BY <1>1, <1>2, HookOpFields DEF NextFits

\* The recorded hook, taken as done.
LEMMA SkipFitsNext ==
    ASSUME Asked, st.hook # "none", st.kind \in {"runHook", "runAction"}
    PROVE  NextFits(HookOp("skip", st.hook)) /\ HookOp("skip", st.hook).name = "skip"
<1>1. st.hook \in HookOrNone /\ Types
  BY FieldTypes DEF Asked
<1>2. w.config <= ctl.config
  BY DEF Asked, ConfigInv
<1> QED
  BY <1>1, <1>2, HookOpFields DEF NextFits

\* A hook or a skip that clears the unit's resolved mode as well.
LEMMA ClearingFits ==
    ASSUME NEW o, NextFits(o)
    PROVE  NextFits(Clearing(o)) /\ Clearing(o).name = o.name
<1>1. /\ Clearing(o) \in OpRecord
      /\ Clearing(o).name = o.name /\ Clearing(o).hook = o.hook
      /\ Clearing(o).action = o.action /\ Clearing(o).charm = o.charm
      /\ Clearing(o).config = o.config
      /\ Clearing(o).at = o.at /\ Clearing(o).step = o.step
  BY DEF NextFits, Clearing, OpRecord
<1> QED
  BY <1>1 DEF NextFits

\* The fields of an upgrade.
LEMMA UpgradeOpFields ==
    ASSUME Types, NEW c \in Nat
    PROVE  /\ UpgradeOp(c) \in OpRecord
           /\ UpgradeOp(c).name = "upgrade" /\ UpgradeOp(c).charm = c
           /\ UpgradeOp(c).config = 0
           /\ UpgradeOp(c).at = "none" /\ UpgradeOp(c).step = "done"
<1>1. w.ver \in Nat
  BY FieldTypes
<1>2. "upgrade" \in OpNames \union OutcomeNames
  BY DEF OpNames
<1>3. UpgradeOp(c) \in OpRecord
  BY <1>1, <1>2, NoOpType DEF UpgradeOp, OpRecord
<1>4. /\ UpgradeOp(c).name = "upgrade" /\ UpgradeOp(c).charm = c
      /\ UpgradeOp(c).config = 0
      /\ UpgradeOp(c).at = "none" /\ UpgradeOp(c).step = "done"
  BY DEF UpgradeOp, NoOp
<1> QED
  BY <1>3, <1>4

\* An upgrade to a charm.
LEMMA UpgradeFitsNext ==
    ASSUME Asked, NEW c \in Nat \ {0}, st.kind \notin {"runAction", "install"},
           st.installed \/ InterruptedHook # "none"
    PROVE  NextFits(UpgradeOp(c)) /\ UpgradeOp(c).name = "upgrade"
<1>1. Types /\ ctl.config \in Nat
  BY FieldTypes DEF Asked
<1> QED
  BY <1>1, UpgradeOpFields DEF NextFits

\* A task to run, or to fail.
LEMMA ActionFitsNext ==
    ASSUME Asked, NEW m \in {"action", "fail"}, NEW id \in Actions,
           m = "action" => Available(id),
           st.kind \in {"runHook", "runAction", "continue"},
           st.kind = "runAction" =>
               /\ st.hook = "none"
               /\ m = "action" \/ st.step = "pending" => id = st.action
    PROVE  NextFits(ActionOp(m, id)) /\ ActionOp(m, id).name = m
<1>1. ctl.config \in Nat
  BY FieldTypes DEF Asked
<1>2. m \in OpNames \union OutcomeNames
  BY DEF OpNames
<1>3. ActionOp(m, id) \in OpRecord
  BY <1>2, NoOpType DEF ActionOp, OpRecord
<1>4. /\ ActionOp(m, id).name = m /\ ActionOp(m, id).action = id
      /\ ActionOp(m, id).config = 0
      /\ ActionOp(m, id).at = "none" /\ ActionOp(m, id).step = "done"
  BY DEF ActionOp, NoOp
<1> QED
  BY <1>1, <1>3, <1>4 DEF NextFits

-----------------------------------------------------------------------------
(* What each resolver returns.                                             *)

\* A resolver's answer: an operation that fits the state, or none.
Answer(o) == NextFits(o) /\ (o.name = "none" => o = NoOp)

\* A condition on an answer gives an answer.
LEMMA WhenAnswer ==
    ASSUME Asked, NEW c \in BOOLEAN, NEW o, c => Answer(o)
    PROVE  Answer(When(c, o))
BY NoOpFits DEF Answer, When

\* And so does the choice of the first of two.
LEMMA OrAnswer ==
    ASSUME NEW a, NEW b, Answer(a), a.name = "none" => Answer(b)
    PROVE  Answer(Or(a, b))
BY DEF Answer, Or

\* The operations that are made are answers.
LEMMA MadeAnswers ==
    ASSUME Asked
    PROVE  /\ \A m \in {"resign", "wait", "restart", "dead", "error"} :
                  Answer(Outcome(m))
           /\ Answer(NoOp)
           /\ \A o : Answer(o) /\ o.name # "none" => Answer(Clearing(o))
<1>1. ASSUME NEW m \in {"resign", "wait", "restart", "dead", "error"}
      PROVE  Answer(Outcome(m))
  BY OutcomeFits DEF Answer
<1>2. Answer(NoOp)
  BY NoOpFits DEF Answer
<1>3. ASSUME NEW o, Answer(o), o.name # "none" PROVE Answer(Clearing(o))
  BY <1>3, ClearingFits DEF Answer
<1> QED
  BY <1>1, <1>2, <1>3

\* The agent accepts the leadership of its application.
LEMMA AcceptAnswer ==
    ASSUME Asked, st.installed, st.kind = "continue"
    PROVE  Answer(Outcome("accept")) /\ Outcome("accept").name = "accept"
<1>1. "accept" \in OpNames \union OutcomeNames
  BY DEF OpNames
<1>2. Outcome("accept") \in OpRecord
  BY <1>1, NoOpType DEF Outcome, OpRecord
<1>3. /\ Outcome("accept").name = "accept" /\ Outcome("accept").at = "none"
      /\ Outcome("accept").step = "done" /\ Outcome("accept").config = 0
  BY DEF Outcome, NoOp
<1>4. ctl.config \in Nat
  BY FieldTypes DEF Asked
<1> QED
  BY <1>2, <1>3, <1>4 DEF NextFits, Answer

\* The start hook after a reboot.
LEMMA RebootAnswer ==
    ASSUME Asked
    PROVE  Answer(RebootOp)
<1>1. ASSUME st.started PROVE Answer(HookOp("hook", "start"))
  <2>1. st.installed
    BY <1>1 DEF Asked, StateInv
  <2>2. "start" \in Hooks /\ HookFits("start")
    BY <2>1 DEF Hooks, HookFits
  <2>3. NextFits(HookOp("hook", "start")) /\ HookOp("hook", "start").name = "hook"
    BY <2>2, HookFitsNext
  <2> QED
    BY <2>3 DEF Answer
<1>2. (reboot /\ st.started /\ st.kind # "runHook") \in BOOLEAN
  OBVIOUS
<1> QED
  BY <1>1, <1>2, WhenAnswer DEF RebootOp

\* An upgrade under way.
LEMMA UpgradingAnswer ==
    ASSUME Asked
    PROVE  Answer(UpgradingOp)
<1> DEFINE a == When(~loc.conflicted, UpgradeOp(w.charm))
           b == When(w.resolved # "none", Clearing(UpgradeOp(loc.charm)))
           c == When(w.force /\ CharmModified, UpgradeOp(w.charm))
           d == Outcome("wait")
<1>1. ASSUME st.kind = "upgrade"
      PROVE  Answer(FirstOp(<<a, b, c, d>>))
  <2>1. w.charm \in Nat \ {0} /\ loc.charm \in Nat \ {0}
    BY FieldTypes DEF Asked, PhaseInv
  <2>2. st.installed \/ InterruptedHook # "none"
    BY <1>1 DEF Asked, StateInv, InterruptedHook
  <2>3. /\ Answer(UpgradeOp(w.charm)) /\ Answer(UpgradeOp(loc.charm))
        /\ UpgradeOp(loc.charm).name # "none"
    BY <1>1, <2>1, <2>2, UpgradeFitsNext DEF Answer
  <2>4. Answer(Clearing(UpgradeOp(loc.charm)))
    BY <2>3, MadeAnswers
  <2>5. Answer(a)
    BY <2>3, WhenAnswer
  <2>6. Answer(b)
    BY <2>4, WhenAnswer
  <2>7. Answer(c)
    BY <2>3, WhenAnswer
  <2>8. Answer(d)
    BY MadeAnswers
  <2> HIDE DEF a, b, c, d
  <2>9. Answer(Or(a, Or(b, Or(c, d))))
    BY <2>5, <2>6, <2>7, <2>8, OrAnswer
  <2>10. FirstOp(<<a, b, c, d>>) = Or(a, Or(b, Or(c, d)))
    BY <2>8, FirstOfFour DEF Answer
  <2> QED
    BY <2>9, <2>10
<1>2. (st.kind = "upgrade") \in BOOLEAN
  OBVIOUS
<1>3. UpgradingOp = When(st.kind = "upgrade", FirstOp(<<a, b, c, d>>))
  BY DEF UpgradingOp
<1> HIDE DEF a, b, c, d
<1> QED
  BY <1>1, <1>2, <1>3, WhenAnswer

\* Leadership.
LEMMA LeadershipAnswer ==
    ASSUME Asked
    PROVE  Answer(LeadershipOp)
<1> DEFINE p == w.leader /\ ~st.leader /\ w.life # "dying" /\ st.kind = "continue"
           q == st.leader /\ (~w.leader \/ w.life = "dying")
           a == When(p, Outcome("accept"))
           b == When(q, Outcome("resign"))
<1>1. ASSUME st.installed PROVE Answer(FirstOp(<<a, b>>))
  <2>1. p => Answer(Outcome("accept"))
    BY <1>1, AcceptAnswer
  <2>2. Answer(a)
    BY <2>1, WhenAnswer
  <2>3. Answer(Outcome("resign"))
    BY MadeAnswers
  <2>4. Answer(b)
    BY <2>3, WhenAnswer
  <2> HIDE DEF a, b
  <2>5. Answer(Or(a, b))
    BY <2>2, <2>4, OrAnswer
  <2>6. FirstOp(<<a, b>>) = Or(a, b)
    BY <2>4, FirstOfTwo DEF Answer
  <2> QED
    BY <2>5, <2>6
<1>2. st.installed \in BOOLEAN
  BY DEF Asked, Types, StateRecord
<1>3. LeadershipOp = When(st.installed, FirstOp(<<a, b>>))
  BY DEF LeadershipOp
<1> HIDE DEF a, b
<1> QED
  BY <1>1, <1>2, <1>3, WhenAnswer

(* The operation for a task, when it is the turn of task id and the next   *)
(* one in the queue is next: the local definition of ActionsOp.             *)
NewAction(id, next) ==
    IF Available(id) THEN ActionOp("action", id)
    ELSE FirstOp(<<When(st.step = "pending" /\ st.action # 0,
                        ActionOp("fail", st.action)),
                   When(next # 0, ActionOp("fail", next))>>)

\* A task that cannot be fetched is failed, and no other one is passed over.
LEMMA NewActionAnswer ==
    ASSUME Asked, NEW id \in Actions, NEW next \in Actions \union {0},
           st.kind \in {"runHook", "runAction", "continue"},
           st.kind = "runAction" => st.hook = "none" /\ id = st.action
    PROVE  Answer(NewAction(id, next))
<1>1. CASE Available(id)
  <2>1. NextFits(ActionOp("action", id)) /\ ActionOp("action", id).name = "action"
    BY <1>1, ActionFitsNext
  <2> QED
    BY <1>1, <2>1 DEF Answer, NewAction
<1>2. CASE ~Available(id)
  <2> DEFINE a == When(st.step = "pending" /\ st.action # 0,
                       ActionOp("fail", st.action))
             b == When(next # 0, ActionOp("fail", next))
  <2>1. ASSUME st.action # 0 PROVE Answer(ActionOp("fail", st.action))
    <3>1. st.action \in Actions
      BY <2>1, FieldTypes DEF Asked
    <3>2. /\ NextFits(ActionOp("fail", st.action))
          /\ ActionOp("fail", st.action).name = "fail"
      BY <3>1, ActionFitsNext
    <3> QED
      BY <3>2 DEF Answer
  <2>2. Answer(a)
    BY <2>1, WhenAnswer
  <2>3. ASSUME a.name = "none" PROVE Answer(b)
    <3>1. ASSUME next # 0 PROVE Answer(ActionOp("fail", next))
      <4>1. st.kind = "runAction" => st.action # 0 /\ st.action \in Actions
        BY FieldTypes DEF Asked, StateInv, Valid
      <4>2. ASSUME st.kind = "runAction" PROVE st.step # "pending"
        <5>1. st.action # 0 /\ st.action \in Actions
          BY <4>1, <4>2
        <5>2. ActionOp("fail", st.action).name = "fail"
          BY DEF ActionOp, NoOp
        <5> QED
          BY <2>3, <5>1, <5>2 DEF When
      <4>3. next \in Actions
        BY <3>1
      <4>4. /\ NextFits(ActionOp("fail", next))
            /\ ActionOp("fail", next).name = "fail"
        BY <4>2, <4>3, ActionFitsNext
      <4> QED
        BY <4>4 DEF Answer
    <3> QED
      BY <3>1, WhenAnswer
  <2>4. b.name = "none" => b = NoOp
    <3>1. ActionOp("fail", next).name = "fail"
      BY DEF ActionOp, NoOp
    <3> QED
      BY <3>1 DEF When
  <2>5. NewAction(id, next) = FirstOp(<<a, b>>)
    BY <1>2 DEF NewAction
  <2> HIDE DEF a, b
  <2>6. FirstOp(<<a, b>>) = Or(a, b)
    BY <2>4, FirstOfTwo
  <2>7. Answer(Or(a, b))
    BY <2>2, <2>3, OrAnswer
  <2> QED
    BY <2>5, <2>6, <2>7
<1> QED
  BY <1>1, <1>2

\* The task at the head of the watcher's queue.
NextTask == IF w.acts = <<>> THEN 0 ELSE Head(w.acts)

\* It is a task, if there is one.
LEMMA NextTaskType ==
    ASSUME Types
    PROVE  NextTask \in Actions \union {0}
<1>1. w.acts \in Seq(Actions)
  BY FieldTypes
<1> QED
  BY <1>1 DEF NextTask

\* Tasks.
LEMMA ActionsAnswer ==
    ASSUME Asked
    PROVE  Answer(ActionsOp)
<1>0. ActionsOp =
        CASE st.kind = "runHook" /\ st.step = "pending" /\ NextTask # 0 ->
                 NewAction(NextTask, NextTask)
          [] st.kind = "runAction" /\ st.hook # "none" ->
                 HookOp("skip", st.hook)
          [] st.kind = "runAction" /\ st.hook = "none" ->
                 IF NextTask = st.action THEN ActionOp("fail", st.action)
                 ELSE NewAction(st.action, NextTask)
          [] st.kind = "continue" /\ NextTask # 0 ->
                 NewAction(NextTask, NextTask)
          [] OTHER -> NoOp
  BY DEF ActionsOp, NewAction, NextTask
<1>1. NextTask \in Actions \union {0}
  BY NextTaskType DEF Asked
<1>2. CASE st.kind \in {"runHook", "continue"} /\ NextTask # 0
  <2>1. Answer(NewAction(NextTask, NextTask))
    BY <1>1, <1>2, NewActionAnswer
  <2> QED
    BY <1>0, <1>2, <2>1, MadeAnswers
<1>3. CASE st.kind = "runAction" /\ st.hook # "none"
  <2>1. Answer(HookOp("skip", st.hook))
    BY <1>3, SkipFitsNext DEF Answer
  <2> QED
    BY <1>0, <1>3, <2>1
<1>4. CASE st.kind = "runAction" /\ st.hook = "none"
  <2>1. st.action \in Actions
    BY <1>4, FieldTypes DEF Asked, StateInv, Valid
  <2>2. Answer(NewAction(st.action, NextTask))
    BY <1>1, <1>4, <2>1, NewActionAnswer
  <2>3. /\ NextFits(ActionOp("fail", st.action))
        /\ ActionOp("fail", st.action).name = "fail"
    BY <1>4, <2>1, ActionFitsNext
  <2> QED
    BY <1>0, <1>4, <2>2, <2>3 DEF Answer
<1>5. CASE ~(st.kind \in {"runHook", "continue"} /\ NextTask # 0)
           /\ st.kind # "runAction"
  BY <1>0, <1>5, MadeAnswers
<1> QED
  BY <1>2, <1>3, <1>4, <1>5

\* A hook in error is run again, skipped, or left for an upgrade.
LEMMA HookErrorAnswer ==
    ASSUME Asked, st.kind = "runHook"
    PROVE  Answer(HookErrorOp)
<1>1. st.hook \in Hooks /\ HookFits(st.hook)
  BY FieldTypes DEF Asked, StateInv, Valid, HookOrNone
<1>2. /\ NextFits(HookOp("hook", st.hook))
      /\ HookOp("hook", st.hook).name = "hook"
  BY <1>1, HookFitsNext
<1>3. /\ NextFits(HookOp("skip", st.hook))
      /\ HookOp("skip", st.hook).name = "skip"
  BY <1>1, SkipFitsNext DEF Hooks
<1>4. /\ Answer(Clearing(HookOp("hook", st.hook)))
      /\ Answer(Clearing(HookOp("skip", st.hook)))
  BY <1>2, <1>3, MadeAnswers DEF Answer
<1>5. Answer(UpgradeOp(w.charm))
  <2>1. w.charm \in Nat \ {0}
    BY FieldTypes DEF Asked, PhaseInv
  <2>2. InterruptedHook # "none"
    BY <1>1 DEF InterruptedHook, Hooks
  <2>3. NextFits(UpgradeOp(w.charm)) /\ UpgradeOp(w.charm).name = "upgrade"
    BY <2>1, <2>2, UpgradeFitsNext
  <2> QED
    BY <2>3 DEF Answer
<1>6. Answer(RetryOp)
  BY <1>2, WhenAnswer DEF RetryOp, Answer, Asked, Types, LocalRecord
<1>7. w.resolved \in {"none", "retry-hooks", "no-hooks"}
  BY FieldTypes DEF Asked, Resolutions
<1> QED
  BY <1>4, <1>5, <1>6, <1>7 DEF HookErrorOp

\* No hook is recorded but install.
NothingDue ==
    st.hook \in {"none", "install"} /\ st.kind \in {"continue", "runHook"}
    /\ (st.kind = "runHook" => st.hook = "install")

\* A unit that is dying is stopped before it is removed.
LEMMA DyingAnswer ==
    ASSUME Asked, NothingDue
    PROVE  Answer(DyingOp)
<1> DEFINE p == st.started /\ ~st.stopped
           q == st.installed /\ ~st.removed
           a == When(p, HookOp("hook", "stop"))
           b == When(q, HookOp("hook", "remove"))
           c == Outcome("dead")
<1>0. Types /\ StateInv
  BY DEF Asked
<1>1. ASSUME p PROVE Answer(HookOp("hook", "stop"))
  <2>1. "stop" \in Hooks /\ HookFits("stop")
    BY <1>0, <1>1 DEF Hooks, HookFits, StateInv
  <2>2. /\ NextFits(HookOp("hook", "stop"))
        /\ HookOp("hook", "stop").name = "hook"
    BY <2>1, HookFitsNext DEF NothingDue
  <2> QED
    BY <2>2 DEF Answer
<1>2. Answer(a)
  BY <1>1, WhenAnswer
<1>3. ASSUME a.name = "none", q PROVE Answer(HookOp("hook", "remove"))
  <2>1. HookOp("hook", "stop").name = "hook"
    BY DEF HookOp, NoOp
  <2>2. ~p
    BY <1>3, <2>1 DEF When
  <2>3. ~up \/ "start" \in lost
    BY <1>0, <2>2 DEF StateInv, NothingDue
  <2>4. "remove" \in Hooks /\ HookFits("remove")
    BY <1>3, <2>3 DEF Hooks, HookFits
  <2>5. /\ NextFits(HookOp("hook", "remove"))
        /\ HookOp("hook", "remove").name = "hook"
    BY <2>4, HookFitsNext DEF NothingDue
  <2> QED
    BY <2>5 DEF Answer
<1>4. ASSUME a.name = "none" PROVE Answer(b)
  BY <1>3, <1>4, WhenAnswer
<1>5. Answer(c)
  BY MadeAnswers
<1>6. DyingOp = FirstOp(<<a, b, c>>)
  BY DEF DyingOp
<1> HIDE DEF a, b, c
<1>7. FirstOp(<<a, b, c>>) = Or(a, Or(b, c))
  BY <1>5, FirstOfThree DEF Answer
<1>8. a.name = "none" => Answer(Or(b, c))
  BY <1>4, <1>5, OrAnswer
<1>9. Answer(Or(a, Or(b, c)))
  BY <1>2, <1>8, OrAnswer
<1> QED
  BY <1>6, <1>7, <1>9

\* A unit that is alive is installed, then upgraded and configured.
LEMMA AliveAnswer ==
    ASSUME Asked, NothingDue
    PROVE  Answer(AliveOp)
<1> DEFINE p == ~st.installed /\ ~st.started
           q == st.config # w.config
           a == When(p, HookOp("hook", "install"))
           b == When(CharmModified, UpgradeOp(w.charm))
           c == When(q, HookOp("hook", "config-changed"))
<1>0. Types /\ StateInv
  BY DEF Asked
<1>1. ASSUME p PROVE Answer(HookOp("hook", "install"))
  <2>1. "install" \in Hooks /\ HookFits("install")
    BY <1>1 DEF Hooks, HookFits
  <2>2. /\ NextFits(HookOp("hook", "install"))
        /\ HookOp("hook", "install").name = "hook"
    BY <2>1, HookFitsNext DEF NothingDue
  <2> QED
    BY <2>2 DEF Answer
<1>2. Answer(a)
  BY <1>1, WhenAnswer
<1>3. ASSUME a.name = "none" PROVE st.installed
  <2>1. HookOp("hook", "install").name = "hook"
    BY DEF HookOp, NoOp
  <2>2. ~p
    BY <1>3, <2>1 DEF When
  <2> QED
    BY <1>0, <2>2 DEF StateInv
<1>4. ASSUME st.installed PROVE Answer(UpgradeOp(w.charm))
  <2>1. w.charm \in Nat \ {0}
    BY <1>0, FieldTypes DEF Asked, PhaseInv
  <2>2. NextFits(UpgradeOp(w.charm)) /\ UpgradeOp(w.charm).name = "upgrade"
    BY <1>4, <2>1, UpgradeFitsNext DEF NothingDue
  <2> QED
    BY <2>2 DEF Answer
<1>5. ASSUME st.installed PROVE Answer(HookOp("hook", "config-changed"))
  <2>1. "config-changed" \in Hooks /\ HookFits("config-changed")
    BY <1>5 DEF Hooks, HookFits
  <2>2. /\ NextFits(HookOp("hook", "config-changed"))
        /\ HookOp("hook", "config-changed").name = "hook"
    BY <2>1, HookFitsNext DEF NothingDue
  <2> QED
    BY <2>2 DEF Answer
<1>6. CharmModified \in BOOLEAN /\ q \in BOOLEAN
  BY DEF CharmModified
<1>7. ASSUME a.name = "none" PROVE Answer(b) /\ Answer(c)
  BY <1>3, <1>4, <1>5, <1>6, <1>7, WhenAnswer
<1>8. c.name = "none" => c = NoOp
  <2>1. HookOp("hook", "config-changed").name = "hook"
    BY DEF HookOp, NoOp
  <2> QED
    BY <2>1 DEF When
<1>9. AliveOp = FirstOp(<<a, b, c>>)
  BY DEF AliveOp
<1> HIDE DEF a, b, c
<1>10. FirstOp(<<a, b, c>>) = Or(a, Or(b, c))
  BY <1>8, FirstOfThree
<1>11. a.name = "none" => Answer(Or(b, c))
  BY <1>7, OrAnswer
<1>12. Answer(Or(a, Or(b, c)))
  BY <1>2, <1>11, OrAnswer
<1> QED
  BY <1>9, <1>10, <1>12

\* What is left to the uniter's own resolver.
LEMMA StateAnswer ==
    ASSUME Asked
    PROVE  Answer(StateOp)
<1>0. Types /\ StateInv /\ st.kind \in Kinds
  BY FieldTypes DEF Asked
<1>1. NothingDue => Answer(IdleOp)
  BY DyingAnswer, AliveAnswer DEF IdleOp
<1>2. CASE st.kind = "continue"
  BY <1>0, <1>1, <1>2 DEF StateOp, NothingDue, StateInv, Valid
<1>3. CASE st.kind = "runHook"
  <2>1. st.hook \in Hooks /\ HookFits(st.hook)
    BY <1>0, <1>3, FieldTypes DEF StateInv, Valid, HookOrNone
  <2>2. /\ NextFits(HookOp("hook", st.hook))
        /\ HookOp("hook", st.hook).name = "hook"
    BY <1>3, <2>1, HookFitsNext
  <2>3. /\ NextFits(HookOp("skip", st.hook))
        /\ HookOp("skip", st.hook).name = "skip"
    BY <1>3, <2>1, SkipFitsNext DEF Hooks
  <2>4. Answer(HookErrorOp)
    BY <1>3, HookErrorAnswer
  <2>5. HookProgress \in {"queued", "pending", "done"}
    BY <1>0, FieldTypes DEF HookProgress, Progress
  <2>6. CASE HookProgress = "pending"
    BY <1>3, <2>4, <2>6 DEF StateOp, HookStateOp
  <2>7. CASE HookProgress = "done"
    BY <1>3, <2>3, <2>7 DEF StateOp, HookStateOp, Answer
  <2>8. CASE HookProgress = "queued"
    <3>1. StateOp = IF st.hook = "install" THEN IdleOp ELSE HookOp("hook", st.hook)
      BY <1>3, <2>8 DEF StateOp, HookStateOp
    <3>2. st.hook = "install" => NothingDue
      BY <1>3 DEF NothingDue
    <3> QED
      BY <1>1, <2>2, <3>1, <3>2 DEF Answer
  <2> QED
    BY <2>5, <2>6, <2>7, <2>8
<1>4. CASE st.kind \notin {"continue", "runHook"}
  BY <1>4, MadeAnswers DEF StateOp
<1> QED
  BY <1>2, <1>3, <1>4

\* Every operation that the resolvers return fits the state they return it for.
LEMMA NextAnswer ==
    ASSUME Asked
    PROVE  Answer(NextOp)
<1>1. Answer(Outcome("dead")) /\ Answer(Outcome("restart"))
  BY MadeAnswers
<1>2. Answer(RestartOp)
  BY <1>1, WhenAnswer DEF RestartOp, Asked, Types, LocalRecord
<1>3. /\ Answer(RebootOp) /\ Answer(UpgradingOp) /\ Answer(LeadershipOp)
      /\ Answer(ActionsOp) /\ Answer(StateOp)
  BY RebootAnswer, UpgradingAnswer, LeadershipAnswer, ActionsAnswer, StateAnswer
<1> DEFINE chain == <<RebootOp, UpgradingOp, RestartOp, LeadershipOp, ActionsOp,
                      StateOp>>
<1>4. FirstOp(chain) =
        Or(RebootOp, Or(UpgradingOp, Or(RestartOp, Or(LeadershipOp,
           Or(ActionsOp, StateOp)))))
  BY <1>3, FirstOfSix DEF Answer
<1>5. Answer(FirstOp(chain))
  <2>1. Answer(Or(ActionsOp, StateOp))
    BY <1>3, OrAnswer
  <2>2. Answer(Or(LeadershipOp, Or(ActionsOp, StateOp)))
    BY <1>3, <2>1, OrAnswer
  <2>3. Answer(Or(RestartOp, Or(LeadershipOp, Or(ActionsOp, StateOp))))
    BY <1>2, <2>2, OrAnswer
  <2>4. Answer(Or(UpgradingOp, Or(RestartOp, Or(LeadershipOp,
                  Or(ActionsOp, StateOp)))))
    BY <1>3, <2>3, OrAnswer
  <2>5. Answer(Or(RebootOp, Or(UpgradingOp, Or(RestartOp, Or(LeadershipOp,
                  Or(ActionsOp, StateOp))))))
    BY <1>3, <2>4, OrAnswer
  <2> QED
    BY <1>4, <2>5
<1>6. NextOp = IF w.life = "dead" \/ st.removed THEN Outcome("dead")
               ELSE FirstOp(chain)
  BY DEF NextOp
<1> HIDE DEF chain
<1> QED
  BY <1>1, <1>5, <1>6

-----------------------------------------------------------------------------
(* Each action preserves the invariant.                                    *)

\* An operation that moves on.
LEMMA OpMoves ==
    ASSUME Types, NEW x \in Places, NEW o, o = [op EXCEPT !.at = x]
    PROVE  /\ o \in OpRecord /\ o.at = x
           /\ o.name = op.name /\ o.hook = op.hook /\ o.action = op.action
           /\ o.charm = op.charm /\ o.config = op.config /\ o.step = op.step
BY DEF Types, OpRecord

\* The fields of no operation.
LEMMA NoOpFields ==
    /\ NoOp \in OpRecord /\ NoOp.name = "none" /\ NoOp.at = "none"
    /\ NoOp.step = "done" /\ NoOp.config = 0 /\ NoOp.hook = "none"
BY NoOpType DEF NoOp

\* A new state: six of its fields are given, the others kept.
LEMMA ApplyFields ==
    ASSUME Types, NEW k \in Kinds, NEW p \in Progress, NEW h \in HookOrNone,
           NEW q \in Progress \union {"none"}, NEW a \in Actions \union {0},
           NEW c \in Nat, NEW s, s = Apply(k, p, h, q, a, c)
    PROVE  /\ s \in StateRecord
           /\ s.kind = k /\ s.step = p /\ s.hook = h /\ s.hookStep = q
           /\ s.action = a /\ s.charm = c /\ s.leader = st.leader
           /\ s.started = st.started /\ s.stopped = st.stopped
           /\ s.installed = st.installed /\ s.removed = st.removed
           /\ s.config = st.config
BY DEF Types, StateRecord, Apply

\* What the parts of the invariant depend on.
LEMMA StateFrame ==
    ASSUME StateInv, UNCHANGED <<st, saved, up>>, lost \subseteq lost'
    PROVE  StateInv'
<1>1. HookFits(st.hook)'
  BY DEF StateInv, HookFits
<1>2. Valid(st)'
  BY DEF StateInv, Valid
<1> QED
  BY <1>1, <1>2 DEF StateInv

\* The phase looks at the charms of the snapshot and of the agent only.
LEMMA PhaseFrame ==
    ASSUME PhaseInv, UNCHANGED <<phase, op, st>>,
           loc'.charm = loc.charm, w'.charm = w.charm
    PROVE  PhaseInv'
BY DEF PhaseInv

\* The operation.
LEMMA OpFrame ==
    ASSUME OpInv, UNCHANGED <<op, st, up>>, lost \subseteq lost'
    PROVE  OpInv'
<1>1. HookOpInv'
  BY DEF OpInv, HookOpInv, HookFits
<1>2. SkipOpInv'
  BY DEF OpInv, SkipOpInv
<1>3. DeployOpInv'
  BY DEF OpInv, DeployOpInv, InterruptedHook
<1>4. ActionOpInv'
  BY DEF OpInv, ActionOpInv
<1>5. OpInv
  OBVIOUS
<1> QED
  BY <1>1, <1>2, <1>3, <1>4, <1>5 DEF OpInv

\* The gate.
LEMMA GateFrame ==
    ASSUME GateInv, UNCHANGED <<phase, op, gate, st>>
    PROVE  GateInv'
BY DEF GateInv, CharmDirAvailable

\* The tasks.
LEMMA RunFrame ==
    ASSUME \A a \in Actions : RunInv(a), UNCHANGED <<acts, ran, op, st>>,
           lost \subseteq lost'
    PROVE  \A a \in Actions : RunInv(a)'
BY DEF RunInv

\* The charm.
LEMMA CharmFrame ==
    ASSUME "charm" \in lost \/ CharmInv, UNCHANGED <<unitCharm, dir, op, st, phase>>,
           loc'.charm = loc.charm, lost \subseteq lost'
    PROVE  ("charm" \in lost \/ CharmInv)'
BY DEF CharmInv, Told

\* The operator destroys the unit.
LEMMA DestroyKeeps ==
    ASSUME IInv, Destroy
    PROVE  IInv'
<1>1. Types'
  BY DEF IInv, Destroy, Types, UnitRecord, Lives
<1>2. ctl'.config = ctl.config
  BY DEF IInv, Destroy, Types, UnitRecord
<1>3. StateInv' /\ PhaseInv' /\ OpInv' /\ GateInv'
  BY StateFrame, PhaseFrame, OpFrame, GateFrame DEF IInv, Destroy
<1>4. \A a \in Actions : RunInv(a)'
  BY DEF IInv, Destroy, RunInv
<1>5. ConfigInv'
  BY <1>2 DEF IInv, Destroy, ConfigInv
<1>6. ("charm" \in lost \/ CharmInv)'
  BY DEF IInv, Destroy, CharmInv, Told
<1> QED
  BY <1>1, <1>3, <1>4, <1>5, <1>6 DEF IInv

\* The unit is set to dead.
LEMMA TerminateKeeps ==
    ASSUME IInv, Terminate
    PROVE  IInv'
<1>1. Types'
  BY DEF IInv, Terminate, Types, UnitRecord, Lives
<1>2. ctl'.config = ctl.config
  BY DEF IInv, Terminate, Types, UnitRecord
<1>3. StateInv' /\ OpInv'
  BY StateFrame, OpFrame DEF IInv, Terminate
<1>7. PhaseInv' /\ GateInv'
  BY DEF IInv, Terminate, PhaseInv, GateInv
<1>4. \A a \in Actions : RunInv(a)'
  BY DEF IInv, Terminate, RunInv
<1>5. ConfigInv'
  BY <1>2 DEF IInv, Terminate, ConfigInv
<1>6. ("charm" \in lost \/ CharmInv)'
  BY DEF IInv, Terminate, CharmInv, Told
<1> QED
  BY <1>1, <1>3, <1>4, <1>5, <1>6, <1>7 DEF IInv

\* The retry timer of a failed hook fires.
LEMMA RetryTimerKeeps ==
    ASSUME IInv, RetryTimer
    PROVE  IInv'
<1>1. Types' /\ loc'.charm = loc.charm
  BY DEF IInv, RetryTimer, Types, LocalRecord
<1>3. StateInv' /\ PhaseInv' /\ OpInv' /\ GateInv'
  BY <1>1, StateFrame, PhaseFrame, OpFrame, GateFrame DEF IInv, RetryTimer
<1>4. \A a \in Actions : RunInv(a)'
  BY DEF IInv, RetryTimer, RunInv
<1>5. ConfigInv'
  BY DEF IInv, RetryTimer, ConfigInv
<1>6. ("charm" \in lost \/ CharmInv)'
  BY <1>1 DEF IInv, RetryTimer, CharmInv, Told
<1> QED
  BY <1>1, <1>3, <1>4, <1>5, <1>6 DEF IInv

\* The operator changes the unit's application, or enqueues a task.
LEMMA ChangeKeeps ==
    ASSUME IInv, Change
    PROVE  IInv'
<1>0. ctl \in UnitRecord /\ acts \in [Actions -> {"none", "pending", "running",
                                                  "completed", "failed", "error"}]
  BY DEF IInv, Types
<1>1. /\ ctl' \in UnitRecord /\ ctl.config \in Nat /\ ctl'.config \in Nat
      /\ ctl.config <= ctl'.config
  <2>1. ctl.config \in Nat /\ ctl.charm \in Nat \ {0} /\ ctl.ver \in Nat
        /\ ctl.config + 1 \in Nat /\ ctl.charm + 1 \in Nat \ {0}
        /\ ctl.ver + 1 \in Nat /\ ctl.config <= ctl.config + 1
        /\ ctl.config <= ctl.config
    BY <1>0 DEF UnitRecord
  <2>2. ASSUME ctl' = [ctl EXCEPT !.config = ctl.config + 1]
        PROVE  ctl' \in UnitRecord /\ ctl'.config = ctl.config + 1
    BY <1>0, <2>1, <2>2 DEF UnitRecord
  <2>3. ASSUME NEW force \in BOOLEAN,
               ctl' = [ctl EXCEPT !.charm = ctl.charm + 1, !.ver = ctl.ver + 1,
                                  !.force = force]
        PROVE  ctl' \in UnitRecord /\ ctl'.config = ctl.config
    BY <1>0, <2>1, <2>3 DEF UnitRecord
  <2>4. ASSUME ctl' = [ctl EXCEPT !.leader = ~ctl.leader]
        PROVE  ctl' \in UnitRecord /\ ctl'.config = ctl.config
    BY <1>0, <2>4 DEF UnitRecord
  <2>5. ASSUME NEW mode \in {"retry-hooks", "no-hooks"},
               ctl' = [ctl EXCEPT !.resolved = mode]
        PROVE  ctl' \in UnitRecord /\ ctl'.config = ctl.config
    BY <1>0, <2>5 DEF UnitRecord, Resolutions
  <2>6. ctl' \in UnitRecord /\ ctl'.config \in {ctl.config, ctl.config + 1}
    BY <1>0, <2>2, <2>3, <2>4, <2>5 DEF Change
  <2> QED
    BY <2>1, <2>6
<1>2. /\ acts' \in [Actions -> {"none", "pending", "running", "completed",
                                "failed", "error"}]
      /\ \A a \in Actions : acts'[a] = acts[a]
                            \/ (acts[a] = "none" /\ acts'[a] = "pending")
  BY <1>0 DEF Change
<1>3. Types'
  BY <1>1, <1>2 DEF IInv, Change, Types
<1>4. StateInv' /\ PhaseInv' /\ OpInv' /\ GateInv'
  BY StateFrame, PhaseFrame, OpFrame, GateFrame DEF IInv, Change
<1>5. \A a \in Actions : RunInv(a)'
  <2> SUFFICES ASSUME NEW a \in Actions PROVE RunInv(a)'
    OBVIOUS
  <2>1. RunInv(a)
    BY DEF IInv
  <2> QED
    BY <1>2, <2>1 DEF Change, RunInv
<1>6. ConfigInv'
  <2>1. ConfigInv /\ UNCHANGED <<w, op, st, seen, lost>> /\ Types
    BY DEF IInv, Change
  <2>2. seen \in Nat /\ w.config \in Nat /\ op.config \in Nat
    BY <2>1, FieldTypes DEF Types
  <2> QED
    BY <1>1, <2>1, <2>2 DEF ConfigInv
<1>7. ("charm" \in lost \/ CharmInv)'
  BY DEF IInv, Change, CharmInv, Told
<1> QED
  BY <1>3, <1>4, <1>5, <1>6, <1>7 DEF IInv

\* A source of the watcher reports.
LEMMA WatchKeeps ==
    ASSUME IInv, Watch
    PROVE  IInv'
<1>0. /\ w \in Snapshot /\ ctl \in UnitRecord /\ phase = "loop"
      /\ UNCHANGED <<ctl, unitCharm, acts, st, saved, phase, loc, op, gate,
                     reboot, rebooted, dir, seen, up, ran, lost, n>>
  BY DEF IInv, Types, Watch
<1>1. /\ w' \in Snapshot /\ w'.charm \in {w.charm, ctl.charm}
      /\ w'.config \in {w.config, ctl.config}
  <2>1. CASE w' = [w EXCEPT !.life = ctl.life, !.resolved = ctl.resolved]
    BY <1>0, <2>1 DEF Snapshot, UnitRecord
  <2>2. CASE w' = [w EXCEPT !.charm = ctl.charm, !.ver = ctl.ver,
                            !.force = ctl.force]
    BY <1>0, <2>2 DEF Snapshot, UnitRecord
  <2>3. CASE w' = [w EXCEPT !.config = ctl.config]
    BY <1>0, <2>3 DEF Snapshot, UnitRecord
  <2>4. CASE w' = [w EXCEPT !.leader = ctl.leader]
    BY <1>0, <2>4 DEF Snapshot, UnitRecord
  <2>5. ASSUME NEW a \in Actions, w' = [w EXCEPT !.acts = Append(w.acts, a)]
        PROVE  w' \in Snapshot /\ w'.charm = w.charm /\ w'.config = w.config
    <3>1. w.acts \in Seq(Actions)
      BY <1>0 DEF Snapshot
    <3>2. Append(w.acts, a) \in Seq(Actions)
      BY <3>1
    <3> QED
      BY <1>0, <2>5, <3>2 DEF Snapshot
  <2> QED
    BY <2>1, <2>2, <2>3, <2>4, <2>5 DEF Watch
<1>2. Types'
  BY <1>0, <1>1 DEF IInv, Types
<1>3. ctl.charm # 0 /\ ctl.config \in Nat
  BY <1>0 DEF UnitRecord
<1>4. StateInv' /\ OpInv' /\ GateInv'
  BY <1>0, StateFrame, OpFrame, GateFrame DEF IInv
<1>5. PhaseInv'
  BY <1>0, <1>1, <1>3 DEF IInv, PhaseInv
<1>6. \A a \in Actions : RunInv(a)'
  BY <1>0, RunFrame DEF IInv
<1>7. ConfigInv'
  BY <1>0, <1>1, <1>3 DEF IInv, ConfigInv
<1>8. ("charm" \in lost \/ CharmInv)'
  BY <1>0, CharmFrame DEF IInv
<1> QED
  BY <1>2, <1>4, <1>5, <1>6, <1>7, <1>8 DEF IInv

\* A hook fails.
LEMMA FailHookKeeps ==
    ASSUME IInv, FailHook
    PROVE  IInv'
<1>0. /\ Types /\ StateInv /\ PhaseInv /\ OpInv /\ GateInv /\ ConfigInv
      /\ op' = NoOp /\ phase' = "enter" /\ op.at = "execute" /\ op.name = "hook"
      /\ UNCHANGED <<ctl, unitCharm, acts, st, saved, w, loc, gate, reboot,
                     rebooted, dir, seen, up, ran, lost>>
  BY DEF IInv, FailHook
<1>1. /\ op' \in OpRecord /\ op'.name = "none" /\ op'.at = "none"
      /\ op'.step = "done" /\ op'.config = 0
  BY <1>0, NoOpFields
<1>2. Types'
  BY <1>0, <1>1 DEF Types
<1>3. phase = "loop"
  BY <1>0 DEF PhaseInv, Types
<1>4. StateInv'
  BY <1>0, StateFrame
<1>5. PhaseInv'
  BY <1>0, <1>1, <1>3 DEF PhaseInv
<1>6. OpInv'
  BY <1>0, <1>1 DEF OpInv, HookOpInv, SkipOpInv, DeployOpInv, ActionOpInv, OpNames
<1>7. GateInv'
  BY <1>0, <1>1 DEF GateInv
<1>8. \A a \in Actions : RunInv(a)'
  BY <1>0, <1>1 DEF IInv, RunInv
<1>9. ConfigInv'
  BY <1>0, <1>1, FieldTypes DEF ConfigInv
<1>10. ("charm" \in lost \/ CharmInv)'
  BY <1>0, <1>1, <1>3 DEF IInv, CharmInv, Told
<1> QED
  BY <1>2, <1>4, <1>5, <1>6, <1>7, <1>8, <1>9, <1>10 DEF IInv

\* An upgrade meets a conflict.
LEMMA ConflictDeployKeeps ==
    ASSUME IInv, ConflictDeploy
    PROVE  IInv'
<1>0. /\ Types /\ StateInv /\ PhaseInv /\ OpInv /\ GateInv /\ ConfigInv
      /\ op' = NoOp /\ phase' = "enter" /\ op.at = "execute" /\ op.name = "upgrade"
      /\ loc' = [loc EXCEPT !.conflicted = TRUE]
      /\ UNCHANGED <<ctl, unitCharm, acts, st, saved, w, gate, reboot,
                     rebooted, dir, seen, up, ran, lost>>
  BY DEF IInv, ConflictDeploy
<1>1. /\ op' \in OpRecord /\ op'.name = "none" /\ op'.at = "none"
      /\ op'.step = "done" /\ op'.config = 0
  BY <1>0, NoOpFields
<1>2. loc' \in LocalRecord /\ loc'.charm = loc.charm
  BY <1>0 DEF Types, LocalRecord
<1>3. Types'
  BY <1>0, <1>1, <1>2 DEF Types
<1>4. phase \in {"loop", "enter"} /\ st.kind = "upgrade"
  BY <1>0 DEF PhaseInv, Types, OpInv, DeployOpInv
<1>5. StateInv'
  BY <1>0, StateFrame
<1>6. PhaseInv'
  BY <1>0, <1>1, <1>2, <1>4 DEF PhaseInv
<1>7. OpInv'
  BY <1>0, <1>1 DEF OpInv, HookOpInv, SkipOpInv, DeployOpInv, ActionOpInv, OpNames
<1>8. GateInv'
  BY <1>0, <1>1 DEF GateInv
<1>9. \A a \in Actions : RunInv(a)'
  BY <1>0, <1>1 DEF IInv, RunInv
<1>10. ConfigInv'
  BY <1>0, <1>1, FieldTypes DEF ConfigInv
<1>11. ("charm" \in lost \/ CharmInv)'
  BY <1>0, <1>1, <1>2, <1>4 DEF IInv, CharmInv, Told
<1> QED
  BY <1>3, <1>5, <1>6, <1>7, <1>8, <1>9, <1>10, <1>11 DEF IInv

\* A deployment is written to the charm directory.
LEMMA ExecuteDeployKeeps ==
    ASSUME IInv, ExecuteDeploy
    PROVE  IInv'
<1>0. /\ Types /\ StateInv /\ PhaseInv /\ OpInv /\ GateInv /\ ConfigInv
      /\ op.at = "execute" /\ op.name \in {"install", "upgrade"}
      /\ dir' = op.charm /\ op' = [op EXCEPT !.at = "save"]
      /\ UNCHANGED <<ctl, unitCharm, acts, st, saved, phase, w, loc, gate,
                     reboot, rebooted, seen, up, ran, lost, n>>
  BY DEF IInv, ExecuteDeploy
<1>1. /\ op' \in OpRecord /\ op'.at = "save" /\ op'.name = op.name
      /\ op'.hook = op.hook /\ op'.action = op.action
      /\ op'.charm = op.charm /\ op'.config = op.config /\ op'.step = op.step
  BY <1>0, OpMoves DEF Places
<1>2. dir' \in Nat
  BY <1>0, FieldTypes
<1>3. Types'
  BY <1>0, <1>1, <1>2 DEF Types
<1>4. st.kind = op.name /\ st.charm = op.charm
  BY <1>0 DEF OpInv, DeployOpInv
<1>5. StateInv'
  BY <1>0, StateFrame
<1>6. PhaseInv'
  BY <1>0, <1>1 DEF PhaseInv
<1>7. OpInv'
  BY <1>0, <1>1, <1>4 DEF OpInv, HookOpInv, SkipOpInv, DeployOpInv, ActionOpInv,
                          OpNames
<1>8. GateInv'
  BY <1>0, <1>1 DEF GateInv
<1>9. \A a \in Actions : RunInv(a)'
  BY <1>0, <1>1 DEF IInv, RunInv
<1>10. ConfigInv'
  BY <1>0, <1>1 DEF ConfigInv
<1>11. ("charm" \in lost \/ CharmInv)'
  BY <1>0, <1>1, <1>4 DEF IInv, CharmInv, Told
<1> QED
  BY <1>3, <1>5, <1>6, <1>7, <1>8, <1>9, <1>10, <1>11 DEF IInv

\* An action's process runs.
LEMMA ExecuteActionKeeps ==
    ASSUME IInv, ExecuteAction
    PROVE  IInv'
<1>0. /\ Types /\ StateInv /\ PhaseInv /\ OpInv /\ GateInv /\ ConfigInv
      /\ op.at = "execute" /\ op.name = "action"
      /\ ran' = [ran EXCEPT ![op.action] = ran[op.action] + 1]
      /\ op' = [op EXCEPT !.at = "finish"]
      /\ UNCHANGED <<ctl, unitCharm, acts, st, saved, phase, w, loc, gate,
                     reboot, rebooted, dir, seen, up, lost, n>>
  BY DEF IInv, ExecuteAction
<1>1. /\ op' \in OpRecord /\ op'.at = "finish" /\ op'.name = op.name
      /\ op'.hook = op.hook /\ op'.action = op.action
      /\ op'.charm = op.charm /\ op'.config = op.config /\ op'.step = op.step
  BY <1>0, OpMoves DEF Places
<1>2. op.action \in Actions
  BY <1>0 DEF OpInv, ActionOpInv
<1>3. ran' \in [Actions -> Nat]
  BY <1>0, <1>2 DEF Types
<1>4. Types'
  BY <1>0, <1>1, <1>3 DEF Types
<1>5. StateInv'
  BY <1>0, StateFrame
<1>6. PhaseInv'
  BY <1>0, <1>1 DEF PhaseInv
<1>7. OpInv'
  BY <1>0, <1>1 DEF OpInv, HookOpInv, SkipOpInv, DeployOpInv, ActionOpInv,
                    OpNames
<1>8. GateInv'
  BY <1>0, <1>1 DEF GateInv
<1>9. \A a \in Actions : RunInv(a)'
  <2> SUFFICES ASSUME NEW a \in Actions PROVE RunInv(a)'
    OBVIOUS
  <2>1. RunInv(a) /\ RunInv(op.action)
    BY <1>2 DEF IInv
  <2>2. CASE a = op.action
    <3>1. ran[a] = 0 /\ acts[a] = "running"
      BY <1>0, <2>1, <2>2 DEF RunInv
    <3>2. ran'[a] = 1
      BY <1>0, <2>2, <3>1 DEF Types
    <3> QED
      BY <1>0, <1>1, <2>2, <3>1, <3>2 DEF RunInv
  <2>3. CASE a # op.action
    <3>1. ran'[a] = ran[a]
      BY <1>0, <2>3 DEF Types
    <3> QED
      BY <1>0, <1>1, <2>1, <2>3, <3>1 DEF RunInv
  <2> QED
    BY <2>2, <2>3
<1>10. ConfigInv'
  BY <1>0, <1>1 DEF ConfigInv
<1>11. ("charm" \in lost \/ CharmInv)'
  BY <1>0, <1>1 DEF IInv, CharmInv, Told
<1> QED
  BY <1>4, <1>5, <1>6, <1>7, <1>8, <1>9, <1>10, <1>11 DEF IInv

\* The controller is told how a task ended.
LEMMA FinishTaskKeeps ==
    ASSUME IInv, FinishTask
    PROVE  IInv'
<1>0. /\ Types /\ StateInv /\ PhaseInv /\ OpInv /\ GateInv /\ ConfigInv
      /\ op.name \in {"action", "fail"}
      /\ op.at = IF op.name = "action" THEN "finish" ELSE "execute"
      /\ acts' = [acts EXCEPT ![op.action] =
                      IF op.name = "fail" THEN "failed" ELSE "completed"]
      /\ op' = [op EXCEPT !.at = "save"]
      /\ UNCHANGED <<ctl, unitCharm, st, saved, phase, w, loc, gate, reboot,
                     rebooted, dir, seen, up, ran, lost, n>>
  BY DEF IInv, FinishTask
<1>1. /\ op' \in OpRecord /\ op'.at = "save" /\ op'.name = op.name
      /\ op'.hook = op.hook /\ op'.action = op.action
      /\ op'.charm = op.charm /\ op'.config = op.config /\ op'.step = op.step
  BY <1>0, OpMoves DEF Places
<1>2. op.action \in Actions
  BY <1>0 DEF OpInv, ActionOpInv
<1>3. /\ acts' \in [Actions -> {"none", "pending", "running", "completed",
                                "failed", "error"}]
      /\ acts'[op.action] \in {"failed", "completed"}
      /\ \A a \in Actions : a # op.action => acts'[a] = acts[a]
  BY <1>0, <1>2 DEF Types
<1>4. Types'
  BY <1>0, <1>1, <1>3 DEF Types
<1>5. StateInv'
  BY <1>0, StateFrame
<1>6. PhaseInv'
  BY <1>0, <1>1 DEF PhaseInv
<1>7. OpInv'
  BY <1>0, <1>1 DEF OpInv, HookOpInv, SkipOpInv, DeployOpInv, ActionOpInv,
                    OpNames
<1>8. GateInv'
  BY <1>0, <1>1 DEF GateInv
<1>9. \A a \in Actions : RunInv(a)'
  <2> SUFFICES ASSUME NEW a \in Actions PROVE RunInv(a)'
    OBVIOUS
  <2>1. RunInv(a)
    BY DEF IInv
  <2>2. CASE a = op.action
    BY <1>0, <1>1, <1>3, <2>1, <2>2 DEF RunInv
  <2>3. CASE a # op.action
    BY <1>0, <1>1, <1>3, <2>1, <2>3 DEF RunInv
  <2> QED
    BY <2>2, <2>3
<1>10. ConfigInv'
  BY <1>0, <1>1 DEF ConfigInv
<1>11. ("charm" \in lost \/ CharmInv)'
  BY <1>0, <1>1 DEF IInv, CharmInv, Told
<1> QED
  BY <1>4, <1>5, <1>6, <1>7, <1>8, <1>9, <1>10, <1>11 DEF IInv

\* A hook runs to its end.
LEMMA ExecuteHookKeeps ==
    ASSUME IInv, NEW s \in {"done", "reboot", "requeue", "terminated"},
           ExecuteHook(s)
    PROVE  IInv'
<1>0. /\ Types /\ StateInv /\ PhaseInv /\ OpInv /\ GateInv /\ ConfigInv
      /\ op.at = "execute" /\ op.name = "hook"
      /\ op' = [op EXCEPT !.at = "save", !.step = s]
      /\ seen' = IF op.hook = "config-changed" /\ s \in {"done", "reboot"}
                 THEN ctl.config ELSE seen
      /\ up' = IF op.hook \in {"start", "stop"} /\ s \in {"done", "reboot"}
               THEN op.hook = "start" ELSE up
      /\ UNCHANGED <<ctl, unitCharm, acts, st, saved, phase, w, loc, gate,
                     reboot, rebooted, dir, ran, lost>>
  BY DEF IInv, ExecuteHook
<1>1. /\ op' \in OpRecord /\ op'.at = "save" /\ op'.name = op.name
      /\ op'.hook = op.hook /\ op'.action = op.action
      /\ op'.charm = op.charm /\ op'.config = op.config /\ op'.step = s
  BY <1>0 DEF Types, OpRecord, Places
<1>2. /\ st.kind = "runHook" /\ st.hook = op.hook /\ op.hook \in Hooks
      /\ HookFits(op.hook) /\ phase = "loop"
  BY <1>0 DEF OpInv, HookOpInv, PhaseInv, Types
<1>3. ctl.config \in Nat /\ seen \in Nat /\ op.config <= ctl.config
      /\ w.config <= ctl.config /\ seen <= ctl.config /\ st.config \in Nat
      /\ op.config \in Nat
  BY <1>0, FieldTypes DEF ConfigInv, Types
<1>4. seen' \in Nat /\ seen <= seen' /\ seen' <= ctl.config
  BY <1>0, <1>3
<1>14. up' \in BOOLEAN
  BY <1>0, Zenon DEF Types
<1>5. Types'
  BY <1>0, <1>1, <1>4, <1>14 DEF Types
<1>6. HookFits(op.hook)'
  BY <1>0, <1>1, <1>2 DEF HookFits
<1>7. StateInv'
  <2>1. Valid(st)'
    BY <1>0 DEF StateInv, Valid
  <2>2. HookFits(st.hook)'
    BY <1>0, <1>1, <1>2, <1>6
  <2>3. (up => (st.started /\ ~st.stopped) \/ st.hook = "start" \/ "start" \in lost)'
    BY <1>0, <1>2 DEF StateInv
  <2> QED
    BY <1>0, <1>2, <2>1, <2>2, <2>3 DEF StateInv
<1>8. PhaseInv'
  BY <1>0, <1>1 DEF PhaseInv
<1>9. OpInv'
  BY <1>0, <1>1, <1>2, <1>6 DEF OpInv, HookOpInv, SkipOpInv, DeployOpInv,
                                ActionOpInv, OpNames
<1>10. GateInv'
  BY <1>0, <1>1 DEF GateInv
<1>11. \A a \in Actions : RunInv(a)'
  BY <1>0, <1>1 DEF IInv, RunInv
<1>12. ConfigInv'
  <2>1. st.config <= seen' \/ "config" \in lost
    BY <1>0, <1>3, <1>4 DEF ConfigInv
  <2>2. op.hook = "config-changed" /\ s \in {"done", "reboot"} => op.config <= seen'
    BY <1>0, <1>3
  <2> QED
    BY <1>0, <1>1, <1>3, <1>4, <2>1, <2>2 DEF ConfigInv
<1>13. ("charm" \in lost \/ CharmInv)'
  BY <1>0, <1>1 DEF IInv, CharmInv, Told
<1> QED
  BY <1>5, <1>7, <1>8, <1>9, <1>10, <1>11, <1>12, <1>13 DEF IInv

\* The agent process ends between two operations or in one.
LEMMA DownFields ==
    ASSUME Down
    PROVE  /\ op' = NoOp /\ op' \in OpRecord /\ op'.name = "none"
           /\ op'.at = "none" /\ op'.step = "done" /\ op'.config = 0
           /\ phase' = "down" /\ w' \in Snapshot /\ w'.config = 0
           /\ loc' \in LocalRecord
<1>1. NoSnapshot \in Snapshot /\ NoSnapshot.config = 0
  <2>1. <<>> \in Seq(Actions)
    OBVIOUS
  <2> QED
    BY <2>1 DEF NoSnapshot, Snapshot, Lives, Resolutions
<1>2. LocalState(0, 0) \in LocalRecord
  BY DEF LocalState, LocalRecord
<1> QED
  BY <1>1, <1>2, NoOpFields DEF Down

\* What it had told the controller and not saved is known to be lost.
LEMMA DownKeeps ==
    ASSUME IInv, Down, lost \subseteq lost', gate' \in BOOLEAN,
           UNCHANGED <<ctl, unitCharm, acts, st, saved, dir, seen, up, ran>>,
           Told => "charm" \in lost',
           op.name = "action" /\ op.at \in {"prepare", "execute", "finish"} =>
               (st.hook = "none" /\ op.at # "prepare") \/ "action" \in lost'
    PROVE  IInv'
<1>0. Types /\ StateInv /\ PhaseInv /\ OpInv /\ GateInv /\ ConfigInv
  BY DEF IInv
<1>1. /\ op' = NoOp /\ op' \in OpRecord /\ op'.name = "none"
      /\ op'.at = "none" /\ op'.step = "done" /\ op'.config = 0
      /\ phase' = "down" /\ w' \in Snapshot /\ w'.config = 0
      /\ loc' \in LocalRecord
  BY DownFields
<1>2. Types'
  BY <1>0, <1>1 DEF Types
<1>3. StateInv'
  BY <1>0, StateFrame
<1>4. PhaseInv'
  BY <1>0, <1>1 DEF PhaseInv
<1>5. OpInv'
  BY <1>0, <1>1 DEF OpInv, HookOpInv, SkipOpInv, DeployOpInv, ActionOpInv, OpNames
<1>6. GateInv'
  BY <1>0, <1>1 DEF GateInv
<1>7. \A a \in Actions : RunInv(a)'
  <2> SUFFICES ASSUME NEW a \in Actions PROVE RunInv(a)'
    OBVIOUS
  <2>1. RunInv(a)
    BY DEF IInv
  <2>2. ASSUME acts[a] = "running", op.name = "action", op.action = a,
               "action" \notin lost'
        PROVE  /\ st.kind = "runAction" /\ st.action = a
               /\ st.step = "pending" /\ st.hook = "none"
    <3>1. op.at \in {"prepare", "execute", "finish", "save", "commit"}
      BY <1>0, <2>2 DEF OpInv, ActionOpInv
    <3>2. op.at \in {"prepare", "execute", "finish"}
      BY <2>1, <2>2, <3>1 DEF RunInv
    <3>3. st.hook = "none" /\ op.at \in {"execute", "finish"}
      BY <2>2, <3>2
    <3> QED
      BY <1>0, <2>2, <3>3 DEF OpInv, ActionOpInv
  <2> QED
    BY <1>1, <2>1, <2>2 DEF RunInv
<1>8. ConfigInv'
  BY <1>0, <1>1, FieldTypes DEF ConfigInv
<1>9. ("charm" \in lost \/ CharmInv)'
  BY <1>1 DEF IInv, CharmInv, Told
<1> QED
  BY <1>2, <1>3, <1>4, <1>5, <1>6, <1>7, <1>8, <1>9 DEF IInv

\* A crash.
LEMMA CrashKeeps ==
    ASSUME IInv, Crash
    PROVE  IInv'
<1> DEFINE gone ==
        CASE op.at = "prepare" /\ op.name = "upgrade" -> {"charm"}
          [] op.name = "action"
             /\ op.at \in (IF st.hook = "none" THEN {"prepare"}
                          ELSE {"prepare", "execute", "finish"}) -> {"action"}
          [] OTHER -> {}
<1>1. /\ Down /\ gate' = FALSE /\ lost' = lost \union gone
      /\ UNCHANGED <<ctl, unitCharm, acts, st, saved, dir, seen, up, ran>>
  BY DEF Crash
<1>2. Told => "charm" \in gone
  BY DEF Told
<1>3. op.name = "action" /\ op.at \in {"prepare", "execute", "finish"} =>
          (st.hook = "none" /\ op.at # "prepare") \/ "action" \in gone
  OBVIOUS
<1> HIDE DEF gone
<1>4. lost \subseteq lost' /\ gone \subseteq lost' /\ gate' \in BOOLEAN
  BY <1>1
<1> QED
  BY <1>1, <1>2, <1>3, <1>4, DownKeeps

\* The agent gives up on a state that no resolver knows.
LEMMA ExitKeeps ==
    ASSUME IInv, Exit
    PROVE  IInv'
<1>1. /\ Down /\ op = NoOp
      /\ UNCHANGED <<ctl, unitCharm, acts, st, saved, gate, dir, seen, up, ran,
                     lost>>
  BY DEF Exit
<1>2. op.name = "none" /\ gate' \in BOOLEAN
  BY <1>1, NoOpFields DEF IInv, Types
<1> QED
  BY <1>1, <1>2, DownKeeps DEF Told

-----------------------------------------------------------------------------
(* Queues of tasks.                                                        *)

\* A queue without its first e is a queue.
LEMMA RemoveFirstType ==
    ASSUME NEW S, NEW s \in Seq(S), NEW e
    PROVE  RemoveFirst(s, e) \in Seq(S)
<1> DEFINE I == {i \in 1..Len(s) : s[i] = e}
           m == Min(I)
<1>1. CASE I # {}
  <2>1. I \in SUBSET Nat
    OBVIOUS
  <2>2. \E i \in I : \A j \in I : i <= j
    BY <1>1, <2>1, LeastNatural
  <2>3. m \in I
    BY <2>2 DEF Min
  <2>4. RemoveFirst(s, e) = SubSeq(s, 1, m - 1) \o SubSeq(s, m + 1, Len(s))
    BY <1>1 DEF RemoveFirst, RemoveAt, SelectInSeq
  <2>5. m \in 1..Len(s) /\ Len(s) \in Nat
    BY <2>3
  <2> HIDE DEF m, I
  <2>6. SubSeq(s, 1, m - 1) \in Seq(S) /\ SubSeq(s, m + 1, Len(s)) \in Seq(S)
    BY <2>5
  <2> QED
    BY <2>4, <2>6
<1>2. CASE I = {}
  BY <1>2 DEF RemoveFirst
<1> QED
  BY <1>1, <1>2

\* The orders in which a watcher may report tasks.
LEMMA OrdersType ==
    ASSUME NEW S, S \in SUBSET Actions, NEW s \in SetToSeqs(S)
    PROVE  s \in Seq(Actions)
<1>1. IsFiniteSet(Actions)
  <2>1. NumActions \in Nat
    BY UniterAssumption
  <2> QED
    BY <2>1, FS_Interval DEF Actions
<1>2. Cardinality(S) \in Nat
  BY <1>1, FS_Subset, FS_CardinalityType
<1>3. s \in [1 .. Cardinality(S) -> S]
  BY DEF SetToSeqs
<1>4. s \in [1 .. Cardinality(S) -> Actions]
  BY <1>3
<1> QED
  BY <1>2, <1>4

-----------------------------------------------------------------------------
(* Starting.                                                               *)

\* The agent starts, and runs an install that was interrupted.
LEMMA StartKeeps ==
    ASSUME IInv, Start
    PROVE  IInv'
<1>0. /\ Types /\ StateInv /\ PhaseInv /\ OpInv /\ GateInv /\ ConfigInv
      /\ phase = "down" /\ op = NoOp /\ op.name = "none"
      /\ st' = IF saved THEN st ELSE [st EXCEPT !.charm = ctl.charm]
      /\ UNCHANGED <<ctl, acts, saved, w, gate, dir, seen, up, ran, lost>>
  BY DEF IInv, Start, PhaseInv, OpInv
<1>1. /\ st' \in StateRecord /\ st'.kind = st.kind /\ st'.step = st.step
      /\ st'.hook = st.hook /\ st'.hookStep = st.hookStep
      /\ st'.action = st.action
      /\ st'.started = st.started /\ st'.stopped = st.stopped
      /\ st'.installed = st.installed /\ st'.removed = st.removed
      /\ st'.config = st.config
      /\ st'.charm = IF saved THEN st.charm ELSE ctl.charm
  <2>1. ctl.charm \in Nat
    BY <1>0, FieldTypes
  <2> QED
    BY <1>0, <2>1 DEF Types, StateRecord
<1>2. ctl.charm \in Nat \ {0} /\ ctl.ver \in Nat /\ st.kind \in Kinds
      /\ st.step \in Progress
  BY <1>0, FieldTypes
<1>3. StateInv'
  <2>1. Valid(st)'
    BY <1>0, <1>1, <1>2 DEF StateInv, Valid
  <2>2. HookFits(st.hook)'
    BY <1>0, <1>1 DEF StateInv, HookFits
  <2> QED
    BY <1>0, <1>1, <2>1, <2>2 DEF StateInv
<1>4. CASE st.kind = "install"
  <2>1. st'.charm \in Nat \ {0}
    BY <1>0, <1>1, <1>2, <1>4, FieldTypes DEF StateInv, Valid
  <2> DEFINE x == IF st.step = "done" THEN "commit" ELSE "prepare"
  <2>2. /\ phase' = "install" /\ loc' = LocalState(st'.charm, 0)
        /\ op' = [NoOp EXCEPT !.name = "install", !.charm = st'.charm, !.at = x]
        /\ unitCharm' = IF st.step = "done" THEN unitCharm ELSE st'.charm
    BY <1>4 DEF Start
  <2>3. x \in Places
    BY DEF Places
  <2>4. /\ op' \in OpRecord /\ op'.name = "install" /\ op'.charm = st'.charm
        /\ op'.at = x /\ op'.step = "done" /\ op'.config = 0
    BY <2>1, <2>2, <2>3, NoOpFields DEF NoOp, OpRecord, OpNames
  <2>5. loc' \in LocalRecord /\ loc'.charm = st'.charm
    BY <2>1, <2>2 DEF LocalState, LocalRecord
  <2>6. Types'
    BY <1>0, <1>1, <2>1, <2>2, <2>4, <2>5 DEF Types
  <2>7. PhaseInv'
    BY <2>2, <2>4, <2>5 DEF PhaseInv
  <2>8. OpInv'
    BY <1>1, <1>4, <2>1, <2>4 DEF OpInv, HookOpInv, SkipOpInv, DeployOpInv,
                                  ActionOpInv, OpNames
  <2>9. GateInv'
    BY <2>2, <2>4 DEF GateInv
  <2>10. \A a \in Actions : RunInv(a)'
    BY <1>0, <1>1, <1>4, <2>4 DEF IInv, RunInv
  <2>11. ConfigInv'
    BY <1>0, <1>1, <2>4, FieldTypes DEF ConfigInv
  <2>12. ("charm" \in lost \/ CharmInv)'
    <3>1. st.step = "done" => st'.charm = st.charm
      BY <1>0, <1>1, <1>4 DEF StateInv
    <3>2. ASSUME CharmInv PROVE CharmInv'
      BY <1>0, <1>1, <1>4, <2>2, <2>4, <3>1, <3>2 DEF CharmInv, Told
    <3> QED
      BY <1>0, <3>2 DEF IInv
  <2> QED
    BY <1>3, <2>6, <2>7, <2>8, <2>9, <2>10, <2>11, <2>12 DEF IInv
<1>5. CASE st.kind # "install"
  <2>1. saved /\ st' = st
    BY <1>0, <1>5 DEF StateInv
  <2>2. /\ phase' = "watch" /\ loc' = LocalState(unitCharm, ctl.ver)
        /\ UNCHANGED <<op, unitCharm>>
    BY <1>5 DEF Start
  <2>3. loc' \in LocalRecord /\ loc'.charm = unitCharm /\ unitCharm # 0
    BY <1>0, <1>2, <2>2 DEF LocalState, LocalRecord, Types
  <2>4. Types'
    BY <1>0, <2>1, <2>2, <2>3 DEF Types
  <2>5. PhaseInv'
    BY <1>0, <1>5, <2>1, <2>2, <2>3 DEF PhaseInv
  <2>6. OpInv'
    BY <1>0, <2>1, <2>2, OpFrame
  <2>7. GateInv'
    BY <1>0, <2>2 DEF GateInv
  <2>8. \A a \in Actions : RunInv(a)'
    BY <1>0, <2>1, <2>2, RunFrame DEF IInv
  <2>9. ConfigInv'
    BY <1>0, <2>1, <2>2 DEF ConfigInv
  <2>10. ("charm" \in lost \/ CharmInv)'
    BY <1>0, <1>5, <2>1, <2>2, <2>3 DEF IInv, CharmInv, Told
  <2> QED
    BY <1>3, <2>4, <2>5, <2>6, <2>7, <2>8, <2>9, <2>10 DEF IInv
<1> QED
  BY <1>4, <1>5

\* A watcher is ready.
LEMMA StartWatcherKeeps ==
    ASSUME IInv, StartWatcher
    PROVE  IInv'
<1>0. /\ Types /\ StateInv /\ PhaseInv /\ OpInv /\ GateInv /\ ConfigInv
      /\ phase = "watch" /\ phase' = "enter"
      /\ loc' = LocalState(loc.charm, loc.ver)
      /\ UNCHANGED <<ctl, unitCharm, acts, st, saved, op, gate, reboot, rebooted,
                     dir, seen, up, ran, lost, n>>
  BY DEF IInv, StartWatcher
<1>1. PICK pending \in SetToSeqs({a \in Actions : Available(a)}) :
          w' = [life |-> ctl.life, resolved |-> ctl.resolved,
                charm |-> ctl.charm, ver |-> ctl.ver, force |-> ctl.force,
                config |-> ctl.config, leader |-> ctl.leader,
                acts |-> pending]
  BY DEF StartWatcher
<1>2. pending \in Seq(Actions)
  <2>1. {a \in Actions : Available(a)} \in SUBSET Actions
    OBVIOUS
  <2> QED
    BY <2>1, OrdersType
<1>3. w' \in Snapshot /\ w'.charm = ctl.charm /\ w'.config = ctl.config
  BY <1>0, <1>1, <1>2 DEF Types, UnitRecord, Snapshot
<1>4. loc' \in LocalRecord /\ loc'.charm = loc.charm
  BY <1>0, FieldTypes DEF LocalState, LocalRecord
<1>5. Types'
  BY <1>0, <1>3, <1>4 DEF Types
<1>6. StateInv' /\ OpInv'
  BY <1>0, StateFrame, OpFrame
<1>7. PhaseInv'
  <2>1. ctl.charm # 0
    BY <1>0, FieldTypes
  <2> QED
    BY <1>0, <1>3, <1>4, <2>1 DEF PhaseInv
<1>8. GateInv'
  BY <1>0 DEF GateInv
<1>9. \A a \in Actions : RunInv(a)'
  BY <1>0, RunFrame DEF IInv
<1>10. ConfigInv'
  BY <1>0, <1>3, FieldTypes DEF ConfigInv
<1>11. ("charm" \in lost \/ CharmInv)'
  BY <1>0, <1>4 DEF IInv, CharmInv, Told
<1> QED
  BY <1>5, <1>6, <1>7, <1>8, <1>9, <1>10, <1>11 DEF IInv

\* The loop is entered, with an upgrade if one is waiting.
LEMMA EnterLoopKeeps ==
    ASSUME IInv, EnterLoop
    PROVE  IInv'
<1> DEFINE waiting == /\ st.installed /\ st.started /\ loc.charm # w.charm
                      /\ st.kind # "upgrade" /\ st.hook # "upgrade-charm"
<1>0. /\ Types /\ StateInv /\ PhaseInv /\ OpInv /\ GateInv /\ ConfigInv
      /\ phase = "enter" /\ op = NoOp /\ gate' = CharmDirAvailable(st)
      /\ UNCHANGED <<ctl, acts, st, saved, w, loc, reboot, rebooted, dir, seen,
                     up, ran, lost, n>>
  BY DEF IInv, EnterLoop
<1>1. op.name = "none" /\ gate' \in BOOLEAN /\ CharmDirAvailable(st)' = gate'
  BY <1>0, NoOpFields DEF CharmDirAvailable
<1>2. StateInv'
  BY <1>0, StateFrame
<1>3. CASE waiting
  <2>1. /\ op' = [UpgradeOp(w.charm) EXCEPT !.ver = 0, !.at = "prepare"]
        /\ unitCharm' = w.charm /\ phase' = phase
    BY <1>3 DEF EnterLoop
  <2>2. w.charm \in Nat \ {0}
    BY <1>0, FieldTypes DEF PhaseInv
  <2>3. /\ op' \in OpRecord /\ op'.name = "upgrade" /\ op'.at = "prepare"
        /\ op'.charm = w.charm /\ op'.config = 0 /\ op'.step = "done"
    <3>1. /\ UpgradeOp(w.charm) \in OpRecord
          /\ UpgradeOp(w.charm).name = "upgrade"
          /\ UpgradeOp(w.charm).charm = w.charm
          /\ UpgradeOp(w.charm).config = 0 /\ UpgradeOp(w.charm).step = "done"
      BY <1>0, <2>2, UpgradeOpFields
    <3> HIDE DEF UpgradeOp
    <3> QED
      BY <2>1, <3>1 DEF OpRecord, Places
  <2>4. Types'
    BY <1>0, <1>1, <2>1, <2>2, <2>3 DEF Types
  <2>5. PhaseInv'
    BY <1>0, <2>1, <2>3 DEF PhaseInv
  <2>6. OpInv'
    BY <1>0, <1>3, <2>2, <2>3 DEF OpInv, HookOpInv, SkipOpInv, DeployOpInv,
                                  ActionOpInv, OpNames
  <2>7. GateInv'
    BY <1>0, <2>1, <2>3 DEF GateInv
  <2>8. \A a \in Actions : RunInv(a)'
    BY <1>0, <1>1, <2>3 DEF IInv, RunInv
  <2>9. ConfigInv'
    BY <1>0, <2>3, FieldTypes DEF ConfigInv
  <2>10. ("charm" \in lost \/ CharmInv)'
    BY <1>0, <1>1, <1>3, <2>1, <2>3 DEF IInv, CharmInv, Told, PhaseInv
  <2> QED
    BY <1>2, <2>4, <2>5, <2>6, <2>7, <2>8, <2>9, <2>10 DEF IInv
<1>4. CASE ~waiting
  <2>1. phase' = "loop" /\ UNCHANGED <<op, unitCharm>>
    BY <1>4 DEF EnterLoop
  <2>2. Types'
    BY <1>0, <1>1, <2>1 DEF Types
  <2>3. PhaseInv'
    BY <1>0, <1>1, <2>1 DEF PhaseInv
  <2>4. OpInv'
    BY <1>0, <2>1, OpFrame
  <2>5. GateInv'
    BY <1>0, <1>1, <2>1 DEF GateInv
  <2>6. \A a \in Actions : RunInv(a)'
    BY <1>0, <2>1, RunFrame DEF IInv
  <2>7. ConfigInv'
    BY <1>0, <2>1 DEF ConfigInv
  <2>8. ("charm" \in lost \/ CharmInv)'
    BY <1>0, <1>1, <2>1 DEF IInv, CharmInv, Told
  <2> QED
    BY <1>2, <2>2, <2>3, <2>4, <2>5, <2>6, <2>7, <2>8 DEF IInv
<1> QED
  BY <1>3, <1>4

-----------------------------------------------------------------------------
(* Beginning an operation.                                                 *)

\* The resolvers are asked for the next operation.
LEMMA AskedNow ==
    ASSUME IInv, phase = "loop"
    PROVE  Asked /\ Answer(NextOp)
<1>1. Asked
  BY DEF IInv, Asked
<1> QED
  BY <1>1, NextAnswer

\* Where an operation that fits the state begins.
LEMMA FirstStepCases ==
    ASSUME NEW o, NextFits(o)
    PROVE  /\ FirstStep(o) \in {"commit", "prepare"}
           /\ o.name \in {"skip", "accept", "resign"} => FirstStep(o) = "commit"
           /\ o.name \in {"action", "fail"} => FirstStep(o) = "prepare"
           /\ o.name = "hook" /\ FirstStep(o) = "commit" =>
                 o.hook = "leader-elected"
           /\ o.name = "upgrade" /\ FirstStep(o) = "commit" =>
                 st.kind = "upgrade" /\ st.charm = o.charm /\ st.step = "done"
BY DEF FirstStep, AlreadyDone

\* An operation is begun.
LEMMA BeginKeeps ==
    ASSUME IInv, Begin
    PROVE  IInv'
<1> DEFINE o == NextOp
           at == FirstStep(o)
<1>0. /\ Types /\ StateInv /\ PhaseInv /\ OpInv /\ GateInv /\ ConfigInv
      /\ phase = "loop" /\ op = NoOp
      /\ UNCHANGED <<st, saved, gate, rebooted, dir, seen, up, ran, lost, n>>
  BY DEF IInv, Begin
<1>1. /\ o.name \notin {"none", "wait", "error"}
      /\ CASE o.name = "dead" -> phase' = "terminate" /\ UNCHANGED op
           [] o.name = "restart" -> phase' = "watch" /\ UNCHANGED op
           [] OTHER -> op' = [o EXCEPT !.at = at] /\ UNCHANGED phase
      /\ ctl' = (IF o.clears THEN [ctl EXCEPT !.resolved = "none"] ELSE ctl)
      /\ w' = (IF o.clears THEN [w EXCEPT !.resolved = "none"] ELSE w)
      /\ unitCharm' = (IF o.name = "upgrade" /\ at = "prepare"
                       THEN o.charm ELSE unitCharm)
      /\ acts' = (IF o.name = "action"
                  THEN [acts EXCEPT ![o.action] = "running"] ELSE acts)
      /\ loc' = (IF o.name = "hook" /\ at = "prepare"
                 THEN [loc EXCEPT !.retry = FALSE] ELSE loc)
  BY DEF Begin
<1>2. NextFits(o)
  BY <1>0, AskedNow DEF Answer
<1> HIDE DEF o
<1>3. /\ at \in {"commit", "prepare"}
      /\ o.name \in {"skip", "accept", "resign"} => at = "commit"
      /\ o.name \in {"action", "fail"} => at = "prepare"
      /\ o.name = "hook" /\ at = "commit" => o.hook = "leader-elected"
      /\ o.name = "upgrade" /\ at = "commit" =>
            st.kind = "upgrade" /\ st.charm = o.charm /\ st.step = "done"
  BY <1>2, FirstStepCases
<1> HIDE DEF at
<1>4. op.name = "none"
  BY <1>0, NoOpFields
<1>5. ctl' \in UnitRecord /\ ctl'.config = ctl.config
  BY <1>0, <1>1 DEF Types, UnitRecord, Resolutions
<1>6. w' \in Snapshot /\ w'.charm = w.charm /\ w'.config = w.config
  BY <1>0, <1>1 DEF Types, Snapshot, Resolutions
<1>7. loc' \in LocalRecord /\ loc'.charm = loc.charm
  BY <1>0, <1>1 DEF Types, LocalRecord
<1>8. StateInv'
  BY <1>0, StateFrame
<1>9. CASE o.name \in {"dead", "restart"}
  <2>1. /\ phase' \in {"terminate", "watch"}
        /\ UNCHANGED <<op, unitCharm, acts>>
    BY <1>1, <1>9
  <2>2. Types'
    BY <1>0, <1>5, <1>6, <1>7, <2>1 DEF Types
  <2>3. PhaseInv'
    BY <1>0, <1>4, <1>6, <1>7, <2>1 DEF PhaseInv
  <2>4. OpInv'
    BY <1>0, <2>1, OpFrame
  <2>5. GateInv'
    BY <1>0, <1>4, <2>1 DEF GateInv
  <2>6. \A a \in Actions : RunInv(a)'
    BY <1>0, <2>1, RunFrame DEF IInv
  <2>7. ConfigInv'
    BY <1>0, <1>5, <1>6, <2>1 DEF ConfigInv
  <2>8. ("charm" \in lost \/ CharmInv)'
    BY <1>0, <1>4, <1>7, <2>1 DEF IInv, CharmInv, Told
  <2> QED
    BY <1>8, <2>2, <2>3, <2>4, <2>5, <2>6, <2>7, <2>8 DEF IInv
<1>10. CASE o.name \notin {"dead", "restart"}
  <2>1. op' = [o EXCEPT !.at = at] /\ phase' = phase
    BY <1>1, <1>10
  <2>2. o \in OpRecord /\ o.step = "done" /\ o.config <= ctl.config
    BY <1>2 DEF NextFits
  <2>3. /\ op' \in OpRecord /\ op'.at = at /\ op'.name = o.name
        /\ op'.hook = o.hook /\ op'.action = o.action
        /\ op'.charm = o.charm /\ op'.config = o.config /\ op'.step = "done"
    BY <1>3, <2>1, <2>2 DEF OpRecord, Places
  <2>4. /\ o.name \in {"hook", "skip", "upgrade", "action", "fail", "accept",
                       "resign"}
        /\ o.charm \in Nat
    BY <1>1, <1>2, <1>10, <2>2 DEF NextFits, OpRecord, OpNames, OutcomeNames
  <2>5. unitCharm' \in Nat \ {0}
    BY <1>0, <1>1, <1>2, <2>4 DEF Types, NextFits
  <2>6. /\ acts' \in [Actions -> {"none", "pending", "running", "completed",
                                  "failed", "error"}]
        /\ \A a \in Actions :
               acts'[a] = IF o.name = "action" /\ a = o.action
                          THEN "running" ELSE acts[a]
    BY <1>0, <1>1, <1>2 DEF Types, NextFits
  <2>7. Types'
    BY <1>0, <1>5, <1>6, <1>7, <2>1, <2>3, <2>5, <2>6 DEF Types
  <2>8. PhaseInv'
    BY <1>0, <1>6, <1>7, <2>1, <2>3, <2>4 DEF PhaseInv
  <2>9. OpInv'
    <3>1. HookOpInv'
      BY <1>0, <1>2, <1>3, <2>3 DEF HookOpInv, NextFits, HookFits
    <3>2. SkipOpInv'
      BY <1>0, <1>2, <1>3, <2>3 DEF SkipOpInv, NextFits
    <3>3. DeployOpInv'
      BY <1>0, <1>2, <1>3, <2>3, <2>4
         DEF DeployOpInv, NextFits, InterruptedHook
    <3>4. ActionOpInv'
      BY <1>0, <1>2, <1>3, <2>3 DEF ActionOpInv, NextFits
    <3> QED
      BY <1>0, <1>2, <1>3, <2>3, <2>4, <3>1, <3>2, <3>3, <3>4
         DEF OpInv, OpNames, NextFits
  <2>10. GateInv'
    <3>1. gate = CharmDirAvailable(st)
      BY <1>0, <1>4 DEF GateInv
    <3>2. ASSUME o.name = "hook", o.hook \in {"install", "upgrade-charm"}
          PROVE  ~CharmDirAvailable(st)
      BY <1>0, <1>2, <3>2 DEF NextFits, CharmDirAvailable, HookFits, StateInv
    <3> QED
      BY <1>0, <2>1, <2>3, <2>4, <3>1, <3>2 DEF GateInv
  <2>11. \A a \in Actions : RunInv(a)'
    <3> SUFFICES ASSUME NEW a \in Actions PROVE RunInv(a)'
      OBVIOUS
    <3>1. RunInv(a)
      BY DEF IInv
    <3>2. CASE o.name = "action" /\ o.action = a
      <4>1. acts[a] = "pending" /\ acts'[a] = "running" /\ ran[a] = 0
        BY <1>2, <2>6, <3>1, <3>2 DEF NextFits, Available, RunInv
      <4> QED
        BY <1>0, <1>3, <2>3, <3>2, <4>1 DEF RunInv
    <3>3. CASE ~(o.name = "action" /\ o.action = a)
      <4>1. acts'[a] = acts[a]
        BY <2>6, <3>3
      <4> QED
        BY <1>0, <1>3, <1>4, <2>3, <3>1, <3>3, <4>1 DEF RunInv
    <3> QED
      BY <3>2, <3>3
  <2>12. ConfigInv'
    <3>1. ~(op'.at \in {"save", "commit"} /\ op'.name = "hook"
            /\ op'.hook = "config-changed")
      BY <1>3, <2>3
    <3> QED
      BY <1>0, <1>5, <1>6, <2>2, <2>3, <3>1 DEF ConfigInv
  <2>13. ("charm" \in lost \/ CharmInv)'
    <3>1. ASSUME CharmInv PROVE CharmInv'
      <4>1. CASE o.name = "upgrade"
        BY <1>0, <1>1, <1>2, <1>3, <1>4, <1>7, <2>1, <2>3, <3>1, <4>1
           DEF CharmInv, Told, NextFits
      <4>2. CASE o.name # "upgrade"
        BY <1>0, <1>1, <1>4, <1>7, <2>1, <2>3, <2>4, <3>1, <4>2
           DEF CharmInv, Told
      <4> QED
        BY <4>1, <4>2
    <3> QED
      BY <1>0, <3>1 DEF IInv
  <2> QED
    BY <1>8, <2>7, <2>8, <2>9, <2>10, <2>11, <2>12, <2>13 DEF IInv
<1> QED
  BY <1>9, <1>10

\* An action that the charm does not define.
LEMMA BeginBadActionKeeps ==
    ASSUME IInv, BeginBadAction
    PROVE  IInv'
<1> DEFINE o == NextOp
<1>0. /\ Types /\ StateInv /\ PhaseInv /\ OpInv /\ GateInv /\ ConfigInv
      /\ phase = "loop" /\ op = NoOp /\ o.name = "action"
      /\ acts' = [acts EXCEPT ![o.action] = "error"]
      /\ op' = [o EXCEPT !.at = "commit"]
      /\ UNCHANGED <<ctl, unitCharm, st, saved, phase, w, loc, gate,
                     rebooted, dir, seen, up, ran, lost>>
  BY DEF IInv, BeginBadAction
<1>1. NextFits(o)
  BY <1>0, AskedNow DEF Answer
<1> HIDE DEF o
<1>2. op.name = "none"
  BY <1>0, NoOpFields
<1>3. o \in OpRecord /\ o.step = "done" /\ o.config <= ctl.config
      /\ o.action \in Actions /\ acts[o.action] = "pending"
  BY <1>0, <1>1 DEF NextFits, Available
<1>4. /\ op' \in OpRecord /\ op'.at = "commit" /\ op'.name = "action"
      /\ op'.hook = o.hook /\ op'.action = o.action
      /\ op'.charm = o.charm /\ op'.config = o.config /\ op'.step = "done"
  BY <1>0, <1>3 DEF OpRecord, Places
<1>5. /\ acts' \in [Actions -> {"none", "pending", "running", "completed",
                                "failed", "error"}]
      /\ \A a \in Actions : acts'[a] = IF a = o.action THEN "error" ELSE acts[a]
  BY <1>0, <1>3 DEF Types
<1>6. Types'
  BY <1>0, <1>4, <1>5 DEF Types
<1>7. StateInv'
  BY <1>0, StateFrame
<1>8. PhaseInv'
  BY <1>0, <1>4 DEF PhaseInv
<1>9. OpInv'
  BY <1>0, <1>1, <1>3, <1>4 DEF OpInv, OpNames, HookOpInv, SkipOpInv, DeployOpInv,
                                ActionOpInv, NextFits
<1>10. GateInv'
  BY <1>4 DEF GateInv
<1>11. \A a \in Actions : RunInv(a)'
  <2> SUFFICES ASSUME NEW a \in Actions PROVE RunInv(a)'
    OBVIOUS
  <2>1. RunInv(a)
    BY DEF IInv
  <2>2. CASE o.action = a
    <3>1. acts'[a] = "error" /\ ran[a] = 0
      BY <1>3, <1>5, <2>1, <2>2 DEF RunInv
    <3> QED
      BY <1>0, <1>4, <2>2, <3>1 DEF RunInv
  <2>3. CASE o.action # a
    <3>1. acts'[a] = acts[a]
      BY <1>5, <2>3
    <3> QED
      BY <1>0, <1>2, <1>4, <2>1, <2>3, <3>1 DEF RunInv
  <2> QED
    BY <2>2, <2>3
<1>12. ConfigInv'
  BY <1>0, <1>3, <1>4 DEF ConfigInv
<1>13. ("charm" \in lost \/ CharmInv)'
  BY <1>0, <1>2, <1>4 DEF IInv, CharmInv, Told
<1> QED
  BY <1>6, <1>7, <1>8, <1>9, <1>10, <1>11, <1>12, <1>13 DEF IInv

-----------------------------------------------------------------------------
(* Saving what Prepare and Execute return.                                 *)

\* What an operation that is under way is known to be.
LEMMA UnderWay ==
    ASSUME IInv, op.at \in {"prepare", "save"}
    PROVE  /\ op.name \in {"hook", "install", "upgrade", "action", "fail"}
           /\ op.name # "install" => phase \in {"loop", "enter"}
           /\ op.name = "install" => phase = "install"
<1>1. op.name # "none"
  BY NoOpFields DEF IInv, OpInv
<1>2. op.name \in {"hook", "install", "upgrade", "action", "fail"}
  BY <1>1 DEF IInv, OpInv, OpNames, SkipOpInv
<1> QED
  BY <1>1, <1>2 DEF IInv, PhaseInv, Types

\* A hook's preparation is saved.
LEMMA HookPrepared ==
    ASSUME IInv, SavePrepared, op.name = "hook"
    PROVE  IInv'
<1>0. /\ Types /\ StateInv /\ PhaseInv /\ OpInv /\ GateInv /\ ConfigInv
      /\ op.at = "prepare" /\ op' = [op EXCEPT !.at = "execute"]
      /\ st' = Apply("runHook", "pending", op.hook, "none", 0, 0) /\ saved' = TRUE
      /\ lost \subseteq lost'
      /\ st.kind = "upgrade" => "charm" \in lost'
      /\ st.kind = "runAction" => "action" \in lost'
      /\ UNCHANGED <<ctl, unitCharm, acts, phase, w, loc, gate, reboot, rebooted,
                     dir, seen, up, ran, n>>
  BY DEF IInv, SavePrepared, Write
<1>1. /\ op' \in OpRecord /\ op'.at = "execute" /\ op'.name = op.name
      /\ op'.hook = op.hook /\ op'.action = op.action
      /\ op'.charm = op.charm /\ op'.config = op.config /\ op'.step = op.step
  BY <1>0, OpMoves DEF Places
<1>2. /\ op.hook \in Hooks /\ HookFits(op.hook) /\ op.hook # "none"
      /\ st.hook \in {"none", "install", op.hook} \/ op.hook = "start"
      /\ op.step = "done"
  BY <1>0 DEF OpInv, HookOpInv, Hooks
<1>3. /\ st' \in StateRecord
      /\ st'.kind = "runHook" /\ st'.step = "pending" /\ st'.hook = op.hook
      /\ st'.action = 0 /\ st'.charm = 0
      /\ st'.started = st.started /\ st'.stopped = st.stopped
      /\ st'.installed = st.installed /\ st'.config = st.config
  <2>1. /\ "runHook" \in Kinds /\ "pending" \in Progress /\ op.hook \in HookOrNone
        /\ "none" \in Progress \union {"none"} /\ 0 \in Actions \union {0}
        /\ 0 \in Nat
    BY <1>2 DEF Kinds, Progress, HookOrNone
  <2> QED
    BY <1>0, <2>1 DEF Types, StateRecord, Apply
<1>4. phase = "loop" /\ st.kind \in {"runHook", "runAction", "continue", "upgrade"}
  BY <1>0, FieldTypes DEF PhaseInv, Types, Kinds
<1>5. Types'
  BY <1>0, <1>1, <1>3 DEF Types
<1>6. HookFits(op.hook)'
  BY <1>0, <1>1, <1>2, <1>3 DEF HookFits
<1>7. StateInv'
  <2>1. Valid(st)'
    BY <1>2, <1>3 DEF Valid
  <2>2. HookFits(st.hook)'
    BY <1>1, <1>3, <1>6
  <2>3. (up => (st.started /\ ~st.stopped) \/ st.hook = "start" \/ "start" \in lost)'
    BY <1>0, <1>2, <1>3 DEF StateInv
  <2> QED
    BY <1>0, <1>3, <2>1, <2>2, <2>3 DEF StateInv
<1>8. PhaseInv'
  BY <1>0, <1>1, <1>3, <1>4 DEF PhaseInv
<1>9. OpInv'
  BY <1>0, <1>1, <1>2, <1>3, <1>6 DEF OpInv, HookOpInv, SkipOpInv, DeployOpInv,
                                      ActionOpInv, OpNames
<1>10. GateInv'
  BY <1>0, <1>1 DEF GateInv
<1>11. \A a \in Actions : RunInv(a)'
  BY <1>0, <1>1, <1>3 DEF IInv, RunInv
<1>12. ConfigInv'
  BY <1>0, <1>1, <1>3 DEF ConfigInv
<1>13. ("charm" \in lost \/ CharmInv)'
  BY <1>0, <1>1, <1>3, <1>4 DEF IInv, CharmInv, Told
<1> QED
  BY <1>5, <1>7, <1>8, <1>9, <1>10, <1>11, <1>12, <1>13 DEF IInv

\* A deployment's preparation is saved.
LEMMA DeployPrepared ==
    ASSUME IInv, SavePrepared, op.name \in {"install", "upgrade"}
    PROVE  IInv'
<1>0. /\ Types /\ StateInv /\ PhaseInv /\ OpInv /\ GateInv /\ ConfigInv
      /\ op.at = "prepare" /\ op' = [op EXCEPT !.at = "execute"]
      /\ st' = Apply(op.name, "pending", InterruptedHook, st.hookStep, 0, op.charm)
      /\ saved' = TRUE /\ lost \subseteq lost'
      /\ op.name = "upgrade" /\ st.kind = "runAction" => "action" \in lost'
      /\ op.name = "upgrade" /\ st.kind = "runAction" /\ st.hook = "start" =>
            "start" \in lost'
      /\ UNCHANGED <<ctl, unitCharm, acts, phase, w, loc, gate, reboot, rebooted,
                     dir, seen, up, ran, n>>
  BY DEF IInv, SavePrepared, Write, DeployState
<1>1. /\ op' \in OpRecord /\ op'.at = "execute" /\ op'.name = op.name
      /\ op'.hook = op.hook /\ op'.action = op.action
      /\ op'.charm = op.charm /\ op'.config = op.config /\ op'.step = op.step
  BY <1>0, OpMoves DEF Places
<1>2. /\ op.charm \in Nat \ {0} /\ op.step = "done"
      /\ op.name = "install" => st.kind = "install" /\ op.charm = st.charm
      /\ op.name = "upgrade" => st.installed \/ InterruptedHook # "none"
  BY <1>0, FieldTypes DEF OpInv, DeployOpInv
<1>3. InterruptedHook \in HookOrNone /\ st.hookStep \in Progress \union {"none"}
      /\ st.kind \in Kinds
  BY <1>0, FieldTypes DEF InterruptedHook, HookOrNone
<1>4. /\ st' \in StateRecord
      /\ st'.kind = op.name /\ st'.step = "pending" /\ st'.hook = InterruptedHook
      /\ st'.action = 0 /\ st'.charm = op.charm
      /\ st'.started = st.started /\ st'.stopped = st.stopped
      /\ st'.installed = st.installed /\ st'.config = st.config
  BY <1>0, <1>2, <1>3, ApplyFields, SMTT(60) DEF Kinds, Progress
<1>5. /\ op.name = "upgrade" => phase \in {"loop", "enter"} /\ st.kind # "install"
      /\ op.name = "install" => phase = "install"
  BY <1>0, UnderWay DEF PhaseInv
<1>6. Types'
  BY <1>0, <1>1, <1>4 DEF Types
<1>7. StateInv'
  <2>1. Valid(st)'
    BY <1>0, <1>2, <1>4 DEF StateInv, Valid
  <2>2. HookFits(st.hook)'
    BY <1>0, <1>4 DEF StateInv, HookFits, InterruptedHook, Hooks
  <2>3. op.name = "install" => InterruptedHook = "none"
    BY <1>2 DEF InterruptedHook
  <2>4. (up => (st.started /\ ~st.stopped) \/ st.hook = "start" \/ "start" \in lost)'
    <3>1. ASSUME st.hook = "start"
          PROVE  InterruptedHook = "start" \/ "start" \in lost'
      BY <1>0, <1>2, <1>3, <3>1 DEF InterruptedHook, StateInv, Valid, Kinds
    <3> QED
      BY <1>0, <1>4, <3>1 DEF StateInv
  <2> QED
    BY <1>0, <1>2, <1>4, <2>1, <2>2, <2>3, <2>4 DEF StateInv
<1>8. PhaseInv'
  BY <1>0, <1>1, <1>2, <1>4, <1>5 DEF PhaseInv
<1>9. OpInv'
  BY <1>0, <1>1, <1>2, <1>4 DEF OpInv, HookOpInv, SkipOpInv, DeployOpInv,
                                ActionOpInv, OpNames
<1>10. GateInv'
  BY <1>0, <1>1 DEF GateInv
<1>11. \A a \in Actions : RunInv(a)'
  BY <1>0, <1>1, <1>2, <1>4 DEF IInv, RunInv
<1>12. ConfigInv'
  BY <1>0, <1>1, <1>4 DEF ConfigInv
<1>13. ("charm" \in lost \/ CharmInv)'
  BY <1>0, <1>1, <1>2, <1>4, <1>5 DEF IInv, CharmInv, Told
<1> QED
  BY <1>6, <1>7, <1>8, <1>9, <1>10, <1>11, <1>12, <1>13 DEF IInv

\* An action's preparation is saved.
LEMMA ActionPrepared ==
    ASSUME IInv, SavePrepared, op.name \in {"action", "fail"}
    PROVE  IInv'
<1>0. /\ Types /\ StateInv /\ PhaseInv /\ OpInv /\ GateInv /\ ConfigInv
      /\ op.at = "prepare" /\ op' = [op EXCEPT !.at = "execute"]
      /\ st' = Apply("runAction", "pending", st.hook, "none", op.action, 0)
      /\ saved' = TRUE /\ lost \subseteq lost'
      /\ UNCHANGED <<ctl, unitCharm, acts, phase, w, loc, gate, reboot, rebooted,
                     dir, seen, up, ran, n>>
  BY DEF IInv, SavePrepared, Write, ActionState
<1>1. /\ op' \in OpRecord /\ op'.at = "execute" /\ op'.name = op.name
      /\ op'.hook = op.hook /\ op'.action = op.action
      /\ op'.charm = op.charm /\ op'.config = op.config /\ op'.step = op.step
  BY <1>0, OpMoves DEF Places
<1>2. /\ op.action \in Actions /\ op.action # 0
      /\ st.kind \in {"runHook", "runAction", "continue"} /\ op.step = "done"
      /\ st.kind = "runAction" /\ st.step = "pending" => op.action = st.action
  BY <1>0 DEF OpInv, ActionOpInv, Actions
<1>3. /\ st' \in StateRecord
      /\ st'.kind = "runAction" /\ st'.step = "pending" /\ st'.hook = st.hook
      /\ st'.action = op.action /\ st'.charm = 0
      /\ st'.started = st.started /\ st'.stopped = st.stopped
      /\ st'.installed = st.installed /\ st'.config = st.config
  <2>1. /\ "runAction" \in Kinds /\ "pending" \in Progress /\ st.hook \in HookOrNone
        /\ "none" \in Progress \union {"none"} /\ op.action \in Actions \union {0}
        /\ 0 \in Nat
    BY <1>0, <1>2, FieldTypes DEF Kinds, Progress
  <2> QED
    BY <1>0, <2>1 DEF Types, StateRecord, Apply
<1>4. phase = "loop"
  BY <1>0 DEF PhaseInv, Types
<1>5. Types'
  BY <1>0, <1>1, <1>3 DEF Types
<1>6. StateInv'
  <2>1. Valid(st)'
    BY <1>2, <1>3 DEF Valid
  <2>2. HookFits(st.hook)'
    BY <1>0, <1>3 DEF StateInv, HookFits
  <2> QED
    BY <1>0, <1>3, <2>1, <2>2 DEF StateInv
<1>7. PhaseInv'
  BY <1>0, <1>1, <1>3, <1>4 DEF PhaseInv
<1>8. OpInv'
  BY <1>0, <1>1, <1>2, <1>3 DEF OpInv, HookOpInv, SkipOpInv, DeployOpInv,
                                ActionOpInv, OpNames
<1>9. GateInv'
  BY <1>0, <1>1 DEF GateInv
<1>10. \A a \in Actions : RunInv(a)'
  BY <1>0, <1>1, <1>2, <1>3 DEF IInv, RunInv
<1>11. ConfigInv'
  BY <1>0, <1>1, <1>3 DEF ConfigInv
<1>12. ("charm" \in lost \/ CharmInv)'
  BY <1>0, <1>1, <1>2, <1>3 DEF IInv, CharmInv, Told
<1> QED
  BY <1>5, <1>6, <1>7, <1>8, <1>9, <1>10, <1>11, <1>12 DEF IInv

\* The state that Prepare returned is saved.
LEMMA SavePreparedKeeps ==
    ASSUME IInv, SavePrepared
    PROVE  IInv'
<1>1. op.at = "prepare"
  BY DEF SavePrepared
<1>2. op.name \in {"hook", "install", "upgrade", "action", "fail"}
  BY <1>1, UnderWay
<1> QED
  BY <1>2, HookPrepared, DeployPrepared, ActionPrepared

(* What follows the save of an executed operation: its commit, or the end   *)
(* of the loop or of the process, which only a hook can ask for.            *)
Follows ==
    \/ /\ op.step = "done" /\ op' = [op EXCEPT !.at = "commit"]
       /\ UNCHANGED <<phase, w, loc, gate>>
    \/ op.step \in {"reboot", "requeue"} /\ Down /\ gate' = FALSE
    \/ /\ op.step = "terminated" /\ op' = NoOp /\ phase' = "enter"
       /\ UNCHANGED <<w, loc, gate>>

\* The steps of an executed operation.
LEMMA SaveFollows ==
    ASSUME Types, SaveExecuted
    PROVE  Follows
<1>1. op.step \in {"done", "reboot", "requeue", "terminated"}
  BY FieldTypes
<1> QED
  BY <1>1 DEF SaveExecuted, Follows

\* Its fields.
LEMMA FollowsFields ==
    ASSUME Types, Follows
    PROVE  /\ op' \in OpRecord /\ w' \in Snapshot /\ loc' \in LocalRecord
           /\ gate' \in BOOLEAN
           /\ \/ /\ op.step = "done" /\ op'.at = "commit" /\ op'.name = op.name
                 /\ op'.hook = op.hook /\ op'.action = op.action
                 /\ op'.charm = op.charm /\ op'.config = op.config
                 /\ op'.step = "done" /\ UNCHANGED <<phase, w, loc, gate>>
              \/ /\ op.step # "done" /\ op' = NoOp /\ op'.name = "none"
                 /\ op'.at = "none" /\ op'.step = "done" /\ op'.config = 0
                 /\ \/ phase' = "down" /\ w'.config = 0
                    \/ phase' = "enter" /\ UNCHANGED <<w, loc, gate>>
<1>1. CASE op.step = "done" /\ op' = [op EXCEPT !.at = "commit"]
           /\ UNCHANGED <<phase, w, loc, gate>>
  BY <1>1, OpMoves DEF Places, Types
<1>2. CASE op.step \in {"reboot", "requeue"} /\ Down /\ gate' = FALSE
  BY <1>2, DownFields
<1>3. CASE op.step = "terminated" /\ op' = NoOp /\ phase' = "enter"
           /\ UNCHANGED <<w, loc, gate>>
  BY <1>3, NoOpFields DEF Types
<1> QED
  BY <1>1, <1>2, <1>3 DEF Follows

\* An executed hook is saved.
LEMMA HookExecuted ==
    ASSUME IInv, SaveExecuted, op.name = "hook"
    PROVE  IInv'
<1> DEFINE p == IF op.step \in {"done", "reboot"} THEN "done" ELSE "queued"
<1>0. /\ Types /\ StateInv /\ PhaseInv /\ OpInv /\ GateInv /\ ConfigInv
      /\ op.at = "save" /\ saved' = TRUE
      /\ UNCHANGED <<ctl, unitCharm, acts, dir, seen, up, ran, lost, n>>
  BY DEF IInv, SaveExecuted, Write
<1>1. st' = Apply("runHook", p, op.hook, p, 0, 0)
  <2>1. op.step \in {"done", "reboot", "requeue", "terminated"}
    BY <1>0, FieldTypes
  <2> QED
    BY <2>1 DEF SaveExecuted, Write
<1>2. /\ op.hook \in Hooks /\ HookFits(op.hook) /\ op.hook # "none"
      /\ st.hook = op.hook /\ st.kind = "runHook"
      /\ op.hook = "stop" /\ op.step = "done" => ~up
  BY <1>0 DEF OpInv, HookOpInv, Hooks
<1>3. /\ st' \in StateRecord
      /\ st'.kind = "runHook" /\ st'.hook = op.hook
      /\ st'.action = 0 /\ st'.charm = 0
      /\ st'.started = st.started /\ st'.stopped = st.stopped
      /\ st'.installed = st.installed /\ st'.config = st.config
  <2>1. /\ "runHook" \in Kinds /\ p \in Progress /\ op.hook \in HookOrNone
        /\ p \in Progress \union {"none"} /\ 0 \in Actions \union {0}
        /\ 0 \in Nat
    BY <1>2 DEF Kinds, Progress, HookOrNone
  <2> HIDE DEF p
  <2> QED
    BY <1>0, <1>1, <2>1 DEF Types, StateRecord, Apply
<1> HIDE DEF p
<1>4. phase = "loop"
  BY <1>0 DEF PhaseInv, Types
<1>5. /\ op' \in OpRecord /\ w' \in Snapshot /\ loc' \in LocalRecord
      /\ gate' \in BOOLEAN
      /\ \/ /\ op.step = "done" /\ op'.at = "commit" /\ op'.name = op.name
            /\ op'.hook = op.hook /\ op'.action = op.action
            /\ op'.charm = op.charm /\ op'.config = op.config
            /\ op'.step = "done" /\ UNCHANGED <<phase, w, loc, gate>>
         \/ /\ op.step # "done" /\ op' = NoOp /\ op'.name = "none"
            /\ op'.at = "none" /\ op'.step = "done" /\ op'.config = 0
            /\ \/ phase' = "down" /\ w'.config = 0
               \/ phase' = "enter" /\ UNCHANGED <<w, loc, gate>>
  BY <1>0, SaveFollows, FollowsFields
<1>6. Types'
  BY <1>0, <1>3, <1>5 DEF Types
<1>7. HookFits(st.hook)'
  BY <1>0, <1>2, <1>3 DEF HookFits
<1>8. StateInv'
  <2>1. Valid(st)'
    BY <1>2, <1>3 DEF Valid
  <2> QED
    BY <1>0, <1>2, <1>3, <1>7, <2>1 DEF StateInv
<1>9. PhaseInv'
  BY <1>0, <1>3, <1>4, <1>5 DEF PhaseInv
<1>10. OpInv'
  <2>1. CASE op.step = "done"
    <3>1. HookOpInv'
      <4>1. HookFits(op.hook)'
        BY <1>3, <1>5, <1>7, <2>1
      <4> QED
        BY <1>0, <1>2, <1>3, <1>5, <2>1, <4>1 DEF HookOpInv
    <3> QED
      BY <1>5, <2>1, <3>1 DEF OpInv, OpNames, SkipOpInv, DeployOpInv, ActionOpInv
  <2>2. CASE op.step # "done"
    BY <1>5, <2>2 DEF OpInv, OpNames, HookOpInv, SkipOpInv, DeployOpInv,
                      ActionOpInv
  <2> QED
    BY <2>1, <2>2
<1>11. GateInv'
  BY <1>0, <1>4, <1>5 DEF GateInv
<1>12. \A a \in Actions : RunInv(a)'
  BY <1>0, <1>2, <1>3, <1>5 DEF IInv, RunInv
<1>13. ConfigInv'
  BY <1>0, <1>3, <1>5, FieldTypes, SMTT(60) DEF ConfigInv
<1>14. ("charm" \in lost \/ CharmInv)'
  BY <1>0, <1>2, <1>3, <1>4, <1>5 DEF IInv, CharmInv, Told
<1> QED
  BY <1>6, <1>8, <1>9, <1>10, <1>11, <1>12, <1>13, <1>14 DEF IInv

\* An operation that is not a hook is committed after its execution.
LEMMA OtherFollows ==
    ASSUME IInv, SaveExecuted, op.name # "hook"
    PROVE  /\ op' \in OpRecord /\ op'.at = "commit" /\ op'.name = op.name
           /\ op'.hook = op.hook /\ op'.action = op.action
           /\ op'.charm = op.charm /\ op'.config = op.config
           /\ op'.step = "done" /\ UNCHANGED <<phase, w, loc, gate>>
<1>1. op.step = "done" /\ Types
  BY DEF IInv, OpInv
<1> QED
  BY <1>1, SaveFollows, FollowsFields

\* An executed deployment is saved.
LEMMA DeployExecuted ==
    ASSUME IInv, SaveExecuted, op.name \in {"install", "upgrade"}
    PROVE  IInv'
<1>0. /\ Types /\ StateInv /\ PhaseInv /\ OpInv /\ GateInv /\ ConfigInv
      /\ op.at = "save" /\ saved' = TRUE
      /\ st' = Apply(op.name, "done", InterruptedHook, st.hookStep, 0, op.charm)
      /\ UNCHANGED <<ctl, unitCharm, acts, dir, seen, up, ran, lost, n>>
  BY DEF IInv, SaveExecuted, Write, DeployState
<1>1. /\ op' \in OpRecord /\ op'.at = "commit" /\ op'.name = op.name
      /\ op'.hook = op.hook /\ op'.action = op.action
      /\ op'.charm = op.charm /\ op'.config = op.config
      /\ op'.step = "done" /\ UNCHANGED <<phase, w, loc, gate>>
  BY OtherFollows
<1>2. /\ op.charm \in Nat \ {0} /\ st.kind = op.name /\ op.charm = st.charm
      /\ InterruptedHook = st.hook
  BY <1>0, FieldTypes DEF OpInv, DeployOpInv, InterruptedHook, StateInv
<1>3. /\ st' \in StateRecord
      /\ st'.kind = op.name /\ st'.step = "done" /\ st'.hook = st.hook
      /\ st'.action = 0 /\ st'.charm = op.charm
      /\ st'.started = st.started /\ st'.stopped = st.stopped
      /\ st'.installed = st.installed /\ st'.config = st.config
  <2>1. /\ op.name \in Kinds /\ "done" \in Progress /\ st.hook \in HookOrNone
        /\ st.hookStep \in Progress \union {"none"} /\ 0 \in Actions \union {0}
    BY <1>0, FieldTypes DEF Kinds, Progress
  <2> QED
    BY <1>0, <1>2, <2>1 DEF Types, StateRecord, Apply
<1>4. Types'
  BY <1>0, <1>1, <1>3 DEF Types
<1>5. StateInv'
  <2>1. Valid(st)'
    BY <1>0, <1>2, <1>3 DEF StateInv, Valid
  <2>2. HookFits(st.hook)'
    BY <1>0, <1>3 DEF StateInv, HookFits
  <2> QED
    BY <1>0, <1>2, <1>3, <2>1, <2>2 DEF StateInv
<1>6. PhaseInv'
  BY <1>0, <1>1, <1>2, <1>3 DEF PhaseInv
<1>7. OpInv'
  BY <1>0, <1>1, <1>2, <1>3 DEF OpInv, HookOpInv, SkipOpInv, DeployOpInv,
                                ActionOpInv, OpNames
<1>8. GateInv'
  BY <1>0, <1>1 DEF GateInv
<1>9. \A a \in Actions : RunInv(a)'
  BY <1>0, <1>1, <1>2, <1>3 DEF IInv, RunInv
<1>10. ConfigInv'
  BY <1>0, <1>1, <1>3 DEF ConfigInv
<1>11. ("charm" \in lost \/ CharmInv)'
  <2>1. op.name = "install" => phase = "install"
    BY <1>0, UnderWay
  <2> QED
    BY <1>0, <1>1, <1>2, <1>3, <2>1 DEF IInv, CharmInv, Told
<1> QED
  BY <1>4, <1>5, <1>6, <1>7, <1>8, <1>9, <1>10, <1>11 DEF IInv

\* An executed action is saved.
LEMMA ActionExecuted ==
    ASSUME IInv, SaveExecuted, op.name \in {"action", "fail"}
    PROVE  IInv'
<1>0. /\ Types /\ StateInv /\ PhaseInv /\ OpInv /\ GateInv /\ ConfigInv
      /\ op.at = "save" /\ saved' = TRUE
      /\ st' = Apply("runAction", "done", st.hook, "none", op.action, 0)
      /\ UNCHANGED <<ctl, unitCharm, acts, dir, seen, up, ran, lost, n>>
  BY DEF IInv, SaveExecuted, Write, ActionState
<1>1. /\ op' \in OpRecord /\ op'.at = "commit" /\ op'.name = op.name
      /\ op'.hook = op.hook /\ op'.action = op.action
      /\ op'.charm = op.charm /\ op'.config = op.config
      /\ op'.step = "done" /\ UNCHANGED <<phase, w, loc, gate>>
  BY OtherFollows
<1>2. /\ op.action \in Actions /\ op.action # 0
      /\ st.kind = "runAction" /\ st.action = op.action
  BY <1>0 DEF OpInv, ActionOpInv, Actions
<1>3. /\ st' \in StateRecord
      /\ st'.kind = "runAction" /\ st'.step = "done" /\ st'.hook = st.hook
      /\ st'.action = op.action /\ st'.charm = 0
      /\ st'.started = st.started /\ st'.stopped = st.stopped
      /\ st'.installed = st.installed /\ st'.config = st.config
  <2>1. /\ "runAction" \in Kinds /\ "done" \in Progress /\ st.hook \in HookOrNone
        /\ "none" \in Progress \union {"none"} /\ op.action \in Actions \union {0}
        /\ 0 \in Nat
    BY <1>0, <1>2, FieldTypes DEF Kinds, Progress
  <2> QED
    BY <1>0, <2>1 DEF Types, StateRecord, Apply
<1>4. Types'
  BY <1>0, <1>1, <1>3 DEF Types
<1>5. StateInv'
  <2>1. Valid(st)'
    BY <1>2, <1>3 DEF Valid
  <2>2. HookFits(st.hook)'
    BY <1>0, <1>3 DEF StateInv, HookFits
  <2> QED
    BY <1>0, <1>3, <2>1, <2>2 DEF StateInv
<1>6. PhaseInv'
  BY <1>0, <1>1, <1>2, <1>3 DEF PhaseInv
<1>7. OpInv'
  BY <1>0, <1>1, <1>2, <1>3 DEF OpInv, HookOpInv, SkipOpInv, DeployOpInv,
                                ActionOpInv, OpNames
<1>8. GateInv'
  BY <1>0, <1>1 DEF GateInv
<1>9. \A a \in Actions : RunInv(a)'
  BY <1>0, <1>1, <1>2, <1>3 DEF IInv, RunInv
<1>10. ConfigInv'
  BY <1>0, <1>1, <1>3 DEF ConfigInv
<1>11. ("charm" \in lost \/ CharmInv)'
  BY <1>0, <1>1, <1>2, <1>3 DEF IInv, CharmInv, Told
<1> QED
  BY <1>4, <1>5, <1>6, <1>7, <1>8, <1>9, <1>10, <1>11 DEF IInv

\* The state that Execute returned is saved.
LEMMA SaveExecutedKeeps ==
    ASSUME IInv, SaveExecuted
    PROVE  IInv'
<1>1. op.at = "save"
  BY DEF SaveExecuted
<1>2. op.name \in {"hook", "install", "upgrade", "action", "fail"}
  BY <1>1, UnderWay
<1> QED
  BY <1>2, HookExecuted, DeployExecuted, ActionExecuted

-----------------------------------------------------------------------------
(* Commit.                                                                 *)

\* What every commit does.
Committed ==
    /\ op' = NoOp /\ op' \in OpRecord /\ op'.name = "none" /\ op'.at = "none"
    /\ op'.step = "done" /\ op'.config = 0
    /\ w' \in Snapshot /\ w'.charm = w.charm /\ w'.config = w.config
    /\ loc' \in LocalRecord
    /\ loc'.charm = (IF op.name = "upgrade" THEN op.charm ELSE loc.charm)
    /\ IF phase = "loop" THEN phase' = "loop" /\ gate' = CharmDirAvailable(st')
       ELSE phase' = "watch" /\ gate' = gate
    /\ saved' = TRUE /\ lost \subseteq lost'
    /\ up' = (up /\ ~(op.name = "skip" /\ op.hook = "stop"))
    /\ op.name = "skip" /\ op.hook = "config-changed" /\ op.config # seen =>
          "config" \in lost'
    /\ UNCHANGED <<ctl, unitCharm, acts, dir, seen, ran>>

\* The operations that can be committed, and where.
LEMMA CommitOps ==
    ASSUME IInv, op.at = "commit"
    PROVE  /\ op.name \in {"hook", "skip", "install", "upgrade", "action",
                           "fail", "accept", "resign"}
           /\ op.step = "done"
           /\ op.name = "install" => phase = "install"
           /\ op.name = "upgrade" => phase \in {"loop", "enter"}
           /\ op.name \notin {"install", "upgrade"} => phase = "loop"
<1>1. op.name # "none"
  BY NoOpFields DEF IInv, OpInv
<1>2. op.name \in {"hook", "skip", "install", "upgrade", "action", "fail",
                   "accept", "resign"}
  BY <1>1 DEF IInv, OpInv, OpNames
<1>3. op.step = "done"
  BY DEF IInv, OpInv
<1> QED
  BY <1>1, <1>2, <1>3 DEF IInv, PhaseInv, Types

\* A commit does what every commit does.
LEMMA CommitIs ==
    ASSUME IInv, Commit
    PROVE  Committed
<1>0. /\ Types /\ op.at = "commit" /\ op' = NoOp
      /\ w' = [w EXCEPT !.acts = RemoveFirst(w.acts, op.action)]
      /\ UNCHANGED <<ctl, unitCharm, acts, dir, seen, ran>>
  BY DEF IInv, Commit
<1>1. /\ op' \in OpRecord /\ op'.name = "none" /\ op'.at = "none"
      /\ op'.step = "done" /\ op'.config = 0
  BY <1>0, NoOpFields
<1>2. w' \in Snapshot /\ w'.charm = w.charm /\ w'.config = w.config
  <2>1. RemoveFirst(w.acts, op.action) \in Seq(Actions)
    BY <1>0, FieldTypes, RemoveFirstType
  <2> DEFINE q == RemoveFirst(w.acts, op.action)
  <2> HIDE DEF q
  <2>2. w' = [w EXCEPT !.acts = q] /\ q \in Seq(Actions)
    BY <1>0, <2>1 DEF q
  <2> QED
    BY <1>0, <2>2 DEF Types, Snapshot
<1>3. /\ op.name \in {"hook", "skip", "install", "upgrade", "action", "fail",
                      "accept", "resign"}
  BY <1>0, CommitOps
<1>4. /\ loc' \in LocalRecord
      /\ loc'.charm = (IF op.name = "upgrade" THEN op.charm ELSE loc.charm)
  <2>1. op.ver \in Nat /\ op.charm \in Nat
    BY <1>0, FieldTypes
  <2>2. CASE op.name \in {"hook", "skip"}
    <3>1. loc' = [loc EXCEPT !.ver = op.ver]
      BY <2>2 DEF Commit
    <3> QED
      BY <1>0, <2>1, <2>2, <3>1 DEF Types, LocalRecord
  <2>3. CASE op.name = "upgrade"
    <3>1. loc' = [loc EXCEPT !.charm = op.charm, !.ver = op.ver,
                             !.restart = TRUE, !.conflicted = FALSE]
      BY <2>3 DEF Commit
    <3> QED
      BY <1>0, <2>1, <2>3, <3>1 DEF Types, LocalRecord
  <2>4. CASE op.name \notin {"hook", "skip", "upgrade"}
    BY <1>0, <2>4 DEF Commit, Types
  <2> QED
    BY <2>2, <2>3, <2>4
<1>5. saved' = TRUE
  BY <1>3 DEF Commit, Write
<1>6. IF phase = "loop" THEN phase' = "loop" /\ gate' = CharmDirAvailable(st')
      ELSE phase' = "watch" /\ gate' = gate
  BY DEF Commit
<1>7. /\ lost \subseteq lost'
      /\ up' = (up /\ ~(op.name = "skip" /\ op.hook = "stop"))
      /\ op.name = "skip" /\ op.hook = "config-changed" /\ op.config # seen =>
            "config" \in lost'
  BY DEF Commit
<1> QED
  BY <1>0, <1>1, <1>2, <1>4, <1>5, <1>6, <1>7 DEF Committed

\* The rest of the invariant follows from what the state has become.
LEMMA CommittedKeeps ==
    ASSUME IInv, op.at = "commit", Committed, st' \in StateRecord, StateInv',
           st'.kind # "install",
           \A a \in Actions :
               acts[a] = "running" =>
                   \/ /\ st'.kind = "runAction" /\ st'.action = a
                      /\ st'.step = "pending" /\ st'.hook = "none"
                   \/ "action" \in lost,
           st'.config <= seen \/ "config" \in lost',
           ("charm" \in lost \/ CharmInv)'
    PROVE  IInv'
<1>0. Types /\ StateInv /\ PhaseInv /\ OpInv /\ GateInv /\ ConfigInv
  BY DEF IInv
<1>1. /\ op' = NoOp /\ op' \in OpRecord /\ op'.name = "none" /\ op'.at = "none"
      /\ op'.step = "done" /\ op'.config = 0
      /\ w' \in Snapshot /\ w'.charm = w.charm /\ w'.config = w.config
      /\ loc' \in LocalRecord
      /\ loc'.charm = (IF op.name = "upgrade" THEN op.charm ELSE loc.charm)
      /\ IF phase = "loop" THEN phase' = "loop" /\ gate' = CharmDirAvailable(st')
         ELSE phase' = "watch" /\ gate' = gate
      /\ saved' = TRUE /\ lost \subseteq lost'
      /\ UNCHANGED <<ctl, unitCharm, acts, dir, seen, ran>>
  BY DEF Committed
<1>2. up' \in BOOLEAN
  BY <1>0, Zenon DEF Committed, Types
<1>3. CharmDirAvailable(st') \in BOOLEAN /\ CharmDirAvailable(st)' = CharmDirAvailable(st')
  BY DEF CharmDirAvailable
<1>4. gate' \in BOOLEAN
  BY <1>0, <1>1, <1>3 DEF Types
<1>5. Types'
  BY <1>0, <1>1, <1>2, <1>4 DEF Types
<1>6. PhaseInv'
  <2>1. /\ op.name = "install" => phase = "install"
        /\ op.name = "upgrade" => phase \in {"loop", "enter"}
        /\ op.name \notin {"install", "upgrade"} => phase = "loop"
    BY CommitOps
  <2>2. op.name \in {"install", "upgrade"} => op.charm # 0
    BY <1>0 DEF OpInv, DeployOpInv
  <2>3. op.name = "install" => loc.charm = op.charm
    BY <1>0, <2>1 DEF PhaseInv, OpInv, DeployOpInv
  <2>4. loc'.charm # 0
    BY <1>0, <1>1, <2>1, <2>2, <2>3 DEF PhaseInv
  <2>5. phase' = "loop" => w'.charm # 0
    BY <1>0, <1>1 DEF PhaseInv
  <2> QED
    BY <1>1, <2>4, <2>5 DEF PhaseInv
<1>7. OpInv'
  BY <1>1 DEF OpInv, OpNames, HookOpInv, SkipOpInv, DeployOpInv, ActionOpInv
<1>8. GateInv'
  BY <1>1, <1>3 DEF GateInv
<1>9. \A a \in Actions : RunInv(a)'
  BY <1>1 DEF IInv, RunInv
<1>10. ConfigInv'
  BY <1>0, <1>1, FieldTypes DEF ConfigInv
<1> QED
  BY <1>5, <1>6, <1>7, <1>8, <1>9, <1>10 DEF IInv

\* The charm when a state that is not a deployment is committed.
LEMMA CharmCommitted ==
    ASSUME IInv, Committed, st'.kind \in {"runHook", "continue"},
           CharmInv => dir = unitCharm /\ loc'.charm = unitCharm
    PROVE  ("charm" \in lost \/ CharmInv)'
<1>1. op'.name = "none" /\ lost \subseteq lost' /\ UNCHANGED <<unitCharm, dir>>
  BY DEF Committed
<1> QED
  BY <1>1 DEF IInv, CharmInv, Told

\* The hook that is queued after one is committed, if any.
QueuedNext ==
    IF op.hook = "config-changed" /\ ~st.started THEN "start"
    ELSE IF op.hook = "upgrade-charm" THEN "config-changed" ELSE "none"

\* The flags that a committed hook sets.
LEMMA FlagsFields ==
    ASSUME NEW b \in StateRecord, NEW s, s = HookFlags(b), op.hook \in Hooks,
           op.config \in Nat
    PROVE  /\ s \in StateRecord
           /\ s.kind = b.kind /\ s.step = b.step /\ s.hook = b.hook
           /\ s.action = b.action /\ s.charm = b.charm
           /\ s.installed = (IF op.hook = "install" THEN TRUE ELSE b.installed)
           /\ s.started = (IF op.hook = "start" THEN TRUE ELSE b.started)
           /\ s.stopped = (IF op.hook = "start" THEN FALSE
                           ELSE IF op.hook = "stop" THEN TRUE ELSE b.stopped)
           /\ s.config = (IF op.hook = "config-changed" THEN op.config
                          ELSE b.config)
<1>1. CASE op.hook = "install"
  <2>1. s = [b EXCEPT !.installed = TRUE, !.removed = FALSE]
    BY <1>1 DEF HookFlags
  <2> QED
    BY <1>1, <2>1 DEF StateRecord
<1>2. CASE op.hook = "start"
  <2>1. s = [b EXCEPT !.started = TRUE, !.stopped = FALSE]
    BY <1>2 DEF HookFlags
  <2> QED
    BY <1>2, <2>1 DEF StateRecord
<1>3. CASE op.hook = "stop"
  <2>1. s = [b EXCEPT !.stopped = TRUE]
    BY <1>3 DEF HookFlags
  <2> QED
    BY <1>3, <2>1 DEF StateRecord
<1>4. CASE op.hook = "remove"
  <2>1. s = [b EXCEPT !.removed = TRUE]
    BY <1>4 DEF HookFlags
  <2> QED
    BY <1>4, <2>1 DEF StateRecord
<1>5. CASE op.hook = "config-changed"
  <2>1. s = [b EXCEPT !.config = op.config]
    BY <1>5 DEF HookFlags, HookHash
  <2> QED
    BY <1>5, <2>1 DEF StateRecord
<1>6. CASE op.hook \notin {"install", "start", "stop", "remove", "config-changed"}
  <2>1. s = b
    BY <1>6 DEF HookFlags
  <2> QED
    BY <1>6, <2>1
<1> QED
  BY <1>1, <1>2, <1>3, <1>4, <1>5, <1>6

\* A hook is committed, whether it has run or is skipped.
LEMMA HookCommitKeeps ==
    ASSUME IInv, Commit, op.name \in {"hook", "skip"}
    PROVE  IInv'
<1>0. /\ Types /\ StateInv /\ PhaseInv /\ OpInv /\ GateInv /\ ConfigInv
      /\ op.at = "commit" /\ st' = HookCommitted
  BY DEF IInv, Commit, Write
<1>1. Committed /\ phase = "loop" /\ op.step = "done"
  BY <1>0, CommitIs, CommitOps
<1>2. /\ op.hook \in Hooks /\ op.hook # "none" /\ st.hook = op.hook
      /\ st.kind \in {"runHook", "runAction"} /\ HookFits(op.hook)
      /\ st.kind = "runAction" => op.name = "skip"
      /\ op.name = "hook" /\ op.hook = "stop" => ~up
  BY <1>0, <1>1, FieldTypes DEF OpInv, HookOpInv, SkipOpInv, StateInv, HookOrNone, Hooks
<1> DEFINE k == IF QueuedNext = "none" THEN "continue" ELSE "runHook"
           p == IF QueuedNext = "none" THEN "pending" ELSE "queued"
           b == Apply(k, p, QueuedNext, "none", 0, 0)
<1>3. st' = HookFlags(b)
  BY <1>0, <1>2 DEF HookCommitted, QueuedNext
<1>4. /\ b \in StateRecord /\ b.kind = k /\ b.hook = QueuedNext /\ b.action = 0
      /\ b.charm = 0 /\ b.installed = st.installed /\ b.started = st.started
      /\ b.stopped = st.stopped /\ b.config = st.config
  <2>1. /\ k \in Kinds /\ p \in Progress /\ QueuedNext \in HookOrNone
        /\ "none" \in Progress \union {"none"} /\ 0 \in Actions \union {0}
        /\ 0 \in Nat
    BY DEF Kinds, Progress, HookOrNone, Hooks, QueuedNext
  <2> HIDE DEF k, p
  <2> QED
    BY <1>0, <2>1 DEF Types, StateRecord, Apply
<1> HIDE DEF b
<1>5. /\ st' \in StateRecord
      /\ st'.kind = k /\ st'.hook = QueuedNext /\ st'.action = 0 /\ st'.charm = 0
      /\ st'.installed = (IF op.hook = "install" THEN TRUE ELSE st.installed)
      /\ st'.started = (IF op.hook = "start" THEN TRUE ELSE st.started)
      /\ st'.stopped = (IF op.hook = "start" THEN FALSE
                        ELSE IF op.hook = "stop" THEN TRUE ELSE st.stopped)
      /\ st'.config = (IF op.hook = "config-changed" THEN op.config
                       ELSE st.config)
  <2>1. op.config \in Nat
    BY <1>0, FieldTypes
  <2> QED
    BY <1>2, <1>3, <1>4, <2>1, FlagsFields, ZenonT(60)
<1>6. saved' = TRUE /\ lost \subseteq lost'
      /\ up' = (up /\ ~(op.name = "skip" /\ op.hook = "stop"))
  BY <1>1 DEF Committed
<1>7. StateInv'
  <2>1. Valid(st)'
    BY <1>5 DEF Valid
  <2>2. HookFits(st.hook)'
    BY <1>2, <1>5 DEF HookFits, QueuedNext, Hooks
  <2>3. (up => (st.started /\ ~st.stopped) \/ st.hook = "start" \/ "start" \in lost)'
    BY <1>0, <1>2, <1>5, <1>6 DEF StateInv
  <2>4. (st.started => st.installed)'
    BY <1>0, <1>2, <1>5 DEF StateInv, HookFits, Hooks
  <2> QED
    BY <1>5, <1>6, <2>1, <2>2, <2>3, <2>4 DEF StateInv
<1>8. \A a \in Actions : acts[a] = "running" => "action" \in lost
  BY <1>0, <1>2 DEF IInv, RunInv
<1>9. st'.config <= seen \/ "config" \in lost'
  <2>1. CASE op.hook # "config-changed"
    BY <1>0, <1>5, <1>6, <2>1 DEF ConfigInv
  <2>2. CASE op.hook = "config-changed" /\ op.name = "hook"
    BY <1>0, <1>1, <1>5, <2>2 DEF ConfigInv
  <2>3. CASE op.hook = "config-changed" /\ op.name = "skip"
    <3>1. op.config # seen => "config" \in lost'
      BY <1>1, <2>3 DEF Committed
    <3>2. seen \in Nat /\ st'.config = op.config
      BY <1>0, <1>5, <2>3 DEF Types
    <3> QED
      BY <3>1, <3>2
  <2> QED
    BY <2>1, <2>2, <2>3
<1>10. ("charm" \in lost \/ CharmInv)'
  <2>1. loc'.charm = loc.charm
    BY <1>1 DEF Committed
  <2>2. CharmInv => dir = unitCharm /\ loc'.charm = unitCharm
    BY <1>1, <1>2, <2>1 DEF CharmInv, Told
  <2> QED
    BY <1>1, <1>5, <2>2, CharmCommitted
<1> QED
  BY <1>0, <1>1, <1>5, <1>7, <1>8, <1>9, <1>10, CommittedKeeps

\* A deployment is committed.
LEMMA DeployCommitKeeps ==
    ASSUME IInv, Commit, op.name \in {"install", "upgrade"}
    PROVE  IInv'
<1>0. /\ Types /\ StateInv /\ PhaseInv /\ OpInv /\ GateInv /\ ConfigInv
      /\ op.at = "commit" /\ st' = DeployCommitted
  BY DEF IInv, Commit, Write
<1>1. /\ Committed
      /\ op.name = "install" => phase = "install"
      /\ op.name = "upgrade" => phase \in {"loop", "enter"}
  BY <1>0, CommitIs, CommitOps
<1>2. st.kind = op.name /\ st.charm = op.charm /\ InterruptedHook = st.hook
  BY <1>0 DEF OpInv, DeployOpInv, InterruptedHook, StateInv
<1> DEFINE h == IF st.hook # "none" THEN st.hook
                ELSE IF op.name = "install" THEN "install" ELSE "upgrade-charm"
           p == IF st.hook # "none" THEN "pending" ELSE "queued"
           q == IF st.hook # "none" THEN st.hookStep ELSE "none"
<1>3. st' = Apply("runHook", p, h, q, 0, 0)
  BY <1>0, <1>2 DEF DeployCommitted
<1>4. /\ st' \in StateRecord
      /\ st'.kind = "runHook" /\ st'.hook = h /\ st'.action = 0 /\ st'.charm = 0
      /\ st'.installed = st.installed /\ st'.started = st.started
      /\ st'.stopped = st.stopped /\ st'.config = st.config
  <2>1. /\ "runHook" \in Kinds /\ p \in Progress /\ h \in HookOrNone
        /\ q \in Progress \union {"none"} /\ 0 \in Actions \union {0}
        /\ 0 \in Nat
    BY <1>0, FieldTypes DEF Kinds, Progress, HookOrNone, Hooks
  <2> HIDE DEF h, p, q
  <2> QED
    BY <1>0, <1>3, <2>1, ZenonT(60) DEF Types, StateRecord, Apply
<1>5. saved' = TRUE /\ lost \subseteq lost' /\ up' = up
  <2>1. up' = (up /\ ~(op.name = "skip" /\ op.hook = "stop"))
    BY <1>1 DEF Committed
  <2>2. op.name # "skip" /\ up \in BOOLEAN
    BY <1>0 DEF Types
  <2>3. up' = up
    BY <2>1, <2>2
  <2> QED
    BY <1>1, <2>3 DEF Committed
<1>6. StateInv'
  <2>1. Valid(st)'
    BY <1>4 DEF Valid
  <2>2. HookFits(st.hook)'
    BY <1>0, <1>2, <1>4, <1>5 DEF HookFits, StateInv, Valid
  <2> QED
    BY <1>0, <1>4, <1>5, <2>1, <2>2 DEF StateInv
<1>7. \A a \in Actions : acts[a] = "running" => "action" \in lost
  BY <1>0, <1>2 DEF IInv, RunInv
<1>8. st'.config <= seen \/ "config" \in lost'
  BY <1>0, <1>4, <1>5 DEF ConfigInv
<1>9. ("charm" \in lost \/ CharmInv)'
  <2>1. loc'.charm = (IF op.name = "upgrade" THEN op.charm ELSE loc.charm)
    BY <1>1 DEF Committed
  <2>2. op.name = "install" => loc.charm = st.charm
    BY <1>0, <1>1 DEF PhaseInv
  <2>3. CharmInv => dir = unitCharm /\ loc'.charm = unitCharm
    BY <1>0, <1>1, <1>2, <2>1, <2>2 DEF CharmInv, Told
  <2> QED
    BY <1>1, <1>4, <2>3, CharmCommitted
<1> HIDE DEF h
<1> QED
  BY <1>0, <1>1, <1>4, <1>6, <1>7, <1>8, <1>9, CommittedKeeps

\* The end of an action is committed.
LEMMA ActionCommitKeeps ==
    ASSUME IInv, Commit, op.name \in {"action", "fail"}
    PROVE  IInv'
<1>0. /\ Types /\ StateInv /\ PhaseInv /\ OpInv /\ GateInv /\ ConfigInv
      /\ op.at = "commit" /\ st' = ActionCommitted
  BY DEF IInv, Commit, Write
<1>1. Committed /\ phase = "loop"
  BY <1>0, CommitIs, CommitOps
<1>2. /\ st.kind \in {"runHook", "runAction", "continue"}
      /\ st.kind = "runAction" => st.action = op.action
      /\ op.action \in Actions
  BY <1>0 DEF OpInv, ActionOpInv
<1> DEFINE k == IF st.hook # "none" THEN "runHook" ELSE "continue"
<1>3. st' = Apply(k, "pending", st.hook, "none", 0, 0)
  BY <1>0 DEF ActionCommitted
<1>4. /\ st' \in StateRecord
      /\ st'.kind = k /\ st'.hook = st.hook /\ st'.action = 0 /\ st'.charm = 0
      /\ st'.installed = st.installed /\ st'.started = st.started
      /\ st'.stopped = st.stopped /\ st'.config = st.config
  <2>1. /\ k \in Kinds /\ "pending" \in Progress /\ st.hook \in HookOrNone
        /\ "none" \in Progress \union {"none"} /\ 0 \in Actions \union {0}
        /\ 0 \in Nat
    BY <1>0, FieldTypes DEF Kinds, Progress
  <2> HIDE DEF k
  <2> QED
    BY <1>0, <1>3, <2>1, ZenonT(60) DEF Types, StateRecord, Apply
<1>5. saved' = TRUE /\ lost \subseteq lost' /\ up' = up
  <2>1. up' = (up /\ ~(op.name = "skip" /\ op.hook = "stop"))
    BY <1>1 DEF Committed
  <2>2. op.name # "skip" /\ up \in BOOLEAN
    BY <1>0 DEF Types
  <2>3. up' = up
    BY <2>1, <2>2
  <2> QED
    BY <1>1, <2>3 DEF Committed
<1>6. StateInv'
  <2>1. Valid(st)'
    BY <1>4 DEF Valid
  <2>2. HookFits(st.hook)'
    BY <1>0, <1>4, <1>5 DEF HookFits, StateInv
  <2> QED
    BY <1>0, <1>4, <1>5, <2>1, <2>2 DEF StateInv
<1>7. \A a \in Actions : acts[a] = "running" => "action" \in lost
  <2> SUFFICES ASSUME NEW a \in Actions, acts[a] = "running"
               PROVE  "action" \in lost
    OBVIOUS
  <2>1. RunInv(a)
    BY DEF IInv
  <2>2. a # op.action
    BY <1>0, <2>1 DEF RunInv
  <2> QED
    BY <1>2, <2>1, <2>2 DEF RunInv
<1>8. st'.config <= seen \/ "config" \in lost'
  BY <1>0, <1>4, <1>5 DEF ConfigInv
<1>9. ("charm" \in lost \/ CharmInv)'
  <2>1. loc'.charm = loc.charm
    BY <1>1 DEF Committed
  <2>2. CharmInv => dir = unitCharm /\ loc'.charm = unitCharm
    BY <1>1, <1>2, <2>1 DEF CharmInv, Told
  <2> QED
    BY <1>1, <1>4, <2>2, CharmCommitted
<1> QED
  BY <1>0, <1>1, <1>4, <1>6, <1>7, <1>8, <1>9, CommittedKeeps

\* The leadership is accepted: its hook is queued.
LEMMA AcceptCommitKeeps ==
    ASSUME IInv, Commit, op.name = "accept"
    PROVE  IInv'
<1> DEFINE b == Apply("runHook", "queued", "leader-elected", "none", 0, 0)
<1>0. /\ Types /\ StateInv /\ PhaseInv /\ OpInv /\ GateInv /\ ConfigInv
      /\ op.at = "commit" /\ st' = [b EXCEPT !.leader = TRUE]
  BY DEF IInv, Commit, Write
<1>1. Committed /\ phase = "loop"
  BY <1>0, CommitIs, CommitOps
<1>2. st.installed /\ st.kind = "continue" /\ st.hook = "none"
  BY <1>0 DEF OpInv, StateInv, Valid
<1>3. /\ b \in StateRecord /\ b.kind = "runHook" /\ b.hook = "leader-elected"
      /\ b.action = 0 /\ b.charm = 0 /\ b.installed = st.installed
      /\ b.started = st.started /\ b.stopped = st.stopped /\ b.config = st.config
  <2>1. /\ "runHook" \in Kinds /\ "queued" \in Progress
        /\ "leader-elected" \in HookOrNone
        /\ "none" \in Progress \union {"none"} /\ 0 \in Actions \union {0}
        /\ 0 \in Nat
    BY DEF Kinds, Progress, HookOrNone, Hooks
  <2> QED
    BY <1>0, <2>1 DEF Types, StateRecord, Apply
<1> HIDE DEF b
<1>4. /\ st' \in StateRecord
      /\ st'.kind = "runHook" /\ st'.hook = "leader-elected" /\ st'.action = 0
      /\ st'.charm = 0 /\ st'.installed = st.installed
      /\ st'.started = st.started /\ st'.stopped = st.stopped
      /\ st'.config = st.config
  BY <1>0, <1>3 DEF StateRecord
<1>5. saved' = TRUE /\ lost \subseteq lost' /\ up' = up
  <2>1. up' = (up /\ ~(op.name = "skip" /\ op.hook = "stop"))
    BY <1>1 DEF Committed
  <2>2. op.name # "skip" /\ up \in BOOLEAN
    BY <1>0 DEF Types
  <2>3. up' = up
    BY <2>1, <2>2
  <2> QED
    BY <1>1, <2>3 DEF Committed
<1>6. StateInv'
  <2>1. Valid(st)'
    BY <1>4 DEF Valid
  <2>2. HookFits(st.hook)'
    BY <1>2, <1>4 DEF HookFits
  <2> QED
    BY <1>0, <1>2, <1>4, <1>5, <2>1, <2>2 DEF StateInv
<1>7. \A a \in Actions : acts[a] = "running" => "action" \in lost
  BY <1>0, <1>2 DEF IInv, RunInv
<1>8. st'.config <= seen \/ "config" \in lost'
  BY <1>0, <1>4, <1>5 DEF ConfigInv
<1>9. ("charm" \in lost \/ CharmInv)'
  <2>1. loc'.charm = loc.charm
    BY <1>1 DEF Committed
  <2>2. CharmInv => dir = unitCharm /\ loc'.charm = unitCharm
    BY <1>1, <1>2, <2>1 DEF CharmInv, Told
  <2> QED
    BY <1>1, <1>4, <2>2, CharmCommitted
<1> QED
  BY <1>0, <1>1, <1>4, <1>6, <1>7, <1>8, <1>9, CommittedKeeps

\* The leadership is given up.
LEMMA ResignCommitKeeps ==
    ASSUME IInv, Commit, op.name = "resign"
    PROVE  IInv'
<1>0. /\ Types /\ StateInv /\ PhaseInv /\ OpInv /\ GateInv /\ ConfigInv
      /\ op.at = "commit" /\ st' = [st EXCEPT !.leader = FALSE]
  BY DEF IInv, Commit, Write
<1>1. Committed /\ phase = "loop"
  BY <1>0, CommitIs, CommitOps
<1>2. /\ st' \in StateRecord
      /\ st'.kind = st.kind /\ st'.step = st.step /\ st'.hook = st.hook
      /\ st'.action = st.action
      /\ st'.charm = st.charm /\ st'.installed = st.installed
      /\ st'.started = st.started /\ st'.stopped = st.stopped
      /\ st'.config = st.config
  BY <1>0 DEF Types, StateRecord
<1>3. saved' = TRUE /\ lost \subseteq lost' /\ up' = up
  <2>1. up' = (up /\ ~(op.name = "skip" /\ op.hook = "stop"))
    BY <1>1 DEF Committed
  <2>2. op.name # "skip" /\ up \in BOOLEAN
    BY <1>0 DEF Types
  <2>3. up' = up
    BY <2>1, <2>2
  <2> QED
    BY <1>1, <2>3 DEF Committed
<1>4. StateInv'
  <2>1. Valid(st)'
    BY <1>0, <1>2 DEF StateInv, Valid
  <2>2. HookFits(st.hook)'
    BY <1>0, <1>2, <1>3 DEF HookFits, StateInv
  <2> QED
    BY <1>0, <1>2, <1>3, <2>1, <2>2 DEF StateInv
<1>5. \A a \in Actions :
          acts[a] = "running" =>
              \/ /\ st'.kind = "runAction" /\ st'.action = a
                 /\ st'.step = "pending" /\ st'.hook = "none"
              \/ "action" \in lost
  BY <1>2 DEF IInv, RunInv
<1>6. st'.config <= seen \/ "config" \in lost'
  BY <1>0, <1>2, <1>3 DEF ConfigInv
<1>7. ("charm" \in lost \/ CharmInv)'
  <2>1. /\ loc'.charm = loc.charm /\ op'.name = "none" /\ phase' = "loop"
        /\ UNCHANGED <<unitCharm, dir>>
    BY <1>1 DEF Committed
  <2> QED
    BY <1>1, <1>2, <1>3, <2>1 DEF IInv, CharmInv, Told
<1>8. st'.kind # "install"
  BY <1>0, <1>1, <1>2 DEF PhaseInv
<1> QED
  BY <1>0, <1>1, <1>2, <1>4, <1>5, <1>6, <1>7, <1>8, CommittedKeeps

\* An operation is committed.
LEMMA CommitKeeps ==
    ASSUME IInv, Commit
    PROVE  IInv'
<1>1. op.at = "commit"
  BY DEF Commit
<1>2. op.name \in {"hook", "skip", "install", "upgrade", "action", "fail",
                   "accept", "resign"}
  BY <1>1, CommitOps
<1> QED
  BY <1>2, HookCommitKeeps, DeployCommitKeeps, ActionCommitKeeps,
     AcceptCommitKeeps, ResignCommitKeeps

-----------------------------------------------------------------------------
(* The inductive invariant.                                                *)

\* A new unit.
LEMMA InitIInv ==
    ASSUME Init
    PROVE  IInv
<1>1. st \in StateRecord
  BY DEF Init, StateRecord, Kinds, Progress, HookOrNone
<1>2. op = NoOp /\ op \in OpRecord /\ op.name = "none" /\ op.at = "none"
      /\ op.step = "done" /\ op.config = 0
  BY NoOpFields DEF Init
<1>3. w \in Snapshot /\ w.config = 0
  <2>1. <<>> \in Seq(Actions)
    OBVIOUS
  <2> QED
    BY <2>1 DEF Init, NoSnapshot, Snapshot, Lives, Resolutions
<1>4. ctl \in UnitRecord /\ ctl.config = 1
  BY DEF Init, UnitRecord, Lives, Resolutions
<1>5. loc \in LocalRecord
  BY DEF Init, LocalState, LocalRecord
<1>6. acts \in [Actions -> {"none", "pending", "running", "completed",
                            "failed", "error"}]
      /\ ran \in [Actions -> Nat]
  BY DEF Init
<1>7. Types
  <2>1. /\ phase = "down" /\ unitCharm = 1 /\ dir = 0 /\ seen = 0
        /\ up = FALSE /\ gate = FALSE /\ saved = FALSE
    BY DEF Init
  <2>2. /\ phase \in {"down", "install", "watch", "enter", "loop", "terminate",
                      "ended"}
        /\ unitCharm \in Nat \ {0} /\ dir \in Nat /\ seen \in Nat
    BY <2>1
  <2>3. up \in BOOLEAN /\ gate \in BOOLEAN /\ saved \in BOOLEAN
    BY <2>1, Zenon
  <2> QED
    BY <1>1, <1>2, <1>3, <1>4, <1>5, <1>6, <2>2, <2>3 DEF Types
<1>8. /\ st.kind = "install" /\ st.step = "queued" /\ st.hook = "none"
      /\ st.action = 0 /\ st.charm = 1 /\ ~st.started /\ ~st.installed
      /\ st.config = 0
  BY DEF Init
<1>9. phase = "down" /\ ~saved /\ ~up /\ seen = 0 /\ lost = {} /\ unitCharm = 1
  BY DEF Init
<1>10. StateInv
  BY <1>8, <1>9 DEF StateInv, Valid, HookFits, Hooks
<1>11. PhaseInv /\ GateInv
  BY <1>2, <1>9 DEF PhaseInv, GateInv
<1>12. OpInv
  BY <1>2 DEF OpInv, OpNames, HookOpInv, SkipOpInv, DeployOpInv, ActionOpInv
<1>13. \A a \in Actions : RunInv(a)
  <2> SUFFICES ASSUME NEW a \in Actions PROVE RunInv(a)
    OBVIOUS
  <2>1. acts[a] = "none" /\ ran[a] = 0
    BY DEF Init
  <2> QED
    BY <1>2, <2>1 DEF RunInv
<1>14. ConfigInv
  BY <1>2, <1>3, <1>4, <1>8, <1>9 DEF ConfigInv
<1>15. CharmInv
  BY <1>2, <1>8, <1>9 DEF CharmInv, Told
<1> QED
  BY <1>7, <1>10, <1>11, <1>12, <1>13, <1>14, <1>15 DEF IInv

\* A step that changes nothing.
LEMMA StutterKeeps ==
    ASSUME IInv, UNCHANGED vars
    PROVE  IInv'
<1>1. UNCHANGED <<ctl, unitCharm, acts, st, saved, phase, w, loc, op, gate,
                  dir, seen, up, ran, lost>>
  BY DEF vars
<1>2. Types' /\ ConfigInv'
  BY <1>1 DEF IInv, Types, ConfigInv
<1>3. StateInv' /\ PhaseInv' /\ OpInv' /\ GateInv'
  BY <1>1, StateFrame, PhaseFrame, OpFrame, GateFrame DEF IInv
<1>4. \A a \in Actions : RunInv(a)'
  BY <1>1, RunFrame DEF IInv
<1>5. ("charm" \in lost \/ CharmInv)'
  BY <1>1, CharmFrame DEF IInv
<1> QED
  BY <1>2, <1>3, <1>4, <1>5 DEF IInv

\* Every step of the agent and of its surroundings keeps the invariant.
LEMMA NextKeeps ==
    ASSUME IInv, [Next]_vars
    PROVE  IInv'
<1>1. ASSUME Steps PROVE IInv'
  BY <1>1, StartKeeps, StartWatcherKeeps, EnterLoopKeeps, SavePreparedKeeps,
     SaveExecutedKeeps, CommitKeeps, ExecuteHookKeeps, ExecuteDeployKeeps,
     ExecuteActionKeeps, FinishTaskKeeps, BeginKeeps, ExitKeeps, TerminateKeeps
     DEF Steps
<1>2. ASSUME Faults PROVE IInv'
  BY <1>2, CrashKeeps, FailHookKeeps, ConflictDeployKeeps, BeginBadActionKeeps,
     ExecuteHookKeeps DEF Faults
<1>3. ASSUME Watch \/ RetryTimer \/ Change \/ Destroy PROVE IInv'
  BY <1>3, WatchKeeps, RetryTimerKeeps, ChangeKeeps, DestroyKeeps
<1> QED
  BY <1>1, <1>2, <1>3, StutterKeeps DEF Next

\* The invariant holds of every behaviour of the agent.
LEMMA Invariance == Spec => []IInv
<1>1. Init => IInv
  BY InitIInv
<1>2. IInv /\ [Next]_vars => IInv'
  BY NextKeeps
<1> QED
  BY <1>1, <1>2, PTL DEF Spec

-----------------------------------------------------------------------------
(* The theorems.                                                           *)

(* The types, and the validity of the saved state: UniterTypeOK holds       *)
(* always, so no write of the agent's state is refused by State.Validate    *)
(* and none that was saved is refused when it is read back.                 *)
THEOREM UniterTypes == Spec => []UniterTypeOK
<1>1. IInv => UniterTypeOK
  <2> SUFFICES ASSUME IInv PROVE UniterTypeOK
    OBVIOUS
  <2>1. Types /\ Valid(st)
    BY DEF IInv, StateInv
  <2> QED
    BY <2>1, FieldTypes DEF UniterTypeOK, Types, Kinds, Progress, HookOrNone, Places
<1> QED
  BY <1>1, Invariance, PTL

(* HookOrder holds always: whatever crashes, reboots, failures, upgrades    *)
(* and actions come between, every hook that runs finds the state that the  *)
(* charm expects.                                                           *)
THEOREM HooksInOrder == Spec => []HookOrder
<1>1. IInv => HookOrder
  <2> SUFFICES ASSUME IInv, op.name = "hook", op.at = "execute"
               PROVE  /\ op.hook = "install" => ~st.installed
                      /\ op.hook \in {"config-changed", "start", "upgrade-charm",
                                      "leader-elected", "stop", "remove"} =>
                            st.installed
                      /\ op.hook = "stop" => st.started /\ ~st.stopped
                      /\ op.hook = "remove" => ~up \/ "start" \in lost
    BY DEF HookOrder
  <2>1. HookFits(op.hook)
    BY DEF IInv, OpInv, HookOpInv
  <2> QED
    BY <2>1 DEF HookFits, Hooks
<1> QED
  BY <1>1, Invariance, PTL

(* CharmDirShut holds always: nobody is let into the charm directory while  *)
(* the install or the upgrade-charm hook runs.                              *)
THEOREM DirShut == Spec => []CharmDirShut
<1>1. IInv => CharmDirShut
  BY DEF IInv, GateInv, CharmDirShut
<1> QED
  BY <1>1, Invariance, PTL

(* An agent that has settled has no resolver with an operation: its charm   *)
(* and configuration are the watcher's.                                     *)
LEMMA SettledAgrees ==
    ASSUME IInv, Settled
    PROVE  /\ w.config = ctl.config /\ w.charm = ctl.charm
           /\ st.config = w.config /\ loc.charm = w.charm
           /\ op.name = "none" /\ st.kind = "continue" /\ phase = "loop"
<1>0. /\ phase = "loop" /\ op = NoOp /\ NextOp.name = "none"
      /\ st.kind = "continue" /\ ctl.life = "alive"
      /\ w = [life |-> ctl.life, resolved |-> ctl.resolved, charm |-> ctl.charm,
              ver |-> ctl.ver, force |-> ctl.force, config |-> ctl.config,
              leader |-> ctl.leader, acts |-> <<>>]
  BY DEF Settled
<1>1. op.name = "none" /\ w.config = ctl.config /\ w.charm = ctl.charm
      /\ w.life = "alive"
  BY <1>0, NoOpFields
<1>2. Asked
  BY <1>0, AskedNow
<1>3. ~(w.life = "dead" \/ st.removed)
  <2>1. Outcome("dead").name = "dead"
    BY DEF Outcome, NoOp
  <2> QED
    BY <1>0, <2>1 DEF NextOp
<1> DEFINE chain == <<RebootOp, UpgradingOp, RestartOp, LeadershipOp, ActionsOp,
                      StateOp>>
<1>4. FirstOp(chain) =
        Or(RebootOp, Or(UpgradingOp, Or(RestartOp, Or(LeadershipOp,
           Or(ActionsOp, StateOp)))))
  BY <1>2, StateAnswer, FirstOfSix DEF Answer
<1>5. NextOp = FirstOp(chain)
  BY <1>3 DEF NextOp
<1> HIDE DEF chain
<1>6. StateOp.name = "none"
  BY <1>0, <1>4, <1>5 DEF Or
<1>7. AliveOp.name = "none"
  BY <1>0, <1>1, <1>6 DEF StateOp, IdleOp
<1> DEFINE a == When(~st.installed /\ ~st.started, HookOp("hook", "install"))
           b == When(CharmModified, UpgradeOp(w.charm))
           c == When(st.config # w.config, HookOp("hook", "config-changed"))
<1>8. /\ HookOp("hook", "config-changed").name = "hook"
      /\ UpgradeOp(w.charm).name = "upgrade"
  BY DEF HookOp, UpgradeOp, NoOp
<1>9. c.name = "none" => c = NoOp
  BY <1>8 DEF When
<1>10. AliveOp = FirstOp(<<a, b, c>>)
  BY DEF AliveOp
<1>11. b.name = "none" => ~CharmModified
  BY <1>8 DEF When
<1>12. c.name = "none" => st.config = w.config
  BY <1>8 DEF When
<1> HIDE DEF a, b, c
<1>13. FirstOp(<<a, b, c>>) = Or(a, Or(b, c))
  BY <1>9, FirstOfThree
<1>14. b.name = "none" /\ c.name = "none"
  BY <1>7, <1>10, <1>13 DEF Or
<1> QED
  BY <1>0, <1>1, <1>11, <1>12, <1>14 DEF CharmModified

(* ChangesDelivered holds always: an agent that has settled has run         *)
(* config-changed with the controller's configuration and has the           *)
(* application's charm in its directory, unless it is known to have lost    *)
(* the change.                                                              *)
THEOREM ChangesReach == Spec => []ChangesDelivered
<1>1. IInv => ChangesDelivered
  <2> SUFFICES ASSUME IInv, Settled
               PROVE  /\ seen = ctl.config \/ "config" \in lost
                      /\ dir = ctl.charm \/ "charm" \in lost
    BY DEF ChangesDelivered
  <2>1. /\ w.config = ctl.config /\ w.charm = ctl.charm
        /\ st.config = w.config /\ loc.charm = w.charm
        /\ op.name = "none" /\ st.kind = "continue" /\ phase = "loop"
    BY SettledAgrees
  <2>2. seen \in Nat /\ ctl.config \in Nat
    BY FieldTypes DEF IInv, Types
  <2>3. seen <= ctl.config /\ (st.config <= seen \/ "config" \in lost)
    BY DEF IInv, ConfigInv
  <2>4. seen = ctl.config \/ "config" \in lost
    BY <2>1, <2>2, <2>3
  <2>5. dir = ctl.charm \/ "charm" \in lost
    BY <2>1 DEF IInv, CharmInv, Told
  <2> QED
    BY <2>4, <2>5
<1> QED
  BY <1>1, Invariance, PTL

(* ActionsEndOnce holds always: no action's process is started twice, and   *)
(* an agent that has settled leaves no task running unless it is known to   *)
(* have lost one.                                                           *)
THEOREM ActionsRunOnce == Spec => []ActionsEndOnce
<1>1. IInv => ActionsEndOnce
  <2> SUFFICES ASSUME IInv PROVE ActionsEndOnce
    OBVIOUS
  <2>1. \A a \in Actions : ran[a] <= 1
    BY DEF IInv, RunInv
  <2>2. ASSUME Settled, NEW a \in Actions, acts[a] = "running"
        PROVE  "action" \in lost
    <3>1. op.name = "none" /\ st.kind = "continue"
      BY <2>2, SettledAgrees
    <3> QED
      BY <2>2, <3>1 DEF IInv, RunInv
  <2> QED
    BY <2>1, <2>2 DEF ActionsEndOnce
<1> QED
  BY <1>1, Invariance, PTL
=============================================================================
