---------------------------- MODULE EngineEffects ----------------------------
(* Theorems about the external effects of proposals, for any number of       *)
(* tasks, keys, leases, processes and requests in flight.                    *)
EXTENDS EngineTyping, FiniteSetTheorems

(* The inductive invariant behind RepeatNeedsReconcile. *)
BudgetInv == TypeOK /\ EffectBudget

(* The budget of one proposal. *)
Budget(a) ==
    effects[a] + Cardinality(Pending(a)) + (IF Repeatable(a) THEN 1 ELSE 0) <= 1 + reconciled[a]

----------------------------------------------------------------------------
(* The requests that may still reach the provider are finitely many. *)
LEMMA PendingFinite ==
    ASSUME NEW a
    PROVE  IsFiniteSet(Pending(a)) /\ Cardinality(Pending(a)) \in Nat
<1>1. Pending(a) \subseteq Deciders
  BY DEF Pending
<1>2. IsFiniteSet(Pending(a))
  BY <1>1, ApprovalAssumption, FS_Subset
<1>3. QED
  BY <1>2, FS_CardinalityType

(* So are those of the next state. *)
LEMMA PendingFiniteNext ==
    ASSUME NEW a
    PROVE  IsFiniteSet(Pending(a)') /\ Cardinality(Pending(a)') \in Nat
<1>1. Pending(a)' \subseteq Deciders
  BY DEF Pending
<1>2. IsFiniteSet(Pending(a)')
  BY <1>1, ApprovalAssumption, FS_Subset
<1>3. QED
  BY <1>2, FS_CardinalityType

(* No step but a claim, a retry of what was repeatable and a reconciliation  *)
(* makes a proposal repeatable: the writes of workers and of requests on     *)
(* tasks insert, expire, deny or recover it.                                 *)
LEMMA TaskSideActions ==
    ASSUME TypeOK, WorkerStep \/ ControlStep \/ TimeStep \/ UNCHANGED vars
    PROVE  /\ UNCHANGED <<dec, effects, reconciled>>
           /\ \A a \in Actions :
                 /\ action'[a].status = "executing" => action[a].status = "executing"
                 /\ Repeatable(a)' => Repeatable(a)
<1> DEFINE Quiet == \A a \in Actions :
                 /\ action'[a].status = "executing" => action[a].status = "executing"
                 /\ Repeatable(a)' => Repeatable(a)
<1>1. UNCHANGED <<dec, effects, reconciled>>
  BY DEF WorkerStep, ControlStep, TimeStep, vars, approvalVars
<1>2. CASE action' = action
  BY <1>1, <1>2 DEF Repeatable
<1>3. ASSUME NEW b, NEW h, Deny(b, h)
      PROVE  Quiet
  BY <1>3 DEF Deny, SetAction, Repeatable, TypeOK, StoreTypeOK, ActionRow
<1>4. ASSUME NEW w \in Workers, Tick(w)
      PROVE  Quiet
  BY <1>4 DEF Tick, Repeatable, TypeOK, StoreTypeOK, ActionRow
<1>5. ASSUME NEW w \in Workers, Restart(w)
      PROVE  Quiet
  BY <1>5 DEF Restart, Recovered, Repeatable, TypeOK, StoreTypeOK, ActionRow
<1>6. ASSUME NEW w \in Workers, NEW t \in Tasks, Prepare(w, t)
      PROVE  Quiet
  BY <1>6 DEF Prepare, Repeatable, TypeOK, StoreTypeOK, ActionRow
<1>7. ASSUME NEW w \in Workers, NEW t \in Tasks, HandlerNext(w, t)
      PROVE  action' = action \/ Prepare(w, t) \/ \E b, h : Deny(b, h)
  BY <1>7 DEF HandlerNext, StartRun, StartRunThrows, NoticeLost, Begin, Guard, StillPending,
              Carried, NotCarried, Unlink, Checkpoint, Throw, Return, Link, Undo, Commit,
              FinishMeta, CommitThrows, Requeue, Fail, DeadLetter, CloseRun, Settle,
              CatchThrows, storeVars
<1> HIDE DEF Quiet
<1>8. CASE WorkerStep
  <2>1. ASSUME NEW w \in Workers, NEW t \in Tasks,
               Claim(w, t) \/ ClaimLoses(w, t) \/ Heartbeat(w, t) \/ TaskTimeout(w, t)
        PROVE  action' = action
    BY <2>1 DEF Claim, ClaimLoses, Heartbeat, TaskTimeout, storeVars
  <2>2. ASSUME NEW w \in Workers, Stop(w) \/ Exit(w) \/ Crash(w)
        PROVE  action' = action
    BY <2>2 DEF Stop, Exit, Crash, Down, storeVars
  <2>3. ASSUME NEW t \in Tasks, Republish(t)
        PROVE  action' = action
    BY <2>3 DEF Republish, storeVars
  <2>4. action' = action \/ Quiet
    BY <1>3, <1>4, <1>5, <1>6, <1>7, <1>8, <2>1, <2>2, <2>3 DEF WorkerStep, WorkerNext
  <2>5. QED
    BY <1>1, <1>2, <2>4 DEF Quiet
<1>9. CASE ControlStep
  <2>1. action' = action \/ \E b, h : Deny(b, h)
    BY <1>9 DEF ControlStep, ControlNext, CreateTask, ReadTask, Apply, Conflict, DenyCancelled,
                Dropped, storeVars
  <2>2. QED
    BY <1>1, <1>2, <1>3, <2>1 DEF Quiet
<1>10. CASE TimeStep \/ UNCHANGED vars
  BY <1>2, <1>10 DEF TimeStep, LeaseElapses, ReviewElapses, vars, storeVars
<1>11. QED
  BY <1>8, <1>9, <1>10

----------------------------------------------------------------------------
(* No step but a claim of an open task's proposal starts an execution. *)
LEMMA ClosedStep ==
    ASSUME TypeOK, [Next]_vars, NEW a \in Actions, ~TaskOpen(a[1]), action[a].status # "executing"
    PROVE  action'[a].status # "executing"
<1>1. CASE WorkerStep \/ ControlStep \/ TimeStep \/ UNCHANGED vars
  BY <1>1, TaskSideActions
<1>2. CASE ApprovalStep
  <2>1. ASSUME NEW d \in Deciders, ClaimAction(d)
        PROVE  action'[a].status # "executing"
    <3>1. dec[d] \in [pc : {"checked"}, a : Actions, choice : {"approve", "deny"}, hash : Contents]
      BY <2>1 DEF ClaimAction, TypeOK, ApprovalTypeOK, Decision, NoDecision
    <3>2. dec[d].a = a => dec[d].choice = "deny" \/ ~Claimable(a, dec[d].choice)
      BY <3>1 DEF Claimable
    <3>3. QED
      BY <2>1, <3>1, <3>2 DEF ClaimAction, SetAction, TypeOK, StoreTypeOK, ActionRow
  <2>2. ASSUME NEW d \in Deciders, PutOutcome(d)
        PROVE  action'[a].status # "executing"
    <3>1. dec[d].outcome # "executing"
      BY <2>2 DEF PutOutcome, TypeOK, ApprovalTypeOK, Decision, NoDecision, Outcome
    <3>2. QED
      BY <2>2, <3>1 DEF PutOutcome, TypeOK, StoreTypeOK
  <2>3. ASSUME NEW d \in Deciders, NEW b \in Actions,
               Reconcile(d, b) \/ \E choice \in {"approve", "deny"} : Decide(d, b, choice)
        PROVE  action'[a].status # "executing"
    BY <2>3 DEF Reconcile, Decide, SetAction, TypeOK, StoreTypeOK, ActionRow
  <2>4. ASSUME NEW d \in Deciders, CallProvider(d) \/ DeciderDies(d) \/ Retask(d)
        PROVE  action'[a].status # "executing"
    BY <2>4 DEF CallProvider, DeciderDies, Retask, storeVars
  <2>5. ASSUME NEW b \in Actions,
               Edit(b) \/ Retry(b) \/ CancelAction(b) \/ ForceCancel(b) \/ MaintainExpire(b)
        PROVE  action'[a].status # "executing"
    BY <2>5 DEF Edit, Retry, CancelAction, ForceCancel, MaintainExpire, SetAction, TypeOK,
                StoreTypeOK, ActionRow
  <2>6. CASE MaintainRecover
    BY <2>6 DEF MaintainRecover, Recovered, TypeOK, StoreTypeOK, ActionRow
  <2>7. QED
    BY <1>2, <2>1, <2>2, <2>3, <2>4, <2>5, <2>6 DEF ApprovalStep, ApprovalNext
<1>3. QED
  BY <1>1, <1>2 DEF Next

(* Nothing is carried out for a closed task, in every behaviour: an approval *)
(* whose task was cancelled between decide()'s look at it and Store.claim    *)
(* does not get through.                                                     *)
THEOREM NothingForClosedTasks == Spec => ClosedTaskStartsNothing
<1>1. TypeOK /\ [Next]_vars =>
         [\A a \in Actions : ~TaskOpen(a[1]) /\ action[a].status # "executing" =>
             action'[a].status # "executing"]_vars
  BY ClosedStep
<1>2. QED
  BY <1>1, Typing, PTL DEF Spec, ClosedTaskStartsNothing

----------------------------------------------------------------------------
(* Request record r may still call the provider for proposal a, or record    *)
(* that it refused.                                                          *)
Counts(r, a) ==
    \/ r.pc = "call" /\ r.a = a
    \/ r.pc = "put" /\ r.a = a /\ r.outcome = "failed"

(* When one request moves on, the pending ones change by that one. *)
LEMMA PendingCount ==
    ASSUME TypeOK, NEW d \in Deciders, NEW r, SetDec(d, r), NEW a
    PROVE  Cardinality(Pending(a)') = Cardinality(Pending(a))
              + (IF Counts(r, a) THEN 1 ELSE 0) - (IF Counts(dec[d], a) THEN 1 ELSE 0)
<1>1. d \in Pending(a) <=> Counts(dec[d], a)
  BY DEF Pending, Counts
<1>2. CASE Counts(r, a)
  <2>1. Pending(a)' = Pending(a) \cup {d}
    BY <1>2 DEF Pending, Counts, SetDec, TypeOK, ApprovalTypeOK
  <2>2. QED
    BY <1>1, <1>2, <2>1, PendingFinite, FS_AddElement
<1>3. CASE ~Counts(r, a)
  <2>1. Pending(a)' = Pending(a) \ {d}
    BY <1>3 DEF Pending, Counts, SetDec, TypeOK, ApprovalTypeOK
  <2>2. IsFiniteSet(Pending(a)) /\ Cardinality(Pending(a)) \in Nat
    BY PendingFinite
  <2>3. Cardinality(Pending(a) \ {d}) =
           IF d \in Pending(a) THEN Cardinality(Pending(a)) - 1 ELSE Cardinality(Pending(a))
    BY <2>2, FS_RemoveElement
  <2>4. QED
    BY <1>1, <1>3, <2>1, <2>2, <2>3
<1>4. QED
  BY <1>2, <1>3

(* A step that neither calls nor reconciles, and makes nothing repeatable.   *)
LEMMA QuietBudget ==
    ASSUME BudgetInv, UNCHANGED <<dec, effects, reconciled>>,
           \A a \in Actions : Repeatable(a)' => Repeatable(a)
    PROVE  EffectBudget'
<1> SUFFICES ASSUME NEW a \in Actions PROVE Budget(a)'
  BY DEF EffectBudget, Budget
<1>1. Pending(a)' = Pending(a)
  BY DEF Pending
<1>2. effects[a] \in Nat /\ reconciled[a] \in Nat /\ Cardinality(Pending(a)) \in Nat
  BY PendingFinite DEF BudgetInv, TypeOK, ApprovalTypeOK
<1>3. Budget(a)
  BY DEF BudgetInv, EffectBudget, Budget
<1>4. QED
  BY <1>1, <1>2, <1>3 DEF Budget

(* A decide or reconcile request moves on: what it adds to one term of the   *)
(* budget it takes from another, or an operator has paid for it.             *)
LEMMA DecisionBudget ==
    ASSUME BudgetInv, NEW d \in Deciders, NEW r, SetDec(d, r),
           NEW a \in Actions,
           effects'[a] \in Nat, reconciled'[a] \in Nat,
           effects'[a] + (IF Counts(r, a) THEN 1 ELSE 0) + (IF Repeatable(a)' THEN 1 ELSE 0)
              + reconciled[a]
           <= effects[a] + (IF Counts(dec[d], a) THEN 1 ELSE 0) + (IF Repeatable(a) THEN 1 ELSE 0)
              + reconciled'[a]
    PROVE  Budget(a)'
<1>1. Cardinality(Pending(a)') = Cardinality(Pending(a))
         + (IF Counts(r, a) THEN 1 ELSE 0) - (IF Counts(dec[d], a) THEN 1 ELSE 0)
  BY PendingCount DEF BudgetInv
<1>2. effects[a] \in Nat /\ reconciled[a] \in Nat /\ Cardinality(Pending(a)) \in Nat
  BY PendingFinite DEF BudgetInv, TypeOK, ApprovalTypeOK
<1>3. Budget(a)
  BY DEF BudgetInv, EffectBudget, Budget
<1>4. effects'[a] + Cardinality(Pending(a)') + (IF Repeatable(a)' THEN 1 ELSE 0) <= 1 + reconciled'[a]
  BY <1>1, <1>2, <1>3 DEF Budget
<1>5. QED
  BY <1>4 DEF Budget

(* Every decide and reconcile step keeps the budget. *)
LEMMA DecisionStepBudget ==
    ASSUME BudgetInv, NEW d \in Deciders,
           \/ \E a \in Actions, choice \in {"approve", "deny"} : Decide(d, a, choice)
           \/ ClaimAction(d) \/ CallProvider(d) \/ PutOutcome(d) \/ DeciderDies(d)
           \/ \E a \in Actions : Reconcile(d, a)
           \/ Retask(d)
    PROVE  EffectBudget'
<1> SUFFICES ASSUME NEW a \in Actions PROVE Budget(a)'
  BY DEF EffectBudget, Budget
<1>1. /\ dec[d] \in Decision
      /\ effects[a] \in Nat /\ reconciled[a] \in Nat
      /\ action \in [Actions -> ActionRow]
  BY DEF BudgetInv, TypeOK, StoreTypeOK, ApprovalTypeOK
<1>2. ASSUME NEW b \in Actions, NEW choice \in {"approve", "deny"}, Decide(d, b, choice)
      PROVE  Budget(a)'
  <2>1. Repeatable(a)' => Repeatable(a)
    BY <1>1, <1>2 DEF Decide, SetAction, Repeatable, ActionRow
  <2>2. CASE UNCHANGED dec
    <3>1. UNCHANGED <<dec, effects, reconciled>> /\ \A x \in Actions : Repeatable(x)' => Repeatable(x)
      BY <1>1, <1>2, <2>2 DEF Decide, SetAction, Repeatable, ActionRow
    <3>2. QED
      BY <3>1, QuietBudget DEF EffectBudget, Budget
  <2>3. CASE SetDec(d, [pc |-> "checked", a |-> b, choice |-> choice, hash |-> action[b].content])
    BY <1>1, <1>2, <2>1, <2>3, DecisionBudget DEF Decide, Counts
  <2>4. QED
    BY <1>2, <2>2, <2>3 DEF Decide
<1>3. CASE ClaimAction(d)
  <2>1. dec[d] \in [pc : {"checked"}, a : Actions, choice : {"approve", "deny"}, hash : Contents]
    BY <1>1, <1>3 DEF ClaimAction, Decision, NoDecision
  <2>2. ~Counts(dec[d], a) /\ effects' = effects /\ reconciled' = reconciled
    BY <1>3, <2>1 DEF Counts, ClaimAction
  <2>3. CASE SetDec(d, NoDecision) /\ (UNCHANGED action \/ SetAction(dec[d].a, "denied"))
    <3>1. ~Counts(NoDecision, a)
      BY DEF Counts, NoDecision
    <3>2. Repeatable(a)' => Repeatable(a)
      BY <1>1, <1>3, <2>1, <2>3 DEF ClaimAction, Claimable, Reviewable, SetAction, Repeatable, ActionRow
    <3>3. QED
      BY <1>1, <2>2, <2>3, <3>1, <3>2, DecisionBudget
  <2>4. CASE /\ Claimable(dec[d].a, dec[d].choice)
             /\ SetAction(dec[d].a, "executing")
             /\ SetDec(d, [pc |-> "call", a |-> dec[d].a, hash |-> dec[d].hash,
                            content |-> action[dec[d].a].content])
    <3> DEFINE r == [pc |-> "call", a |-> dec[d].a, hash |-> dec[d].hash,
                     content |-> action[dec[d].a].content]
    <3>1. Counts(r, a) <=> dec[d].a = a
      BY DEF Counts
    <3>2. dec[d].a = a => Repeatable(a) /\ ~Repeatable(a)'
      BY <1>1, <2>1, <2>4 DEF Claimable, Reviewable, SetAction, Repeatable, ActionRow
    <3>3. dec[d].a # a => (Repeatable(a)' <=> Repeatable(a))
      BY <1>1, <2>1, <2>4 DEF SetAction, Repeatable, ActionRow
    <3> HIDE DEF r
    <3>4. QED
      BY <1>1, <2>2, <2>4, <3>1, <3>2, <3>3, DecisionBudget DEF r
  <2>5. QED
    BY <1>3, <2>3, <2>4 DEF ClaimAction
<1>4. CASE CallProvider(d)
  <2>1. dec[d] \in [pc : {"call"}, a : Actions, hash : Contents, content : Contents]
    BY <1>1, <1>4 DEF CallProvider, Decision, NoDecision
  <2>2. PICK o \in Outcome :
           /\ \/ o # "failed" /\ effects' = [effects EXCEPT ![dec[d].a] = @ + 1]
              \/ o # "succeeded" /\ UNCHANGED effects
           /\ SetDec(d, [pc |-> "put", a |-> dec[d].a, content |-> dec[d].content, outcome |-> o])
    BY <1>4 DEF CallProvider
  <2>3. Counts(dec[d], a) <=> dec[d].a = a
    BY <2>1 DEF Counts
  <2>4. Counts([pc |-> "put", a |-> dec[d].a, content |-> dec[d].content, outcome |-> o], a)
           <=> dec[d].a = a /\ o = "failed"
    BY DEF Counts
  <2>5. (Repeatable(a)' <=> Repeatable(a)) /\ reconciled' = reconciled
    BY <1>4 DEF CallProvider, Repeatable, storeVars
  <2>6. \/ effects'[a] = effects[a]
        \/ o # "failed" /\ dec[d].a = a /\ effects'[a] = effects[a] + 1
    BY <2>1, <2>2 DEF BudgetInv, TypeOK, ApprovalTypeOK
  <2>7. QED
    BY <1>1, <2>2, <2>3, <2>4, <2>5, <2>6, DecisionBudget
<1>5. CASE PutOutcome(d)
  <2>1. dec[d] \in [pc : {"put"}, a : Actions, content : Contents, outcome : Outcome]
    BY <1>1, <1>5 DEF PutOutcome, Decision, NoDecision
  <2>2. Counts(dec[d], a) <=> dec[d].a = a /\ dec[d].outcome = "failed"
    BY <2>1 DEF Counts
  <2>3. ~Counts(NoDecision, a)
    BY DEF Counts, NoDecision
  <2>4. dec[d].a # a => (Repeatable(a)' <=> Repeatable(a))
    BY <1>1, <1>5, <2>1 DEF PutOutcome, Repeatable
  <2>5. dec[d].a = a => (Repeatable(a)' <=> dec[d].outcome = "failed")
    BY <1>1, <1>5, <2>1 DEF PutOutcome, Repeatable, Outcome
  <2>6. SetDec(d, NoDecision) /\ effects' = effects /\ reconciled' = reconciled
    BY <1>5 DEF PutOutcome
  <2>7. QED
    BY <1>1, <2>2, <2>3, <2>4, <2>5, <2>6, DecisionBudget
<1>6. CASE DeciderDies(d) \/ Retask(d)
  <2>1. SetDec(d, NoDecision) /\ effects' = effects /\ reconciled' = reconciled
        /\ (Repeatable(a)' <=> Repeatable(a))
    BY <1>6 DEF DeciderDies, Retask, Repeatable, storeVars
  <2>2. ~Counts(NoDecision, a)
    BY DEF Counts, NoDecision
  <2>3. QED
    BY <1>1, <2>1, <2>2, DecisionBudget
<1>7. ASSUME NEW b \in Actions, Reconcile(d, b)
      PROVE  Budget(a)'
  <2>1. PICK o \in {"succeeded", "failed"} :
           /\ SetAction(b, o)
           /\ SetDec(d, [pc |-> "retask", a |-> b, outcome |-> o])
           /\ reconciled' = IF o = "failed" THEN [reconciled EXCEPT ![b] = @ + 1] ELSE reconciled
    BY <1>7 DEF Reconcile
  <2>2. ~Counts([pc |-> "retask", a |-> b, outcome |-> o], a) /\ ~Counts(dec[d], a)
    BY <1>7 DEF Counts, Reconcile
  <2>3. effects' = effects
    BY <1>7 DEF Reconcile
  <2>4. a # b => (Repeatable(a)' <=> Repeatable(a)) /\ reconciled'[a] = reconciled[a]
    BY <1>1, <2>1 DEF SetAction, Repeatable, BudgetInv, TypeOK, ApprovalTypeOK
  <2>5. a = b => (Repeatable(a)' => o = "failed")
    BY <1>1, <2>1 DEF SetAction, Repeatable, ActionRow
  <2>6. a = b => reconciled'[a] = reconciled[a] + (IF o = "failed" THEN 1 ELSE 0)
    BY <1>1, <2>1 DEF BudgetInv, TypeOK, ApprovalTypeOK
  <2>7. QED
    BY <1>1, <2>1, <2>2, <2>3, <2>4, <2>5, <2>6, DecisionBudget
<1>8. QED
  BY <1>2, <1>3, <1>4, <1>5, <1>6, <1>7

(* Every step keeps the budget. *)
LEMMA BudgetStep == BudgetInv /\ [Next]_vars => BudgetInv'
<1> SUFFICES ASSUME BudgetInv, [Next]_vars PROVE BudgetInv'
  OBVIOUS
<1>1. TypeOK'
  BY NextType DEF BudgetInv
<1>2. CASE WorkerStep \/ ControlStep \/ TimeStep \/ UNCHANGED vars
  BY <1>1, <1>2, TaskSideActions, QuietBudget DEF BudgetInv
<1>3. CASE ApprovalStep
  <2>1. ASSUME NEW b \in Actions,
               Edit(b) \/ Retry(b) \/ CancelAction(b) \/ ForceCancel(b) \/ MaintainExpire(b)
        PROVE  EffectBudget'
    <3>1. \A a \in Actions : Repeatable(a)' => Repeatable(a)
      BY <2>1 DEF Edit, Retry, CancelAction, ForceCancel, MaintainExpire, SetAction, Repeatable,
                  BudgetInv, TypeOK, StoreTypeOK, ActionRow
    <3>2. UNCHANGED <<dec, effects, reconciled>>
      BY <2>1 DEF Edit, Retry, CancelAction, ForceCancel, MaintainExpire, approvalVars
    <3>3. QED
      BY <3>1, <3>2, QuietBudget
  <2>2. ASSUME MaintainRecover PROVE EffectBudget'
    <3>1. \A a \in Actions : Repeatable(a)' => Repeatable(a)
      BY <2>2 DEF MaintainRecover, Recovered, Repeatable, BudgetInv, TypeOK, StoreTypeOK, ActionRow
    <3>2. QED
      BY <2>2, <3>1, QuietBudget DEF MaintainRecover, approvalVars
  <2>3. EffectBudget'
    BY <1>3, <2>1, <2>2, DecisionStepBudget DEF ApprovalStep, ApprovalNext
  <2>4. QED
    BY <1>1, <2>3 DEF BudgetInv
<1>4. QED
  BY <1>2, <1>3 DEF Next

(* The budget is kept in every state. *)
THEOREM BudgetIsKept == Spec => []EffectBudget
<1>1. Init => BudgetInv
  <2>1. ASSUME Init, NEW a \in Actions
        PROVE  effects[a] = 0 /\ reconciled[a] = 0 /\ Cardinality(Pending(a)) = 0
    <3>1. Pending(a) = {}
      BY <2>1 DEF Init, ApprovalInit, Pending, NoDecision
    <3>2. QED
      BY <2>1, <3>1, FS_EmptySet DEF Init, ApprovalInit
  <2>2. Init => EffectBudget
    BY <2>1 DEF EffectBudget
  <2>3. QED
    BY <2>2, Typing0 DEF BudgetInv
<1>2. BudgetInv /\ [Next]_vars => BudgetInv'
  BY BudgetStep
<1>3. BudgetInv => EffectBudget
  BY DEF BudgetInv
<1>4. QED
  BY <1>1, <1>2, <1>3, PTL DEF Spec

(* The provider carries a proposal out at most once more than an operator    *)
(* declared it not executed, however many processes, requests, crashes,      *)
(* retries and maintenance passes there are.                                 *)
THEOREM EffectsArePaidFor == Spec => []RepeatNeedsReconcile
<1>1. TypeOK /\ EffectBudget => RepeatNeedsReconcile
  <2> SUFFICES ASSUME TypeOK, EffectBudget, NEW a \in Actions
               PROVE  effects[a] <= 1 + reconciled[a]
    BY DEF RepeatNeedsReconcile
  <2>1. effects[a] \in Nat /\ reconciled[a] \in Nat /\ Cardinality(Pending(a)) \in Nat
    BY PendingFinite DEF TypeOK, ApprovalTypeOK
  <2>2. QED
    BY <2>1 DEF EffectBudget
<1>2. QED
  BY <1>1, Typing, BudgetIsKept, PTL
============================================================================
