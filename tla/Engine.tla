------------------------------- MODULE Engine -------------------------------
(* The durable engine: task workers, the requests that control tasks, and    *)
(* the approval of the actions that tasks propose, over one shared store.    *)
EXTENDS TaskControl, Approvals

vars == <<storeVars, workerVars, controlVars, approvalVars>>

TypeOK == StoreTypeOK /\ WorkerTypeOK /\ ControlTypeOK /\ ApprovalTypeOK

Init == StoreInit /\ WorkerInit /\ ControlInit /\ ApprovalInit

WorkerStep == WorkerNext /\ UNCHANGED <<controlVars, approvalVars>>
ControlStep == ControlNext /\ UNCHANGED approvalVars
ApprovalStep == ApprovalNext /\ UNCHANGED <<workerVars, controlVars>>
TimeStep ==
    /\ \/ \E t \in Tasks : LeaseElapses(t)
       \/ \E a \in Actions : ReviewElapses(a)
    /\ UNCHANGED <<workerVars, controlVars, approvalVars>>

Next == WorkerStep \/ ControlStep \/ ApprovalStep \/ TimeStep

Spec == Init /\ [][Next]_vars

----------------------------------------------------------------------------
(* Safety *)

(* A task carries a lease exactly while it is running, whichever of the      *)
(* dozen writers (claim, final checkpoint, catch block, boot recovery,       *)
(* control, escalate, answer, reconcile) wrote it last.                      *)
LeaseIffRunning ==
    \A t \in Tasks : task[t].lease # NoLease <=> task[t].status = "running"

(* The states a task leaves only at a person's request. *)
Parked == {"waiting_input", "paused", "succeeded", "failed", "cancelled"}

(* A request of a user completes its swap in this step. *)
UserWrites == \E u \in Requests : req[u].pc = "cas" /\ req'[u] # req[u]

(* A task that a user has paused, cancelled or been asked about, or that is  *)
(* over, is written by requests of users alone: the compareAndSwaps of       *)
(* run(), however late, and of boot recovery and reconciliation lose.        *)
ParkedStaysParked ==
    [][\A t \in Tasks : task[t].status \in Parked /\ task'[t] # task[t] => UserWrites]_vars

(* A completed or cancelled task never changes status again: every request   *)
(* guards on the status it read and swaps on it.                             *)
FinalIsFinal ==
    [][\A t \in Tasks : task[t].status \in {"succeeded", "cancelled"} =>
          task'[t].status = task[t].status]_vars

(* A worker never takes a task's progress back: a run that lost its lease    *)
(* cannot write its stale copy of `state` over what a later run checkpointed.*)
(* (escalateTask and answer can: they write back the `state` they read.)     *)
ProgressFenced ==
    [][\A t \in Tasks : task'[t].step < task[t].step => UserWrites]_vars

(* Of all the runs a task ever had, at most one is recorded as succeeded,    *)
(* and then the task did succeed.                                            *)
OneRunSucceeds ==
    \A t \in Tasks :
       LET won == {l \in LeaseIds : runRec[t][l] = "succeeded"} IN
       Cardinality(won) <= 1 /\ (won # {} => task[t].status = "succeeded")

(* The proposal that a task carries exists and is one that this task made,   *)
(* whatever was resumed, retried, consumed or reconciled in between: a link  *)
(* to nothing would be an approval that nobody can give.                     *)
LinkIsReal ==
    \A t \in Tasks : task[t].action # NoAction =>
       task[t].action[1] = t /\ action[task[t].action].status # "absent"

(* Nothing is carried out for a closed task: an approval that was checked    *)
(* before the user cancelled, or a retry afterwards, does not get through.   *)
ClosedTaskStartsNothing ==
    [][\A a \in Actions : ~TaskOpen(a[1]) /\ action[a].status # "executing" =>
          action'[a].status # "executing"]_vars

(* The provider carries a proposal out at most once more than an operator    *)
(* declared it not executed: crashes, retries, maintenance and concurrent    *)
(* approvals never repeat an external effect by themselves.                  *)
RepeatNeedsReconcile == \A a \in Actions : effects[a] <= 1 + reconciled[a]

(* What a decide request in flight may still do: call the provider, or       *)
(* record a refusal, which makes the proposal retryable.                     *)
Pending(a) == {d \in Deciders : \/ dec[d].pc = "call" /\ dec[d].a = a
                                \/ dec[d].pc = "put" /\ dec[d].a = a /\ dec[d].outcome = "failed"}

(* The statuses from which a proposal can still reach the provider. *)
Repeatable(a) == action[a].status \in {"absent", "awaiting_review", "failed", "denied"}

(* The inductive form of RepeatNeedsReconcile: effects so far and effects    *)
(* still possible never exceed one plus the reconciliations.                 *)
EffectBudget ==
    \A a \in Actions :
       effects[a] + Cardinality(Pending(a)) + (IF Repeatable(a) THEN 1 ELSE 0)
          <= 1 + reconciled[a]

----------------------------------------------------------------------------
(* Refinement *)

(* Run l of task t is recorded as succeeded, or is about to be. *)
Won(t, l) ==
    \/ runRec[t][l] = "succeeded"
    \/ \E w \in Workers : /\ run[w][t].pc = "meta" /\ run[w][t].result = "succeeded"
                           /\ run[w][t].lease = l

Winners(t) == {l \in LeaseIds : Won(t, l)}
Recorded(t) == {l \in LeaseIds : runRec[t][l] = "succeeded"}

Life(t) == INSTANCE TaskLife WITH
              Leases <- LeaseIds,
              status <- task[t].status,
              owner <- task[t].lease,
              spent <- used,
              progress <- task[t].step,
              won <- Winners(t),
              recorded <- Recorded(t)

(* Every task lives the life of TaskLife: polls that overlap, runs that were *)
(* overtaken, crashes, boot recovery, expired leases and requests that read  *)
(* the row long ago (TaskWorker.run, AgentService.control, escalateTask,     *)
(* answer, reconcile) add no move to it.                                     *)
ImplementsLife ==
    /\ \A t \in Tasks : Life(t)!LifeInit
    /\ [][\A t \in Tasks : [Life(t)!LifeNext]_(Life(t)!lifeVars)]_vars

----------------------------------------------------------------------------
(* Liveness *)

OnlyWorkers(A) == A /\ UNCHANGED <<controlVars, approvalVars>>
OnlyApprovals(A) == A /\ UNCHANGED <<workerVars, controlVars>>
OnlyTime(A) == A /\ UNCHANGED <<workerVars, controlVars, approvalVars>>

(* The poll timer ticks and a run that was started goes on to its end        *)
(* (TASK_TIMEOUT_MS cuts it short); a stopping process exits and one that is   *)
(* down is restarted; deadlines pass;                                        *)
(* a decide request goes on; the maintenance timer fires.  Users, crashes,   *)
(* heartbeats and the guard's luck are not assumed to do anything.           *)
Fairness ==
    /\ \A w \in Workers :
          /\ WF_vars(OnlyWorkers(Tick(w))) /\ WF_vars(OnlyWorkers(Exit(w) \/ Restart(w)))
          /\ \A t \in Tasks :
                /\ WF_vars(OnlyWorkers(Claim(w, t) \/ ClaimLoses(w, t)))
                /\ WF_vars(OnlyWorkers(HandlerNext(w, t)))
    /\ \A t \in Tasks : WF_vars(OnlyTime(LeaseElapses(t))) /\ WF_vars(OnlyWorkers(Republish(t)))
    /\ \A a \in Actions :
          /\ WF_vars(OnlyTime(ReviewElapses(a)))
          /\ WF_vars(OnlyApprovals(MaintainExpire(a)))
    /\ WF_vars(OnlyApprovals(MaintainRecover))
    /\ \A d \in Deciders :
          WF_vars(OnlyApprovals(ClaimAction(d) \/ CallProvider(d) \/ PutOutcome(d) \/ Retask(d)))

FairSpec == Spec /\ Fairness

(* The instance ran out of lease ids: no claim is possible any more. *)
Exhausted == used = LeaseIds

(* A queued task does not stay queued: some process claims it, or its user   *)
(* takes it off the queue.                                                   *)
QueuedIsClaimed ==
    \A t \in Tasks : task[t].status = "queued" ~> (task[t].status # "queued" \/ Exhausted)

(* No claim lasts for ever: the run ends, or its process died and the lease  *)
(* runs out and another claim or a boot recovery takes the task.             *)
EveryLeaseEnds ==
    \A t \in Tasks, l \in LeaseIds :
       (task[t].status = "running" /\ task[t].lease = l)
          ~> (task[t].status # "running" \/ task[t].lease # l \/ Exhausted)

(* A task never waits for ever on a review that nobody decides: the review   *)
(* expires, an abandoned execution is declared unknown, and the next tick    *)
(* picks the task up.                                                        *)
ApprovalWaitEnds ==
    \A t \in Tasks : task[t].status = "waiting_approval"
                        ~> (task[t].status # "waiting_approval" \/ Exhausted)

(* A completed task is announced even if the process that completed it died  *)
(* between the final checkpoint and settled().                               *)
CompletionIsNotified ==
    \A t \in Tasks : task[t].status = "succeeded" ~> t \in notified

----------------------------------------------------------------------------
(* What the documentation or a comment claims and the code does not keep.    *)

(* "El hash liga la propuesta al contenido": the content sent to the         *)
(* provider is the one whose hash the user approved.  Store.claim does not   *)
(* compare the hash, so an edit after decide()'s read slips through.         *)
ApprovedContentOnly ==
    \A d \in Deciders : dec[d].pc = "call" => dec[d].content = dec[d].hash

(* outcome_unknown "evita que una accion se ejecute dos veces por            *)
(* accidente": the provider carries no proposal out twice, when operators    *)
(* answer a reconciliation with what they see at the provider.               *)
EffectAtMostOnce == \A a \in Actions : effects[a] <= 1
============================================================================
