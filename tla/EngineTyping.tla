---------------------------- MODULE EngineTyping ----------------------------
(* Type correctness of the durable engine, for any number of tasks, keys,    *)
(* leases, processes and requests.                                          *)
EXTENDS Engine, TLAPS

----------------------------------------------------------------------------

(* The handler record of one task of one process may be replaced by another  *)
(* one: `run` keeps its type.                                                *)
LEMMA RunUpdate ==
    ASSUME WorkerTypeOK, NEW w \in Workers, NEW t \in Tasks, NEW r \in Run
    PROVE  [run EXCEPT ![w][t] = r] \in [Workers -> [Tasks -> Run]]
  BY DEF WorkerTypeOK

(* A run moves to any point but the final checkpoint without more ado; that  *)
(* one needs a result to write.                                              *)
LEMMA RunGoto ==
    ASSUME WorkerTypeOK, NEW w \in Workers, NEW t \in Tasks,
           NEW pc \in PC \ {"commit"}, Goto(w, t, pc)
    PROVE  run' \in [Workers -> [Tasks -> Run]]
<1>1. run[w][t] \in Run
  BY DEF WorkerTypeOK
<1>2. [run[w][t] EXCEPT !.pc = pc] \in Run
  BY <1>1 DEF Run, RunRow
<1>3. run' = [run EXCEPT ![w][t] = [run[w][t] EXCEPT !.pc = pc]]
  BY DEF WorkerTypeOK, Goto
<1>4. QED
  BY <1>2, <1>3, RunUpdate

(* The empty store and the processes as they boot are well typed. *)
LEMMA Typing0 == Init => TypeOK
  BY StoreAssumption
  DEF Init, StoreInit, WorkerInit, ControlInit, ApprovalInit, TypeOK, StoreTypeOK,
      WorkerTypeOK, ControlTypeOK, ApprovalTypeOK, TaskRow, ActionRow, TaskStatus,
      ActionStatus, NoRow, SeenRow, OffRun, Run, RunRow, PC, Results, RunStatus, Idle, Request,
      NoDecision, Decision

(* Every row a statement writes is a row. *)
LEMMA ReleasedType ==
    ASSUME NEW row \in TaskRow, NEW s \in TaskStatus
    PROVE  Released(row, s) \in TaskRow
  BY DEF Released, TaskRow

(* One task row may be replaced by another one. *)
LEMMA TaskUpdate ==
    ASSUME StoreTypeOK, NEW t \in Tasks, NEW row \in TaskRow
    PROVE  [task EXCEPT ![t] = row] \in [Tasks -> TaskRow]
  BY DEF StoreTypeOK

(* A proposal may take any other status. *)
LEMMA ActionUpdate ==
    ASSUME StoreTypeOK, NEW a \in Actions, NEW s \in ActionStatus, SetAction(a, s)
    PROVE  action' \in [Actions -> ActionRow]
  BY DEF StoreTypeOK, SetAction, ActionRow

(* recoverInterruptedActions keeps the proposals well typed. *)
LEMMA RecoveredType ==
    ASSUME StoreTypeOK
    PROVE  Recovered(action) \in [Actions -> ActionRow]
  BY DEF StoreTypeOK, Recovered, ActionRow, ActionStatus

(* So does a denial, whether or not it takes effect. *)
LEMMA DenyType ==
    ASSUME StoreTypeOK, NEW a \in Actions, NEW h, Deny(a, h)
    PROVE  action' \in [Actions -> ActionRow]
  BY DEF StoreTypeOK, Deny, SetAction, ActionRow, ActionStatus

(* A handler step that only moves to another point of run(). *)
LEMMA MoveType ==
    ASSUME TypeOK, NEW w \in Workers, NEW t \in Tasks,
           \/ NoticeLost(w, t) \/ NotCarried(w, t) \/ Throw(w, t) \/ CommitThrows(w, t)
    PROVE  StoreTypeOK' /\ WorkerTypeOK'
<1>1. \E pc \in PC \ {"commit"} : Goto(w, t, pc)
  BY DEF NoticeLost, NotCarried, Throw, CommitThrows, PC
<1>2. run' \in [Workers -> [Tasks -> Run]]
  BY <1>1, RunGoto DEF TypeOK
<1>3. QED
  BY <1>2 DEF NoticeLost, NotCarried, Throw, CommitThrows, TypeOK, StoreTypeOK, WorkerTypeOK,
              storeVars

(* One run record may be written. *)
LEMMA RecordUpdate ==
    ASSUME WorkerTypeOK, NEW t \in Tasks, NEW l, NEW s \in RunStatus
    PROVE  [runRec EXCEPT ![t][l] = s] \in [Tasks -> [LeaseIds -> RunStatus]]
  BY DEF WorkerTypeOK

(* The steps that write the run record. *)
LEMMA RecordType ==
    ASSUME TypeOK, NEW w \in Workers, NEW t \in Tasks,
           \/ StartRun(w, t) \/ StartRunThrows(w, t) \/ FinishMeta(w, t)
           \/ CloseRun(w, t) \/ DeadLetter(w, t)
    PROVE  StoreTypeOK' /\ WorkerTypeOK'
<1>1. \E pc \in PC \ {"commit"} : Goto(w, t, pc)
  BY DEF StartRun, StartRunThrows, FinishMeta, CloseRun, DeadLetter, PC
<1>2. run' \in [Workers -> [Tasks -> Run]]
  BY <1>1, RunGoto DEF TypeOK
<1>3. runRec' \in [Tasks -> [LeaseIds -> RunStatus]]
  <2>1. \/ runRec' = runRec
        \/ \E l : \E s \in RunStatus : runRec' = [runRec EXCEPT ![t][l] = s]
    <3>1. run[w][t].result \in RunStatus
      BY DEF TypeOK, WorkerTypeOK, Run, RunRow, RunStatus
    <3>2. QED
      BY <3>1 DEF StartRun, StartRunThrows, FinishMeta, CloseRun, DeadLetter, RunStatus
  <2>2. CASE runRec' = runRec
    BY <2>2 DEF TypeOK, WorkerTypeOK
  <2>3. CASE \E l : \E s \in RunStatus : runRec' = [runRec EXCEPT ![t][l] = s]
    <3>1. PICK l : \E s \in RunStatus : runRec' = [runRec EXCEPT ![t][l] = s]
      BY <2>3
    <3>2. PICK s \in RunStatus : runRec' = [runRec EXCEPT ![t][l] = s]
      BY <3>1
    <3>3. QED
      BY <3>2, RecordUpdate DEF TypeOK
  <2>4. QED
    BY <2>1, <2>2, <2>3
<1>4. rejected' \in [Workers -> BOOLEAN]
  BY DEF StartRun, StartRunThrows, FinishMeta, CloseRun, DeadLetter, TypeOK, WorkerTypeOK
<1>5. QED
  BY <1>2, <1>3, <1>4 DEF StartRun, StartRunThrows, FinishMeta, CloseRun, DeadLetter, TypeOK,
              StoreTypeOK, WorkerTypeOK, storeVars

(* The steps of the handler that change its local record only. *)
LEMMA LocalType ==
    ASSUME TypeOK, NEW w \in Workers, NEW t \in Tasks,
           \/ Begin(w, t) \/ Guard(w, t) \/ StillPending(w, t) \/ Carried(w, t)
           \/ Return(w, t) \/ TaskTimeout(w, t)
    PROVE  StoreTypeOK' /\ WorkerTypeOK'
<1> DEFINE r == run[w][t]
<1>1. r \in Run
  BY DEF TypeOK, WorkerTypeOK
<1>2. run' \in [Workers -> [Tasks -> Run]]
  <2>1. CASE Begin(w, t)
    <3>1. run' = [run EXCEPT ![w][t] = [r EXCEPT !.fresh = TRUE,
                     !.pc = IF r.action = NoAction THEN "work" ELSE "linked"]]
      BY <2>1 DEF Begin, TypeOK, WorkerTypeOK
    <3>2. [r EXCEPT !.fresh = TRUE,
                    !.pc = IF r.action = NoAction THEN "work" ELSE "linked"] \in Run
      BY <1>1 DEF Run, RunRow, PC
    <3>3. QED
      BY <3>1, <3>2, RunUpdate DEF TypeOK
  <2>2. CASE Guard(w, t)
    <3>1. run' = [run EXCEPT ![w][t] = [r EXCEPT !.fresh = TRUE]]
      BY <2>2 DEF Guard, TypeOK, WorkerTypeOK
    <3>2. [r EXCEPT !.fresh = TRUE] \in Run
      BY <1>1 DEF Run, RunRow
    <3>3. QED
      BY <3>1, <3>2, RunUpdate DEF TypeOK
  <2>3. CASE StillPending(w, t) \/ Carried(w, t) \/ Return(w, t)
    <3>1. \/ \E pc \in PC \ {"commit"} : Goto(w, t, pc)
          \/ \E res \in Results : run' = [run EXCEPT ![w][t].pc = "commit", ![w][t].result = res]
      BY <2>3 DEF StillPending, Carried, Return, PC, Results
    <3>2. ASSUME NEW res \in Results,
                 run' = [run EXCEPT ![w][t].pc = "commit", ![w][t].result = res]
          PROVE  run' \in [Workers -> [Tasks -> Run]]
      <4>1. run' = [run EXCEPT ![w][t] = [r EXCEPT !.pc = "commit", !.result = res]]
        BY <3>2 DEF TypeOK, WorkerTypeOK
      <4>2. [r EXCEPT !.pc = "commit", !.result = res] \in Run
        BY <1>1 DEF Run, RunRow, PC
      <4>3. QED
        BY <4>1, <4>2, RunUpdate DEF TypeOK
    <3>3. QED
      BY <3>1, <3>2, RunGoto DEF TypeOK
  <2>4. CASE TaskTimeout(w, t)
    <3>1. run' = [run EXCEPT ![w][t] = [r EXCEPT !.aborted = TRUE]]
      BY <2>4 DEF TaskTimeout, TypeOK, WorkerTypeOK
    <3>2. [r EXCEPT !.aborted = TRUE] \in Run
      BY <1>1 DEF Run, RunRow
    <3>3. QED
      BY <3>1, <3>2, RunUpdate DEF TypeOK
  <2>5. QED
    BY <2>1, <2>2, <2>3, <2>4
<1>3. QED
  BY <1>2 DEF Begin, Guard, StillPending, Carried, Return, TaskTimeout, TypeOK, StoreTypeOK,
              WorkerTypeOK, storeVars

(* The checkpoints of the handler, and what its proposal does to the actions. *)
LEMMA CheckpointType ==
    ASSUME TypeOK, NEW w \in Workers, NEW t \in Tasks,
           Unlink(w, t) \/ Checkpoint(w, t) \/ Link(w, t)
    PROVE  StoreTypeOK' /\ WorkerTypeOK'
<1> DEFINE r == run[w][t]
<1>1. r \in Run /\ task[t] \in TaskRow
  BY DEF TypeOK, WorkerTypeOK, StoreTypeOK
<1>2. run' \in [Workers -> [Tasks -> Run]]
  <2>1. CASE \E pc \in PC \ {"commit"} : Goto(w, t, pc)
    BY <2>1, RunGoto DEF TypeOK
  <2>2. CASE run' = [run EXCEPT ![w][t].pc = "work", ![w][t].fresh = FALSE,
                                ![w][t].action = NoAction]
    <3>1. run' = [run EXCEPT ![w][t] = [r EXCEPT !.pc = "work", !.fresh = FALSE,
                                                 !.action = NoAction]]
      BY <2>2 DEF TypeOK, WorkerTypeOK
    <3>2. [r EXCEPT !.pc = "work", !.fresh = FALSE, !.action = NoAction] \in Run
      BY <1>1 DEF Run, RunRow, PC
    <3>3. QED
      BY <3>1, <3>2, RunUpdate DEF TypeOK
  <2>3. CASE run' = [run EXCEPT ![w][t].step = @ + 1, ![w][t].fresh = FALSE]
    <3>1. run' = [run EXCEPT ![w][t] = [r EXCEPT !.step = r.step + 1, !.fresh = FALSE]]
      BY <2>3 DEF TypeOK, WorkerTypeOK
    <3>2. r.step + 1 \in Nat
      BY <1>1 DEF Run, RunRow
    <3>3. \A k \in Nat : [r EXCEPT !.step = k, !.fresh = FALSE] \in Run
      BY <1>1 DEF Run, RunRow
    <3>4. [r EXCEPT !.step = r.step + 1, !.fresh = FALSE] \in Run
      BY <3>2, <3>3
    <3>5. QED
      BY <3>1, <3>4, RunUpdate DEF TypeOK
  <2>4. CASE run' = [run EXCEPT ![w][t].pc = "commit", ![w][t].fresh = FALSE,
                                ![w][t].result = "waiting_approval"]
    <3>1. run' = [run EXCEPT ![w][t] = [r EXCEPT !.pc = "commit", !.fresh = FALSE,
                                                 !.result = "waiting_approval"]]
      BY <2>4 DEF TypeOK, WorkerTypeOK
    <3>2. [r EXCEPT !.pc = "commit", !.fresh = FALSE, !.result = "waiting_approval"] \in Run
      BY <1>1 DEF Run, RunRow, PC, Results
    <3>3. QED
      BY <3>1, <3>2, RunUpdate DEF TypeOK
  <2>5. QED
    BY <2>1, <2>2, <2>3, <2>4 DEF Unlink, Checkpoint, Link, PC
<1>3. task' \in [Tasks -> TaskRow]
  <2>1. CASE task' = task
    BY <2>1 DEF TypeOK, StoreTypeOK
  <2>2. CASE \E a \in Actions \cup {NoAction} : task' = [task EXCEPT ![t].action = a]
    BY <2>2 DEF TypeOK, StoreTypeOK, TaskRow
  <2>3. CASE task' = [task EXCEPT ![t].step = r.step + 1]
    <3>1. r.step + 1 \in Nat
      BY <1>1 DEF Run, RunRow
    <3>2. QED
      BY <2>3, <3>1 DEF TypeOK, StoreTypeOK, TaskRow
  <2>4. r.action \in Actions \cup {NoAction}
    BY <1>1 DEF Run, RunRow
  <2>5. QED
    BY <2>1, <2>2, <2>3, <2>4 DEF Unlink, Checkpoint, Link
<1>4. QED
  BY <1>2, <1>3 DEF Unlink, Checkpoint, Link, TypeOK, StoreTypeOK, WorkerTypeOK

(* A proposal is inserted or found, and undone. *)
LEMMA ProposeType ==
    ASSUME TypeOK, NEW w \in Workers, NEW t \in Tasks, Prepare(w, t) \/ Undo(w, t)
    PROVE  StoreTypeOK' /\ WorkerTypeOK'
<1> DEFINE r == run[w][t]
<1>1. r \in Run
  BY DEF TypeOK, WorkerTypeOK
<1>2. CASE Prepare(w, t)
  <2> DEFINE row(a) == IF action[a].status = "absent"
                       THEN [status |-> "awaiting_review", content |-> FirstContent]
                       ELSE action[a]
             h(a) == IF row(a).status = "awaiting_review" THEN row(a).content ELSE NoContent
  <2>1. PICK k \in Keys :
           /\ action' = [action EXCEPT ![<<t, k>>] = row(<<t, k>>)]
           /\ run' = [run EXCEPT ![w][t].pc = "proposed", ![w][t].action = <<t, k>>,
                                 ![w][t].hash = h(<<t, k>>)]
    BY <1>2 DEF Prepare
  <2>2. <<t, k>> \in Actions
    BY DEF Actions
  <2>3. row(<<t, k>>) \in ActionRow
    BY <2>2, StoreAssumption DEF TypeOK, StoreTypeOK, ActionRow, ActionStatus
  <2>4. h(<<t, k>>) \in Contents \cup {NoContent}
    BY <2>3 DEF ActionRow
  <2>5. action' \in [Actions -> ActionRow]
    BY <2>1, <2>3 DEF TypeOK, StoreTypeOK
  <2> HIDE DEF row, h
  <2>6. run' = [run EXCEPT ![w][t] = [r EXCEPT !.pc = "proposed", !.action = <<t, k>>,
                                               !.hash = h(<<t, k>>)]]
    BY <2>1 DEF TypeOK, WorkerTypeOK
  <2>7. [r EXCEPT !.pc = "proposed", !.action = <<t, k>>, !.hash = h(<<t, k>>)] \in Run
    BY <1>1, <2>2, <2>4 DEF Run, RunRow, PC
  <2>8. run' \in [Workers -> [Tasks -> Run]]
    BY <2>6, <2>7, RunUpdate DEF TypeOK
  <2>9. QED
    BY <1>2, <2>5, <2>8 DEF Prepare, TypeOK, StoreTypeOK, WorkerTypeOK
<1>3. CASE Undo(w, t)
  <2>1. run' \in [Workers -> [Tasks -> Run]]
    BY <1>3, RunGoto DEF Undo, TypeOK, PC
  <2>2. action' \in [Actions -> ActionRow]
    <3>1. CASE r.action \in Actions
      BY <1>3, <3>1, DenyType DEF Undo, TypeOK
    <3>2. CASE r.action \notin Actions
      BY <1>3, <3>2 DEF Undo, Deny, SetAction, TypeOK, StoreTypeOK
    <3>3. QED
      BY <3>1, <3>2
  <2>3. QED
    BY <1>3, <2>1, <2>2 DEF Undo, TypeOK, StoreTypeOK, WorkerTypeOK
<1>4. QED
  BY <1>2, <1>3

(* The final checkpoint and the catch block give the row back. *)
LEMMA ReleaseType ==
    ASSUME TypeOK, NEW w \in Workers, NEW t \in Tasks,
           Commit(w, t) \/ Requeue(w, t) \/ Fail(w, t)
    PROVE  StoreTypeOK' /\ WorkerTypeOK'
<1> DEFINE r == run[w][t]
<1>1. r \in Run /\ task[t] \in TaskRow
  BY DEF TypeOK, WorkerTypeOK, StoreTypeOK
<1>2. run' \in [Workers -> [Tasks -> Run]]
  <2>1. \E pc \in PC \ {"commit"} : Goto(w, t, pc)
    BY DEF Commit, Requeue, Fail, PC
  <2>2. QED
    BY <2>1, RunGoto DEF TypeOK
<1>3. task' \in [Tasks -> TaskRow] /\ elapsed' \subseteq elapsed
  <2>1. CASE Commit(w, t) /\ CheckpointPasses(w, t)
    <3> DEFINE new == Released(task[t], r.result)
    <3>1. task' = [task EXCEPT ![t] = [new EXCEPT !.action =
              IF r.result = "waiting_approval" THEN r.action ELSE task[t].action]]
      BY <2>1 DEF Commit, TypeOK, StoreTypeOK
    <3>2. r.result \in TaskStatus /\ r.action \in Actions \cup {NoAction}
      BY <1>1, <2>1 DEF Run, RunRow, Commit, At, Results, TaskStatus
    <3>3. new \in TaskRow
      BY <1>1, <3>2, ReleasedType
    <3> HIDE DEF new
    <3>4. [new EXCEPT !.action =
              IF r.result = "waiting_approval" THEN r.action ELSE task[t].action] \in TaskRow
      BY <1>1, <3>2, <3>3 DEF TaskRow
    <3>5. QED
      BY <2>1, <3>1, <3>4, TaskUpdate DEF TypeOK, Commit
  <2>2. CASE ~(Commit(w, t) /\ CheckpointPasses(w, t))
    <3>1. \/ UNCHANGED <<task, elapsed>>
          \/ /\ \E s \in TaskStatus : task' = [task EXCEPT ![t] = Released(task[t], s)]
             /\ elapsed' = elapsed \ {t}
      BY <2>2 DEF Commit, Requeue, Fail, TaskStatus, TypeOK, StoreTypeOK
    <3>2. QED
      BY <1>1, <3>1, ReleasedType, TaskUpdate DEF TypeOK, StoreTypeOK
  <2>3. QED
    BY <2>1, <2>2
<1>4. QED
  BY <1>2, <1>3 DEF Commit, Requeue, Fail, TypeOK, StoreTypeOK, WorkerTypeOK

(* The poll, the claim and the end of a run. *)
LEMMA ClaimType ==
    ASSUME TypeOK, NEW w \in Workers, NEW t \in Tasks,
           \/ Claim(w, t) \/ ClaimLoses(w, t) \/ Settle(w, t) \/ CatchThrows(w, t)
    PROVE  StoreTypeOK' /\ WorkerTypeOK'
<1>1. OffRun \in Run /\ NoRow \in SeenRow
  BY DEF OffRun, Run, RunRow, PC, NoRow, SeenRow
<1>2. task[t] \in TaskRow
  BY DEF TypeOK, StoreTypeOK
<1>3. CASE Claim(w, t)
  <2>1. PICK l \in LeaseIds :
           /\ task' = [task EXCEPT ![t].status = "running", ![t].lease = l, ![t].until = 0]
           /\ used' = used \cup {l}
           /\ run' = [run EXCEPT ![w][t] =
                        [OffRun EXCEPT !.pc = "claimed", !.lease = l,
                                       !.action = task[t].action, !.step = task[t].step]]
    BY <1>3 DEF Claim
  <2>2. [OffRun EXCEPT !.pc = "claimed", !.lease = l,
                       !.action = task[t].action, !.step = task[t].step] \in Run
    <3>1. task[t].action \in Actions \cup {NoAction} /\ task[t].step \in Nat
      BY <1>2 DEF TaskRow
    <3>2. \A x \in Actions \cup {NoAction}, k \in Nat :
             [OffRun EXCEPT !.pc = "claimed", !.lease = l, !.action = x, !.step = k] \in Run
      BY DEF OffRun, Run, RunRow, PC
    <3>3. QED
      BY <3>1, <3>2
  <2>3. run' \in [Workers -> [Tasks -> Run]]
    BY <2>1, <2>2, RunUpdate DEF TypeOK
  <2>4. task' \in [Tasks -> TaskRow]
    <3>1. task' = [task EXCEPT ![t] = [task[t] EXCEPT !.status = "running", !.lease = l,
                                                      !.until = 0]]
      BY <2>1 DEF TypeOK, StoreTypeOK
    <3>2. [task[t] EXCEPT !.status = "running", !.lease = l, !.until = 0] \in TaskRow
      BY <1>2 DEF TaskRow, TaskStatus
    <3>3. QED
      BY <3>1, <3>2, TaskUpdate DEF TypeOK
  <2>5. seen' \in [Workers -> [Tasks -> SeenRow]]
    BY <1>1, <1>3 DEF Claim, TypeOK, WorkerTypeOK
  <2>6. QED
    BY <1>3, <2>1, <2>3, <2>4, <2>5 DEF Claim, TypeOK, StoreTypeOK, WorkerTypeOK
<1>4. CASE ClaimLoses(w, t)
  BY <1>1, <1>4 DEF ClaimLoses, TypeOK, StoreTypeOK, WorkerTypeOK, storeVars
<1>5. CASE Settle(w, t) \/ CatchThrows(w, t)
  <2>1. run' \in [Workers -> [Tasks -> Run]]
    BY <1>1, <1>5, RunUpdate DEF Settle, CatchThrows, TypeOK
  <2>2. notified' \subseteq Tasks /\ rejected' \in [Workers -> BOOLEAN]
    BY <1>5 DEF Settle, CatchThrows, TypeOK, WorkerTypeOK
  <2>3. QED
    BY <1>5, <2>1, <2>2 DEF Settle, CatchThrows, TypeOK, StoreTypeOK, WorkerTypeOK, storeVars
<1>6. QED
  BY <1>3, <1>4, <1>5

(* The poll: the rows it keeps are of the three statuses it looks for. *)
LEMMA TickType ==
    ASSUME TypeOK, NEW w \in Workers, Tick(w)
    PROVE  StoreTypeOK' /\ WorkerTypeOK'
<1>1. \A t \in Tasks : Due(w, t) =>
         [status |-> task[t].status, lease |-> task[t].lease, until |-> task[t].until] \in SeenRow
  BY DEF TypeOK, StoreTypeOK, TaskRow, Due, SeenRow
<1>2. seen' \in [Workers -> [Tasks -> SeenRow]]
  BY <1>1 DEF Tick, TypeOK, WorkerTypeOK
<1>3. action' \in [Actions -> ActionRow]
  BY DEF Tick, TypeOK, StoreTypeOK, ActionRow, ActionStatus
<1>4. rejected' \in [Workers -> BOOLEAN]
  BY DEF Tick, TypeOK, WorkerTypeOK
<1>5. QED
  BY <1>2, <1>3, <1>4 DEF Tick, TypeOK, StoreTypeOK, WorkerTypeOK

(* The heartbeat renews the lease or aborts the run. *)
LEMMA HeartbeatType ==
    ASSUME TypeOK, NEW w \in Workers, NEW t \in Tasks, Heartbeat(w, t)
    PROVE  StoreTypeOK' /\ WorkerTypeOK'
<1> DEFINE r == run[w][t]
<1>1. r \in Run /\ task[t] \in TaskRow
  BY DEF TypeOK, WorkerTypeOK, StoreTypeOK
<1>2. PICK b \in BOOLEAN : run' = [run EXCEPT ![w][t] = [r EXCEPT !.fresh = FALSE, !.aborted = b]]
  <2>1. CASE run' = [run EXCEPT ![w][t].fresh = FALSE]
    <3>1. run' = [run EXCEPT ![w][t] = [r EXCEPT !.fresh = FALSE, !.aborted = r.aborted]]
      BY <1>1, <2>1 DEF TypeOK, WorkerTypeOK, Run, RunRow
    <3>2. QED
      BY <1>1, <3>1 DEF Run, RunRow
  <2>2. CASE run' = [run EXCEPT ![w][t].fresh = FALSE, ![w][t].aborted = TRUE]
    BY <2>2 DEF TypeOK, WorkerTypeOK
  <2>3. QED
    BY <2>1, <2>2 DEF Heartbeat
<1>3. [r EXCEPT !.fresh = FALSE, !.aborted = b] \in Run
  BY <1>1 DEF Run, RunRow
<1>4. run' \in [Workers -> [Tasks -> Run]]
  BY <1>2, <1>3, RunUpdate DEF TypeOK
<1>5. task' \in [Tasks -> TaskRow] /\ elapsed' \subseteq elapsed
  <2>1. CASE UNCHANGED <<task, elapsed>>
    BY <2>1 DEF TypeOK, StoreTypeOK
  <2>2. CASE task' = [task EXCEPT ![t].until = @ + 1] /\ elapsed' = elapsed \ {t}
    <3>1. task' = [task EXCEPT ![t] = [task[t] EXCEPT !.until = task[t].until + 1]]
      BY <2>2 DEF TypeOK, StoreTypeOK
    <3>2. task[t].until + 1 \in Nat
      BY <1>1 DEF TaskRow
    <3>3. \A k \in Nat : [task[t] EXCEPT !.until = k] \in TaskRow
      BY <1>1 DEF TaskRow
    <3>4. QED
      BY <2>2, <3>1, <3>2, <3>3, TaskUpdate DEF TypeOK
  <2>3. QED
    BY <2>1, <2>2 DEF Heartbeat
<1>6. QED
  BY <1>4, <1>5 DEF Heartbeat, TypeOK, StoreTypeOK, WorkerTypeOK

(* Runs of one process that are aborted together. *)
LEMMA AbortingType ==
    ASSUME WorkerTypeOK, NEW w \in Workers, NEW ts
    PROVE  Aborting(w, ts) \in [Workers -> [Tasks -> Run]]
<1>1. \A r \in Run : [r EXCEPT !.aborted = TRUE] \in Run
  BY DEF Run, RunRow
<1>2. \A t \in Tasks : run[w][t] \in Run
  BY DEF WorkerTypeOK
<1>3. QED
  BY <1>1, <1>2 DEF WorkerTypeOK, Aborting

(* Shutdown, crash and boot. *)
LEMMA ProcessType ==
    ASSUME TypeOK, NEW w \in Workers, Stop(w) \/ Exit(w) \/ Crash(w) \/ Restart(w)
    PROVE  StoreTypeOK' /\ WorkerTypeOK'
<1>1. OffRun \in Run /\ NoRow \in SeenRow
  BY DEF OffRun, Run, RunRow, PC, NoRow, SeenRow
<1>2. CASE Stop(w)
  BY <1>2, AbortingType DEF Stop, TypeOK, StoreTypeOK, WorkerTypeOK, storeVars
<1>3. CASE Exit(w) \/ Crash(w)
  <2>1. exits' \in Nat /\ Down(w)
    BY <1>3 DEF Exit, Crash, TypeOK, WorkerTypeOK
  <2>2. QED
    BY <1>1, <2>1 DEF Down, TypeOK, StoreTypeOK, WorkerTypeOK, storeVars
<1>4. CASE Restart(w)
  <2>1. action' \in [Actions -> ActionRow]
    BY <1>4, RecoveredType DEF Restart, TypeOK
  <2>2. \A t \in Tasks : task[t] \in TaskRow /\ Released(task[t], "queued") \in TaskRow
    BY ReleasedType DEF TypeOK, StoreTypeOK, TaskStatus
  <2>3. task' \in [Tasks -> TaskRow]
    BY <1>4, <2>2 DEF Restart
  <2>4. elapsed' \subseteq elapsed /\ proc' \in [Workers -> {"up", "stopping", "down"}]
    BY <1>4 DEF Restart, TypeOK, WorkerTypeOK
  <2>5. QED
    BY <1>4, <2>1, <2>3, <2>4 DEF Restart, TypeOK, StoreTypeOK, WorkerTypeOK
<1>5. QED
  BY <1>2, <1>3, <1>4

(* A step of the workers keeps every type. *)
LEMMA WorkerStepType == TypeOK /\ WorkerStep => TypeOK'
<1> SUFFICES ASSUME TypeOK, WorkerStep PROVE TypeOK'
  OBVIOUS
<1>1. ControlTypeOK' /\ ApprovalTypeOK'
  BY DEF WorkerStep, TypeOK, ControlTypeOK, ApprovalTypeOK, controlVars, approvalVars
<1>2. StoreTypeOK' /\ WorkerTypeOK'
  <2>1. ASSUME NEW w \in Workers, Tick(w) \/ Stop(w) \/ Exit(w) \/ Crash(w) \/ Restart(w)
        PROVE  StoreTypeOK' /\ WorkerTypeOK'
    BY <2>1, TickType, ProcessType
  <2>2. ASSUME NEW w \in Workers, NEW t \in Tasks, HandlerNext(w, t)
        PROVE  StoreTypeOK' /\ WorkerTypeOK'
    BY <2>2, MoveType, RecordType, LocalType, CheckpointType, ProposeType, ReleaseType,
       ClaimType DEF HandlerNext
  <2>3. ASSUME NEW w \in Workers, NEW t \in Tasks,
               Claim(w, t) \/ ClaimLoses(w, t) \/ Heartbeat(w, t) \/ TaskTimeout(w, t)
        PROVE  StoreTypeOK' /\ WorkerTypeOK'
    BY <2>3, ClaimType, HeartbeatType, LocalType
  <2>4. ASSUME NEW t \in Tasks, Republish(t)
        PROVE  StoreTypeOK' /\ WorkerTypeOK'
    BY <2>4 DEF Republish, TypeOK, StoreTypeOK, WorkerTypeOK, storeVars
  <2>5. QED
    BY <2>1, <2>2, <2>3, <2>4 DEF WorkerStep, WorkerNext
<1>3. QED
  BY <1>1, <1>2 DEF TypeOK

(* What a request on a task writes is a row, if the progress it read is one. *)
LEMMA WrittenType ==
    ASSUME NEW op \in Ops, NEW now \in TaskRow, NEW read,
           read.step \in Nat
    PROVE  Written(op, read, now) \in TaskRow
<1>1. \A s \in TaskStatus : Released(now, s) \in TaskRow
  BY ReleasedType
<1>2. \A s \in TaskStatus, k \in Nat, b \in BOOLEAN :
         /\ [Released(now, s) EXCEPT !.step = k, !.escalated = b] \in TaskRow
         /\ [now EXCEPT !.status = s, !.step = k, !.escalated = b] \in TaskRow
  BY <1>1 DEF TaskRow
<1>3. QED
  BY <1>1, <1>2 DEF Written, Ops, TaskStatus

(* The requests: create, read, write, conflict, deny, die. *)
LEMMA ControlStepType == TypeOK /\ ControlStep => TypeOK'
<1> SUFFICES ASSUME TypeOK, ControlStep PROVE TypeOK'
  OBVIOUS
<1>1. ApprovalTypeOK'
  BY DEF ControlStep, TypeOK, ApprovalTypeOK, approvalVars
<1>2. StoreTypeOK' /\ WorkerTypeOK' /\ ControlTypeOK'
  <2>1. ASSUME NEW t \in Tasks, CreateTask(t)
        PROVE  StoreTypeOK' /\ WorkerTypeOK' /\ ControlTypeOK'
    <3>1. task' \in [Tasks -> TaskRow]
      BY <2>1 DEF CreateTask, TypeOK, StoreTypeOK, TaskRow, TaskStatus
    <3>2. QED
      BY <2>1, <3>1 DEF CreateTask, TypeOK, StoreTypeOK, WorkerTypeOK, ControlTypeOK,
                        workerVars, controlVars
  <2>2. ASSUME NEW u \in Requests, NEW op \in Offered, NEW t \in Tasks, ReadTask(u, op, t)
        PROVE  StoreTypeOK' /\ WorkerTypeOK' /\ ControlTypeOK'
    <3>1. op \in Ops
      BY OfferedAssumption
    <3>2. task[t] \in TaskRow
      BY DEF TypeOK, StoreTypeOK
    <3>3. Kept(op, task[t]) \in [status : TaskStatus, lease : LeaseIds \cup {NoLease},
                                 action : Actions \cup {NoAction}, step : Nat]
      BY <3>2 DEF Kept, TaskRow
    <3>4. [pc |-> "cas", op |-> op, t |-> t, row |-> Kept(op, task[t])] \in Request
      BY <3>1, <3>3 DEF Request
    <3>5. ControlTypeOK'
      BY <2>2, <3>4 DEF ReadTask, TypeOK, ControlTypeOK
    <3>6. QED
      BY <2>2, <3>5 DEF ReadTask, TypeOK, StoreTypeOK, WorkerTypeOK, storeVars, workerVars
  <2>3. ASSUME NEW u \in Requests, Apply(u)
        PROVE  StoreTypeOK' /\ WorkerTypeOK' /\ ControlTypeOK'
    <3> DEFINE r == req[u]
    <3>1. r \in [pc : {"cas", "deny"}, op : Ops, t : Tasks,
                 row : [status : TaskStatus, lease : LeaseIds \cup {NoLease},
                        action : Actions \cup {NoAction}, step : Nat]]
      BY <2>3 DEF Apply, TypeOK, ControlTypeOK, Request, Idle
    <3>2. r.op \in Ops /\ r.t \in Tasks /\ r.row.step \in Nat
      BY <3>1
    <3>3. Written(r.op, r.row, task[r.t]) \in TaskRow
      BY <3>2, WrittenType DEF TypeOK, StoreTypeOK
    <3>4. task' \in [Tasks -> TaskRow] /\ elapsed' \subseteq elapsed
      BY <2>3, <3>2, <3>3 DEF Apply, TypeOK, StoreTypeOK
    <3>5. run' \in [Workers -> [Tasks -> Run]]
      BY <2>3, AbortingType DEF Apply, TypeOK, WorkerTypeOK
    <3>6. [r EXCEPT !.pc = "deny"] \in Request /\ Idle \in Request
      BY <3>1 DEF Request
    <3>7. req' \in [Requests -> Request]
      BY <2>3, <3>6 DEF Apply, TypeOK, ControlTypeOK
    <3>8. QED
      BY <2>3, <3>4, <3>5, <3>7 DEF Apply, TypeOK, StoreTypeOK, WorkerTypeOK, ControlTypeOK
  <2>4. ASSUME NEW u \in Requests, Conflict(u) \/ Dropped(u)
        PROVE  StoreTypeOK' /\ WorkerTypeOK' /\ ControlTypeOK'
    <3>1. req' \in [Requests -> Request]
      BY <2>4 DEF Conflict, Dropped, TypeOK, ControlTypeOK, Request
    <3>2. QED
      BY <2>4, <3>1 DEF Conflict, Dropped, TypeOK, StoreTypeOK, WorkerTypeOK, ControlTypeOK,
                        storeVars, workerVars
  <2>5. ASSUME NEW u \in Requests, DenyCancelled(u)
        PROVE  StoreTypeOK' /\ WorkerTypeOK' /\ ControlTypeOK'
    <3>1. req' \in [Requests -> Request]
      BY <2>5 DEF DenyCancelled, TypeOK, ControlTypeOK, Request
    <3>2. action' \in [Actions -> ActionRow]
      <4>1. CASE req[u].row.action \in Actions
        BY <2>5, <4>1, DenyType DEF DenyCancelled, TypeOK
      <4>2. CASE req[u].row.action \notin Actions
        BY <2>5, <4>2 DEF DenyCancelled, Deny, SetAction, TypeOK, StoreTypeOK
      <4>3. QED
        BY <4>1, <4>2
    <3>3. QED
      BY <2>5, <3>1, <3>2 DEF DenyCancelled, TypeOK, StoreTypeOK, WorkerTypeOK, ControlTypeOK,
                              workerVars
  <2>6. QED
    BY <2>1, <2>2, <2>3, <2>4, <2>5 DEF ControlStep, ControlNext
<1>3. QED
  BY <1>1, <1>2 DEF TypeOK

(* A decide or reconcile request moves on, and the history counters count. *)
LEMMA DecisionStepType ==
    ASSUME TypeOK, NEW d \in Deciders,
           \/ \E a \in Actions, choice \in {"approve", "deny"} : Decide(d, a, choice)
           \/ ClaimAction(d) \/ CallProvider(d) \/ PutOutcome(d) \/ DeciderDies(d)
           \/ \E a \in Actions : Reconcile(d, a)
           \/ Retask(d)
    PROVE  StoreTypeOK' /\ ApprovalTypeOK'
<1>1. dec[d] \in Decision /\ NoDecision \in Decision
  BY DEF TypeOK, ApprovalTypeOK, Decision
<1>2. ASSUME NEW a \in Actions, NEW choice \in {"approve", "deny"}, Decide(d, a, choice)
      PROVE  StoreTypeOK' /\ ApprovalTypeOK'
  <2>1. [pc |-> "checked", a |-> a, choice |-> choice, hash |-> action[a].content] \in Decision
    BY DEF TypeOK, StoreTypeOK, ActionRow, Decision
  <2>2. dec' \in [Deciders -> Decision]
    BY <1>2, <2>1 DEF Decide, SetDec, TypeOK, ApprovalTypeOK
  <2>3. action' \in [Actions -> ActionRow]
    BY <1>2, ActionUpdate DEF Decide, TypeOK, StoreTypeOK, ActionStatus
  <2>4. QED
    BY <1>2, <2>2, <2>3 DEF Decide, TypeOK, StoreTypeOK, ApprovalTypeOK
<1>3. CASE ClaimAction(d)
  <2>1. dec[d] \in [pc : {"checked"}, a : Actions, choice : {"approve", "deny"}, hash : Contents]
    BY <1>1, <1>3 DEF ClaimAction, Decision, NoDecision
  <2>2. dec[d].a \in Actions /\ dec[d].hash \in Contents
    BY <2>1
  <2>3. action[dec[d].a].content \in Contents
    BY <2>2 DEF TypeOK, StoreTypeOK, ActionRow
  <2>4. [pc |-> "call", a |-> dec[d].a, hash |-> dec[d].hash,
         content |-> action[dec[d].a].content] \in Decision
    BY <2>2, <2>3 DEF Decision
  <2>5. dec' \in [Deciders -> Decision]
    BY <1>1, <1>3, <2>4 DEF ClaimAction, SetDec, TypeOK, ApprovalTypeOK
  <2>6. action' \in [Actions -> ActionRow]
    BY <1>3, <2>2, ActionUpdate DEF ClaimAction, TypeOK, StoreTypeOK, ActionStatus
  <2>7. QED
    BY <1>3, <2>5, <2>6 DEF ClaimAction, TypeOK, StoreTypeOK, ApprovalTypeOK
<1>4. CASE CallProvider(d)
  <2>1. dec[d] \in [pc : {"call"}, a : Actions, hash : Contents, content : Contents]
    BY <1>1, <1>4 DEF CallProvider, Decision, NoDecision
  <2>2. \A o \in Outcome :
          [pc |-> "put", a |-> dec[d].a, content |-> dec[d].content, outcome |-> o] \in Decision
    BY <2>1 DEF Decision
  <2>3. dec' \in [Deciders -> Decision]
    BY <1>4, <2>2 DEF CallProvider, SetDec, TypeOK, ApprovalTypeOK
  <2>4. effects' \in [Actions -> Nat]
    BY <1>4, <2>1 DEF CallProvider, TypeOK, ApprovalTypeOK
  <2>5. QED
    BY <1>4, <2>3, <2>4 DEF CallProvider, TypeOK, StoreTypeOK, ApprovalTypeOK, storeVars
<1>5. CASE PutOutcome(d)
  <2>1. dec[d] \in [pc : {"put"}, a : Actions, content : Contents, outcome : Outcome]
    BY <1>1, <1>5 DEF PutOutcome, Decision, NoDecision
  <2>2. [status |-> dec[d].outcome, content |-> dec[d].content] \in ActionRow
    BY <2>1 DEF ActionRow, ActionStatus, Outcome
  <2>3. action' \in [Actions -> ActionRow]
    BY <1>5, <2>2 DEF PutOutcome, TypeOK, StoreTypeOK
  <2>4. dec' \in [Deciders -> Decision]
    BY <1>1, <1>5 DEF PutOutcome, SetDec, TypeOK, ApprovalTypeOK
  <2>5. QED
    BY <1>5, <2>3, <2>4 DEF PutOutcome, TypeOK, StoreTypeOK, ApprovalTypeOK
<1>6. CASE DeciderDies(d)
  <2>1. dec' \in [Deciders -> Decision]
    BY <1>1, <1>6 DEF DeciderDies, SetDec, TypeOK, ApprovalTypeOK
  <2>2. QED
    BY <1>6, <2>1 DEF DeciderDies, TypeOK, StoreTypeOK, ApprovalTypeOK, storeVars
<1>7. ASSUME NEW a \in Actions, Reconcile(d, a)
      PROVE  StoreTypeOK' /\ ApprovalTypeOK'
  <2>1. PICK o \in {"succeeded", "failed"} :
           /\ SetAction(a, o)
           /\ SetDec(d, [pc |-> "retask", a |-> a, outcome |-> o])
           /\ reconciled' = IF o = "failed" THEN [reconciled EXCEPT ![a] = @ + 1] ELSE reconciled
    BY <1>7 DEF Reconcile
  <2>2. [pc |-> "retask", a |-> a, outcome |-> o] \in Decision
    BY DEF Decision, Outcome
  <2>3. dec' \in [Deciders -> Decision]
    BY <2>1, <2>2 DEF SetDec, TypeOK, ApprovalTypeOK
  <2>4. action' \in [Actions -> ActionRow]
    BY <2>1, ActionUpdate DEF TypeOK, ActionStatus
  <2>5. reconciled' \in [Actions -> Nat]
    BY <2>1 DEF TypeOK, ApprovalTypeOK
  <2>6. QED
    BY <1>7, <2>3, <2>4, <2>5 DEF Reconcile, TypeOK, StoreTypeOK, ApprovalTypeOK
<1>8. CASE Retask(d)
  <2>1. dec' \in [Deciders -> Decision]
    BY <1>1, <1>8 DEF Retask, SetDec, TypeOK, ApprovalTypeOK
  <2>2. task' \in [Tasks -> TaskRow]
    <3>1. CASE task' = task
      BY <3>1 DEF TypeOK, StoreTypeOK
    <3>2. CASE \E s \in TaskStatus : task' = [task EXCEPT ![dec[d].a[1]].status = s]
      <4>1. PICK s \in TaskStatus : task' = [task EXCEPT ![dec[d].a[1]].status = s]
        BY <3>2
      <4>2. task \in [Tasks -> TaskRow]
        BY DEF TypeOK, StoreTypeOK
      <4>3. ASSUME NEW t \in Tasks PROVE [task[t] EXCEPT !.status = s] \in TaskRow
        BY <4>2 DEF TaskRow
      <4>4. QED
        BY <4>1, <4>2, <4>3
    <3>3. QED
      BY <1>8, <3>1, <3>2 DEF Retask, TaskStatus
  <2>3. QED
    BY <1>8, <2>1, <2>2 DEF Retask, TypeOK, StoreTypeOK, ApprovalTypeOK
<1>9. QED
  BY <1>2, <1>3, <1>4, <1>5, <1>6, <1>7, <1>8

(* A step on the proposals keeps every type. *)
LEMMA ApprovalStepType == TypeOK /\ ApprovalStep => TypeOK'
<1> SUFFICES ASSUME TypeOK, ApprovalStep PROVE TypeOK'
  OBVIOUS
<1>1. WorkerTypeOK' /\ ControlTypeOK'
  BY DEF ApprovalStep, TypeOK, WorkerTypeOK, ControlTypeOK, workerVars, controlVars
<1>2. StoreTypeOK' /\ ApprovalTypeOK'
  <2>1. ASSUME NEW a \in Actions,
               Edit(a) \/ Retry(a) \/ CancelAction(a) \/ ForceCancel(a) \/ MaintainExpire(a)
        PROVE  StoreTypeOK' /\ ApprovalTypeOK'
    <3>1. action' \in [Actions -> ActionRow]
      <4>1. CASE Edit(a)
        BY <4>1 DEF Edit, TypeOK, StoreTypeOK, ActionRow
      <4>2. CASE ~Edit(a)
        BY <2>1, <4>2, ActionUpdate
        DEF Retry, CancelAction, ForceCancel, MaintainExpire, TypeOK, ActionStatus
      <4>3. QED
        BY <4>1, <4>2
    <3>2. retries' \in [Actions -> Nat]
      BY <2>1 DEF Edit, Retry, CancelAction, ForceCancel, MaintainExpire, TypeOK,
                  ApprovalTypeOK, approvalVars
    <3>3. QED
      BY <2>1, <3>1, <3>2 DEF Edit, Retry, CancelAction, ForceCancel, MaintainExpire, TypeOK,
                              StoreTypeOK, ApprovalTypeOK, approvalVars
  <2>2. CASE MaintainRecover
    BY <2>2, RecoveredType DEF MaintainRecover, TypeOK, StoreTypeOK, ApprovalTypeOK, approvalVars
  <2>3. QED
    BY <2>1, <2>2, DecisionStepType DEF ApprovalStep, ApprovalNext
<1>3. QED
  BY <1>1, <1>2 DEF TypeOK

(* A deadline passes: the set of overdue rows grows by a row. *)
LEMMA TimeStepType == TypeOK /\ TimeStep => TypeOK'
  BY DEF TimeStep, LeaseElapses, ReviewElapses, TypeOK, StoreTypeOK, WorkerTypeOK, ControlTypeOK,
         ApprovalTypeOK, workerVars, controlVars, approvalVars

(* A step that changes nothing changes no type. *)
LEMMA StutterType == TypeOK /\ UNCHANGED vars => TypeOK'
  BY DEF vars, storeVars, workerVars, controlVars, approvalVars, TypeOK, StoreTypeOK,
         WorkerTypeOK, ControlTypeOK, ApprovalTypeOK

(* Every step of the engine keeps every type. *)
LEMMA NextType == TypeOK /\ [Next]_vars => TypeOK'
  BY WorkerStepType, ControlStepType, ApprovalStepType, TimeStepType, StutterType DEF Next

(* Type correctness of the engine: in particular a task's status is always   *)
(* one of the domain's, a lease is always one that a claim drew or null, and *)
(* the final checkpoint always has a result to write.                        *)
THEOREM Typing == Spec => []TypeOK
<1>1. Init => TypeOK
  BY Typing0
<1>2. TypeOK /\ [Next]_vars => TypeOK'
  BY NextType
<1>3. QED
  BY <1>1, <1>2, PTL DEF Spec
============================================================================
