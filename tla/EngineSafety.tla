---------------------------- MODULE EngineSafety ----------------------------
(* Theorems about what the engine may do to a task, for any number of tasks, *)
(* keys, leases, processes and requests.                                     *)
EXTENDS EngineTyping, FiniteSetTheorems

(* The row's lease and status agree. *)
LeaseFits(row) == row.lease # NoLease <=> row.status = "running"

(* The statuses that the guards of a request let through. *)
StatusAdmits(op, s) ==
    /\ op = "cancel" => s \notin {"absent", "succeeded"}
    /\ op \in {"resume", "retry"} => s \in {"paused", "failed"}
    /\ op = "pause" => s \notin Terminal \cup {"absent", "paused"}
    /\ op = "escalate" => s \notin Terminal \cup {"absent"}
    /\ op = "answer" => s = "waiting_input"

(* What a request in flight remembers of the guards it passed. *)
AdmittedWhenRead ==
    \A u \in Requests : req[u].pc # "idle" =>
       /\ StatusAdmits(req[u].op, req[u].row.status)
       /\ req[u].row.status # "succeeded"
       /\ req[u].row.status = "cancelled" => req[u].op = "cancel"
       /\ req[u].op = "answer" => req[u].row.status = "waiting_input"

(* LeaseIffRunning alone is not inductive: answer writes a status without    *)
(* touching the lease, and is right only because it read waiting_input.      *)
LeaseInv == TypeOK /\ LeaseIffRunning /\ AdmittedWhenRead

----------------------------------------------------------------------------
(* A request's memory of the row is right about its guards: it is written    *)
(* only by ReadTask, behind Admits, and never changed afterwards.            *)
LEMMA AdmittedStep == TypeOK /\ AdmittedWhenRead /\ [Next]_vars => AdmittedWhenRead'
<1> SUFFICES ASSUME TypeOK, AdmittedWhenRead, [Next]_vars PROVE AdmittedWhenRead'
  OBVIOUS
<1>1. CASE req' = req
  BY <1>1 DEF AdmittedWhenRead
<1>2. ASSUME NEW u \in Requests, NEW op \in Offered, NEW t \in Tasks, ReadTask(u, op, t)
      PROVE  AdmittedWhenRead'
  <2>1. op \in Ops
    BY OfferedAssumption
  <2>2. /\ task[t].status # "succeeded"
        /\ task[t].status = "cancelled" => op = "cancel"
        /\ op = "answer" => task[t].status = "waiting_input"
    BY <1>2, <2>1 DEF ReadTask, Admits, Ops, Terminal
  <2>5. StatusAdmits(op, task[t].status)
    BY <1>2, <2>1 DEF ReadTask, Admits, Ops, StatusAdmits
  <2>3. req' = [req EXCEPT ![u] = [pc |-> "cas", op |-> op, t |-> t, row |-> Kept(op, task[t])]]
    BY <1>2 DEF ReadTask
  <2>4. QED
    BY <2>2, <2>3, <2>5 DEF AdmittedWhenRead, Kept, TypeOK, ControlTypeOK
<1>3. ASSUME NEW u \in Requests, Apply(u) \/ Conflict(u) \/ DenyCancelled(u) \/ Dropped(u)
      PROVE  AdmittedWhenRead'
  <2>1. \/ req' = [req EXCEPT ![u] = Idle]
        \/ req[u].pc # "idle" /\ req' = [req EXCEPT ![u] = [req[u] EXCEPT !.pc = "deny"]]
    BY <1>3 DEF Apply, Conflict, DenyCancelled, Dropped
  <2>2. CASE req' = [req EXCEPT ![u] = Idle]
    BY <2>2 DEF AdmittedWhenRead, Idle, TypeOK, ControlTypeOK
  <2>3. CASE req[u].pc # "idle" /\ req' = [req EXCEPT ![u] = [req[u] EXCEPT !.pc = "deny"]]
    <3>1. req[u] \in [pc : {"cas", "deny"}, op : Ops, t : Tasks,
                      row : [status : TaskStatus, lease : LeaseIds \cup {NoLease},
                             action : Actions \cup {NoAction}, step : Nat]]
      BY <2>3 DEF TypeOK, ControlTypeOK, Request, Idle
    <3>2. /\ req'[u].row = req[u].row
          /\ req'[u].op = req[u].op
      BY <2>3, <3>1 DEF TypeOK, ControlTypeOK
    <3>3. \A v \in Requests : v # u => req'[v] = req[v]
      BY <2>3 DEF TypeOK, ControlTypeOK
    <3>4. QED
      BY <2>3, <3>2, <3>3 DEF AdmittedWhenRead
  <2>4. QED
    BY <2>1, <2>2, <2>3
<1>4. QED
  BY <1>1, <1>2, <1>3 DEF Next, WorkerStep, ControlStep, ControlNext, CreateTask, ApprovalStep,
                          TimeStep, vars, controlVars

----------------------------------------------------------------------------
(* A released row has no lease and, unless it is said to run, does not run. *)
LEMMA ReleasedFits ==
    ASSUME NEW row \in TaskRow, NEW s, s # "running"
    PROVE  LeaseFits(Released(row, s)) /\ Released(row, s).status = s
  BY DEF LeaseFits, Released, TaskRow

(* One row is replaced by a row that fits. *)
LEMMA FitsUpdate ==
    ASSUME TypeOK, LeaseIffRunning, NEW t \in Tasks, NEW row, LeaseFits(row),
           task' = [task EXCEPT ![t] = row]
    PROVE  LeaseIffRunning'
  BY DEF TypeOK, StoreTypeOK, LeaseIffRunning, LeaseFits

(* What a worker's step may do to the rows: nothing; a claim; a write of a   *)
(* run that holds the lease, which keeps status and lease or gives both up;  *)
(* or boot recovery.                                                         *)
LEMMA WorkerWrites ==
    ASSUME TypeOK, WorkerStep
    PROVE  \/ task' = task
           \/ \E t \in Tasks, l \in LeaseIds :
                 /\ task[t].status \in {"queued", "running", "waiting_approval"}
                 /\ task' = [task EXCEPT ![t].status = "running", ![t].lease = l, ![t].until = 0]
           \/ \E t \in Tasks, row \in TaskRow :
                 /\ task[t].status = "running"
                 /\ task' = [task EXCEPT ![t] = row]
                 /\ \/ row.status = task[t].status /\ row.lease = task[t].lease
                    \/ row.status # "running" /\ row.lease = NoLease
           \/ task' = [t \in Tasks |-> IF task[t].status = "running" /\ t \in elapsed
                                       THEN Released(task[t], "queued") ELSE task[t]]
<1> DEFINE Wr(t, row) == /\ task[t].status = "running"
                         /\ task' = [task EXCEPT ![t] = row]
                         /\ \/ row.status = task[t].status /\ row.lease = task[t].lease
                            \/ row.status # "running" /\ row.lease = NoLease
<1>1. ASSUME NEW w \in Workers, NEW t \in Tasks, Claim(w, t)
      PROVE  \E l \in LeaseIds :
                /\ task[t].status \in {"queued", "running", "waiting_approval"}
                /\ task' = [task EXCEPT ![t].status = "running", ![t].lease = l, ![t].until = 0]
  <2>1. task[t].status \in TaskStatus /\ seen[w][t] \in SeenRow
    BY DEF TypeOK, StoreTypeOK, WorkerTypeOK, TaskRow
  <2>2. task[t].status \in {"queued", "running", "waiting_approval"}
    BY <1>1, <2>1 DEF Claim, Unchanged, SeenRow, TaskStatus
  <2>3. QED
    BY <1>1, <2>2 DEF Claim
<1>2. ASSUME NEW w \in Workers, NEW t \in Tasks,
             Unlink(w, t) \/ Checkpoint(w, t) \/ Link(w, t) \/ Heartbeat(w, t)
      PROVE  task' = task \/ \E row \in TaskRow : Wr(t, row)
  <2>1. CASE task' = task
    BY <2>1
  <2>2. CASE task' # task
    <3>1. task[t].status = "running" /\ task[t] \in TaskRow
      BY <1>2, <2>2 DEF Unlink, Checkpoint, Link, Heartbeat, CheckpointPasses, Holds,
                        TypeOK, StoreTypeOK
    <3>2. \/ \E x : task' = [task EXCEPT ![t].action = x]
          \/ \E x : task' = [task EXCEPT ![t].step = x]
          \/ task' = [task EXCEPT ![t].until = @ + 1]
      BY <1>2, <2>2 DEF Unlink, Checkpoint, Link, Heartbeat
    <3>3. /\ task' = [task EXCEPT ![t] = task'[t]]
          /\ task'[t].status = task[t].status /\ task'[t].lease = task[t].lease
      BY <3>1, <3>2 DEF TypeOK, StoreTypeOK, TaskRow
    <3>4. task'[t] \in TaskRow
      BY <1>2, CheckpointType, HeartbeatType DEF StoreTypeOK
    <3>5. QED
      BY <3>1, <3>3, <3>4
  <2>3. QED
    BY <2>1, <2>2
<1>3. ASSUME NEW w \in Workers, NEW t \in Tasks, Commit(w, t) \/ Requeue(w, t) \/ Fail(w, t)
      PROVE  task' = task \/ \E row \in TaskRow : Wr(t, row)
  <2>1. CASE task' = task
    BY <2>1
  <2>2. CASE task' # task
    <3>1. task[t].status = "running" /\ task[t] \in TaskRow
      BY <1>3, <2>2 DEF Commit, Requeue, Fail, CheckpointPasses, Holds, TypeOK, StoreTypeOK
    <3>2. task'[t] \in TaskRow
      BY <1>3, ReleaseType DEF StoreTypeOK
    <3>3. run[w][t].pc = "commit" => run[w][t].result \in Results
      BY DEF TypeOK, WorkerTypeOK, Run
    <3>4. PICK s : /\ s # "running"
                   /\ \/ task' = [task EXCEPT ![t] = Released(task[t], s)]
                      \/ \E x : task' = [task EXCEPT ![t] = [Released(task[t], s) EXCEPT !.action = x]]
      BY <1>3, <2>2, <3>3 DEF Commit, Requeue, Fail, At, Results, TypeOK, StoreTypeOK
    <3>5. task' = [task EXCEPT ![t] = task'[t]] /\ task'[t].status # "running"
          /\ task'[t].lease = NoLease
      <4>1. \A x : LET row == [Released(task[t], s) EXCEPT !.action = x]
                   IN  row.status = s /\ row.lease = NoLease
        BY <3>1 DEF Released, TaskRow
      <4>2. Released(task[t], s).status = s /\ Released(task[t], s).lease = NoLease
        BY <3>1 DEF Released, TaskRow
      <4>3. PICK row : /\ task' = [task EXCEPT ![t] = row]
                       /\ row.status = s /\ row.lease = NoLease
        BY <3>4, <4>1, <4>2
      <4>4. QED
        BY <3>4, <4>3 DEF TypeOK, StoreTypeOK
    <3>6. QED
      BY <3>1, <3>2, <3>5
  <2>3. QED
    BY <2>1, <2>2
<1>4. ASSUME NEW w \in Workers, NEW t \in Tasks, HandlerNext(w, t)
      PROVE  task' = task \/ \E row \in TaskRow : Wr(t, row)
  <2>1. CASE Unlink(w, t) \/ Checkpoint(w, t) \/ Link(w, t)
    BY <1>2, <2>1
  <2>2. CASE Commit(w, t) \/ Requeue(w, t) \/ Fail(w, t)
    BY <1>3, <2>2
  <2>3. CASE \/ StartRun(w, t) \/ StartRunThrows(w, t) \/ NoticeLost(w, t) \/ Begin(w, t)
             \/ Guard(w, t) \/ StillPending(w, t) \/ Carried(w, t) \/ NotCarried(w, t)
             \/ Throw(w, t) \/ Return(w, t) \/ Prepare(w, t) \/ Undo(w, t)
             \/ FinishMeta(w, t) \/ CommitThrows(w, t) \/ DeadLetter(w, t)
             \/ CloseRun(w, t) \/ Settle(w, t) \/ CatchThrows(w, t)
    BY <2>3 DEF StartRun, StartRunThrows, NoticeLost, Begin, Guard, StillPending, Carried,
                NotCarried, Throw, Return, Prepare, Undo, FinishMeta, CommitThrows, DeadLetter,
                CloseRun, Settle, CatchThrows, storeVars
  <2>4. QED
    BY <1>4, <2>1, <2>2, <2>3 DEF HandlerNext
<1>5. ASSUME NEW w \in Workers, Restart(w)
      PROVE  task' = [t \in Tasks |-> IF task[t].status = "running" /\ t \in elapsed
                                      THEN Released(task[t], "queued") ELSE task[t]]
  BY <1>5 DEF Restart
<1>6. ASSUME NEW w \in Workers, Tick(w) \/ Stop(w) \/ Exit(w) \/ Crash(w)
      PROVE  task' = task
  BY <1>6 DEF Tick, Stop, Exit, Crash, Down, storeVars
<1>7. ASSUME NEW w \in Workers, NEW t \in Tasks, ClaimLoses(w, t) \/ TaskTimeout(w, t)
      PROVE  task' = task
  BY <1>7 DEF ClaimLoses, TaskTimeout, storeVars
<1>8. ASSUME NEW t \in Tasks, Republish(t)
      PROVE  task' = task
  BY <1>8 DEF Republish, storeVars
<1> HIDE DEF Wr
<1>9. \/ task' = task
      \/ \E t \in Tasks, l \in LeaseIds :
            /\ task[t].status \in {"queued", "running", "waiting_approval"}
            /\ task' = [task EXCEPT ![t].status = "running", ![t].lease = l, ![t].until = 0]
      \/ \E t \in Tasks, row \in TaskRow : Wr(t, row)
      \/ task' = [t \in Tasks |-> IF task[t].status = "running" /\ t \in elapsed
                                  THEN Released(task[t], "queued") ELSE task[t]]
  BY <1>1, <1>2, <1>4, <1>5, <1>6, <1>7, <1>8 DEF WorkerStep, WorkerNext
<1>10. QED
  BY <1>9 DEF Wr

(* What a request on a task may do to the rows. *)
LEMMA ControlWrites ==
    ASSUME TypeOK, ControlStep
    PROVE  \/ task' = task
           \/ \E t \in Tasks : task[t].status = "absent" /\ task' = [task EXCEPT ![t].status = "queued"]
           \/ \E u \in Requests :
                 /\ req[u].pc = "cas" /\ req'[u].pc # "cas" /\ StillAsRead(req[u])
                 /\ req[u].t \in Tasks /\ req[u].op \in Ops
                 /\ task' = [task EXCEPT ![req[u].t] = Written(req[u].op, req[u].row, task[req[u].t])]
<1>1. ASSUME NEW t \in Tasks, CreateTask(t)
      PROVE  task[t].status = "absent" /\ task' = [task EXCEPT ![t].status = "queued"]
  BY <1>1 DEF CreateTask
<1>2. ASSUME NEW u \in Requests, Apply(u)
      PROVE  /\ req[u].pc = "cas" /\ req'[u].pc # "cas" /\ StillAsRead(req[u])
             /\ req[u].t \in Tasks /\ req[u].op \in Ops
             /\ task' = [task EXCEPT ![req[u].t] = Written(req[u].op, req[u].row, task[req[u].t])]
  <2>1. req[u] \in [pc : {"cas", "deny"}, op : Ops, t : Tasks,
                    row : [status : TaskStatus, lease : LeaseIds \cup {NoLease},
                           action : Actions \cup {NoAction}, step : Nat]]
    BY <1>2 DEF Apply, TypeOK, ControlTypeOK, Request, Idle
  <2>2. req'[u].pc # "cas"
    BY <1>2, <2>1 DEF Apply, Idle, TypeOK, ControlTypeOK
  <2>3. QED
    BY <1>2, <2>1, <2>2 DEF Apply, TypeOK, StoreTypeOK
<1>3. ASSUME NEW u \in Requests, Conflict(u) \/ DenyCancelled(u) \/ Dropped(u)
      PROVE  task' = task
  BY <1>3 DEF Conflict, DenyCancelled, Dropped, storeVars
<1>4. ASSUME NEW u \in Requests, NEW op \in Offered, NEW t \in Tasks, ReadTask(u, op, t)
      PROVE  task' = task
  BY <1>4 DEF ReadTask, storeVars
<1>5. QED
  BY <1>1, <1>2, <1>3, <1>4 DEF ControlStep, ControlNext

(* What a step on the proposals may do to the rows. *)
LEMMA ApprovalWrites ==
    ASSUME TypeOK, ApprovalStep
    PROVE  \/ task' = task
           \/ \E t, s : /\ task[t].status = "waiting_approval" /\ s \in {"queued", "failed"}
                        /\ task' = [task EXCEPT ![t].status = s]
  BY DEF ApprovalStep, ApprovalNext, Decide, ClaimAction, CallProvider, PutOutcome, DeciderDies,
         Reconcile, Retask, Edit, Retry, CancelAction, ForceCancel, MaintainExpire,
         MaintainRecover, storeVars

----------------------------------------------------------------------------
(* A step of a worker keeps the lease and the status of a task in agreement. *)
LEMMA WorkerKeepsLease ==
    ASSUME TypeOK, LeaseIffRunning, WorkerStep
    PROVE  LeaseIffRunning'
<1>1. CASE task' = task
  BY <1>1 DEF LeaseIffRunning
<1>2. ASSUME NEW t \in Tasks, NEW l \in LeaseIds,
             task' = [task EXCEPT ![t].status = "running", ![t].lease = l, ![t].until = 0]
      PROVE  LeaseIffRunning'
  <2>1. LeaseFits([task[t] EXCEPT !.status = "running", !.lease = l, !.until = 0])
    BY StoreAssumption DEF LeaseFits, TypeOK, StoreTypeOK, TaskRow
  <2>2. task' = [task EXCEPT ![t] = [task[t] EXCEPT !.status = "running", !.lease = l, !.until = 0]]
    BY <1>2 DEF TypeOK, StoreTypeOK
  <2>3. QED
    BY <2>1, <2>2, FitsUpdate
<1>3. ASSUME NEW t \in Tasks, NEW row \in TaskRow, task[t].status = "running",
             task' = [task EXCEPT ![t] = row],
             \/ row.status = task[t].status /\ row.lease = task[t].lease
             \/ row.status # "running" /\ row.lease = NoLease
      PROVE  LeaseIffRunning'
  <2>1. LeaseFits(row)
    BY <1>3 DEF LeaseFits, LeaseIffRunning
  <2>2. QED
    BY <1>3, <2>1, FitsUpdate
<1>4. CASE task' = [t \in Tasks |-> IF task[t].status = "running" /\ t \in elapsed
                                    THEN Released(task[t], "queued") ELSE task[t]]
  <2>1. \A t \in Tasks : LeaseFits(task[t]) /\ LeaseFits(Released(task[t], "queued"))
    BY ReleasedFits DEF LeaseFits, LeaseIffRunning, TypeOK, StoreTypeOK
  <2>2. QED
    BY <1>4, <2>1 DEF LeaseFits, LeaseIffRunning
<1>5. QED
  BY <1>1, <1>2, <1>3, <1>4, WorkerWrites

(* So does the row a request writes. *)
LEMMA WrittenFits ==
    ASSUME NEW op \in Ops, NEW now \in TaskRow, NEW read, LeaseFits(now),
           op = "answer" => now.status = "waiting_input"
    PROVE  LeaseFits(Written(op, read, now))
<1>1. CASE op = "answer"
  BY <1>1 DEF Written, LeaseFits, TaskRow
<1>2. CASE op = "escalate"
  BY <1>2 DEF Written, Released, LeaseFits, TaskRow
<1>3. CASE op \notin {"answer", "escalate"}
  BY <1>3, ReleasedFits DEF Written, Ops
<1>4. QED
  BY <1>1, <1>2, <1>3

(* A step of a request keeps the lease and the status of a task in agreement. *)
LEMMA ControlKeepsLease ==
    ASSUME LeaseInv, ControlStep
    PROVE  LeaseIffRunning'
<1> USE DEF LeaseInv
<1>1. CASE task' = task
  BY <1>1 DEF LeaseIffRunning
<1>2. ASSUME NEW t \in Tasks, task[t].status = "absent",
             task' = [task EXCEPT ![t].status = "queued"]
      PROVE  LeaseIffRunning'
  BY <1>2 DEF LeaseIffRunning, TypeOK, StoreTypeOK, TaskRow
<1>3. ASSUME NEW u \in Requests, req[u].pc = "cas", StillAsRead(req[u]),
             req[u].t \in Tasks, req[u].op \in Ops,
             task' = [task EXCEPT ![req[u].t] = Written(req[u].op, req[u].row, task[req[u].t])]
      PROVE  LeaseIffRunning'
  <2>1. task[req[u].t] \in TaskRow /\ LeaseFits(task[req[u].t])
    BY <1>3 DEF TypeOK, StoreTypeOK, LeaseIffRunning, LeaseFits
  <2>2. req[u].op = "answer" => task[req[u].t].status = "waiting_input"
    BY <1>3 DEF AdmittedWhenRead, StillAsRead
  <2>3. LeaseFits(Written(req[u].op, req[u].row, task[req[u].t]))
    BY <1>3, <2>1, <2>2, WrittenFits
  <2>4. QED
    BY <1>3, <2>3, FitsUpdate
<1>4. QED
  BY <1>1, <1>2, <1>3, ControlWrites

(* Every step does. *)
LEMMA LeaseStep == LeaseInv /\ [Next]_vars => LeaseInv'
<1> SUFFICES ASSUME LeaseInv, [Next]_vars PROVE LeaseInv'
  OBVIOUS
<1>1. TypeOK' /\ AdmittedWhenRead'
  BY NextType, AdmittedStep DEF LeaseInv
<1>2. LeaseIffRunning'
  <2>1. CASE WorkerStep
    BY <2>1, WorkerKeepsLease DEF LeaseInv
  <2>2. CASE ControlStep
    BY <2>2, ControlKeepsLease
  <2>3. CASE ApprovalStep
    BY <2>3, ApprovalWrites DEF LeaseInv, LeaseIffRunning, TypeOK, StoreTypeOK, TaskRow
  <2>4. CASE TimeStep \/ UNCHANGED vars
    BY <2>4 DEF LeaseInv, LeaseIffRunning, TimeStep, LeaseElapses, ReviewElapses, vars, storeVars
  <2>5. QED
    BY <2>1, <2>2, <2>3, <2>4 DEF Next
<1>3. QED
  BY <1>1, <1>2 DEF LeaseInv

(* The inductive invariant holds in every state. *)
LEMMA LeaseInvariant == Spec => []LeaseInv
<1>1. Init => LeaseInv
  <2>1. Init => LeaseIffRunning /\ AdmittedWhenRead
    BY DEF Init, StoreInit, ControlInit, Idle, LeaseIffRunning, AdmittedWhenRead
  <2>2. QED
    BY <2>1, Typing0 DEF LeaseInv
<1>2. LeaseInv /\ [Next]_vars => LeaseInv'
  BY LeaseStep
<1>3. QED
  BY <1>1, <1>2, PTL DEF Spec

(* A task carries a lease exactly while it is running, whichever process,    *)
(* request or recovery wrote its row last.                                   *)
THEOREM LeasesAreConsistent == Spec => []LeaseIffRunning
  BY LeaseInvariant, PTL DEF LeaseInv

----------------------------------------------------------------------------
(* A task that waits for a person, or is over, is written by a request of a  *)
(* user or not at all: late writes of runs and recoveries lose.              *)
LEMMA ParkedStep ==
    ASSUME TypeOK, [Next]_vars, NEW t \in Tasks, task[t].status \in Parked, task'[t] # task[t]
    PROVE  UserWrites
<1>1. CASE WorkerStep
  BY <1>1, WorkerWrites DEF Parked, TypeOK, StoreTypeOK
<1>2. CASE ControlStep
  <2>1. PICK u \in Requests : req[u].pc = "cas" /\ req'[u].pc # "cas"
    BY <1>2, ControlWrites DEF Parked, TypeOK, StoreTypeOK
  <2>2. QED
    BY <2>1 DEF UserWrites
<1>3. CASE ApprovalStep
  BY <1>3, ApprovalWrites DEF Parked, TypeOK, StoreTypeOK
<1>4. CASE TimeStep \/ UNCHANGED vars
  BY <1>4 DEF TimeStep, LeaseElapses, ReviewElapses, vars, storeVars
<1>5. QED
  BY <1>1, <1>2, <1>3, <1>4 DEF Next

(* The action property, in every behaviour. *)
THEOREM OnlyUsersUnpark == Spec => ParkedStaysParked
<1>1. TypeOK /\ [Next]_vars =>
         [\A t \in Tasks : task[t].status \in Parked /\ task'[t] # task[t] => UserWrites]_vars
  BY ParkedStep
<1>2. QED
  BY <1>1, Typing, PTL DEF Spec, ParkedStaysParked

(* A request leaves a succeeded task alone and a cancelled one cancelled. *)
LEMMA WrittenFinal ==
    ASSUME NEW op \in Ops, NEW now \in TaskRow, NEW read,
           now.status = "cancelled", op = "cancel"
    PROVE  Written(op, read, now).status = "cancelled"
  BY ReleasedFits DEF Written

(* A completed or cancelled task keeps its status in every step. *)
LEMMA FinalStep ==
    ASSUME LeaseInv, [Next]_vars, NEW t \in Tasks, task[t].status \in {"succeeded", "cancelled"}
    PROVE  task'[t].status = task[t].status
<1> USE DEF LeaseInv
<1>1. CASE WorkerStep
  BY <1>1, WorkerWrites DEF TypeOK, StoreTypeOK
<1>2. CASE ControlStep
  <2>1. CASE task'[t] = task[t]
    BY <2>1
  <2>2. CASE task'[t] # task[t]
    <3>1. PICK u \in Requests :
             /\ req[u].pc = "cas" /\ StillAsRead(req[u]) /\ req[u].op \in Ops /\ req[u].t = t
             /\ task' = [task EXCEPT ![t] = Written(req[u].op, req[u].row, task[t])]
      BY <1>2, <2>2, ControlWrites DEF TypeOK, StoreTypeOK
    <3>2. task[t].status = "cancelled" /\ req[u].op = "cancel"
      BY <3>1 DEF AdmittedWhenRead, StillAsRead
    <3>3. Written(req[u].op, req[u].row, task[t]).status = "cancelled"
      BY <3>1, <3>2, WrittenFinal DEF TypeOK, StoreTypeOK
    <3>4. QED
      BY <3>1, <3>2, <3>3 DEF TypeOK, StoreTypeOK
  <2>3. QED
    BY <2>1, <2>2
<1>3. CASE ApprovalStep
  BY <1>3, ApprovalWrites DEF TypeOK, StoreTypeOK
<1>4. CASE TimeStep \/ UNCHANGED vars
  BY <1>4 DEF TimeStep, LeaseElapses, ReviewElapses, vars, storeVars
<1>5. QED
  BY <1>1, <1>2, <1>3, <1>4 DEF Next

(* A completed or cancelled task never changes status again. *)
THEOREM FinalForever == Spec => FinalIsFinal
<1>1. LeaseInv /\ [Next]_vars =>
         [\A t \in Tasks : task[t].status \in {"succeeded", "cancelled"} =>
             task'[t].status = task[t].status]_vars
  BY FinalStep
<1>2. QED
  BY <1>1, LeaseInvariant, PTL DEF Spec, FinalIsFinal

----------------------------------------------------------------------------
(* What the runs of a task remember.                                         *)

(* OneRunSucceeds with the runs whose final checkpoint went through but whose *)
(* record is not yet put.                                                    *)
OneWins ==
    \A t \in Tasks :
       /\ \A l \in LeaseIds : Won(t, l) => task[t].status = "succeeded"
       /\ \A l, m \in LeaseIds : Won(t, l) /\ Won(t, m) => l = m

(* A run whose record is still to be put, at its start or with another       *)
(* result, is not recorded as succeeded.                                     *)
Unrecorded ==
    \A w \in Workers, t \in Tasks :
       /\ run[w][t].lease \in LeaseIds
       /\ \/ run[w][t].pc = "claimed"
          \/ run[w][t].pc = "meta" /\ run[w][t].result # "succeeded"
       => runRec[t][run[w][t].lease] # "succeeded"

(* A lease was drawn once: no two processes run a task under the same one,   *)
(* and the run that holds the row has the row's progress.                    *)
Fenced ==
    \A w \in Workers, t \in Tasks :
       /\ run[w][t].lease \in used \cup {NoLease}
       /\ \A v \in Workers : v # w /\ run[v][t].lease = run[w][t].lease =>
                               run[w][t].lease = NoLease
       /\ Holds(w, t) => run[w][t].step = task[t].step

(* Proposal a, if it is one, exists and was made by task t. *)
MadeBy(a, t) == a # NoAction => a[1] = t /\ action[a].status # "absent"

(* LinkIsReal, also of the copy of the link that each run keeps. *)
Linked ==
    \A t \in Tasks : MadeBy(task[t].action, t) /\ \A w \in Workers : MadeBy(run[w][t].action, t)

RunsInv == LeaseInv /\ OneWins /\ Unrecorded /\ Fenced /\ Linked

----------------------------------------------------------------------------
(* A step that leaves what a run remembers alone: the lease it drew, its     *)
(* progress and its link; and it does not reach the puts of the run record.  *)
Kin(r, s) ==
    /\ s.lease = r.lease /\ s.step = r.step /\ s.action = r.action
    /\ s.pc = "claimed" => r.pc = "claimed"
    /\ s.pc = "meta" => r.pc = "meta" /\ s.result = r.result

(* What a step may do to the run of task t in process w: end it, or one of   *)
(* the five steps that write what it remembers.                              *)
Writes(w, t) ==
    \/ Claim(w, t) \/ Prepare(w, t)
    \/ (Unlink(w, t) \/ Checkpoint(w, t) \/ Commit(w, t)) /\ CheckpointPasses(w, t)
Moves(w, t) == Kin(run[w][t], run'[w][t]) \/ run'[w][t] = OffRun \/ Writes(w, t)

(* One run's record is replaced and the others stay. *)
LEMMA OneRunMoves ==
    ASSUME TypeOK, NEW v \in Workers, NEW u \in Tasks, NEW r,
           run' = [run EXCEPT ![v][u] = r], Kin(run[v][u], r) \/ r = OffRun,
           NEW w \in Workers, NEW t \in Tasks
    PROVE  Moves(w, t)
<1>1. run \in [Workers -> [Tasks -> Run]]
  BY DEF TypeOK, WorkerTypeOK
<1>2. CASE w = v /\ t = u
  <2>1. run'[w][t] = r
    BY <1>1, <1>2
  <2>2. QED
    BY <1>2, <2>1 DEF Moves
<1>3. CASE ~(w = v /\ t = u)
  <2>1. run'[w][t] = run[w][t]
    BY <1>1, <1>3
  <2>2. QED
    BY <2>1 DEF Moves, Kin
<1>4. QED
  BY <1>2, <1>3

(* The run goes to another point of run() ... *)
LEMMA GotoMoves ==
    ASSUME TypeOK, NEW v \in Workers, NEW u \in Tasks, NEW pc, pc # "meta", pc # "claimed",
           run' = [run EXCEPT ![v][u].pc = pc],
           NEW w \in Workers, NEW t \in Tasks
    PROVE  Moves(w, t)
<1> DEFINE r == run[v][u]
<1>1. r \in Run
  BY DEF TypeOK, WorkerTypeOK
<1>2. run' = [run EXCEPT ![v][u] = [r EXCEPT !.pc = pc]]
  BY DEF TypeOK, WorkerTypeOK
<1>3. Kin(r, [r EXCEPT !.pc = pc])
  BY <1>1 DEF Kin, Run, RunRow
<1>4. QED
  BY <1>2, <1>3, OneRunMoves

(* ... with a result to write ... *)
LEMMA ResultMoves ==
    ASSUME TypeOK, NEW v \in Workers, NEW u \in Tasks, NEW res,
           run' = [run EXCEPT ![v][u].pc = "commit", ![v][u].result = res],
           NEW w \in Workers, NEW t \in Tasks
    PROVE  Moves(w, t)
<1> DEFINE r == run[v][u]
<1>1. r \in Run
  BY DEF TypeOK, WorkerTypeOK
<1>2. run' = [run EXCEPT ![v][u] = [r EXCEPT !.pc = "commit", !.result = res]]
  BY DEF TypeOK, WorkerTypeOK
<1>3. Kin(r, [r EXCEPT !.pc = "commit", !.result = res])
  BY <1>1 DEF Kin, Run, RunRow
<1>4. QED
  BY <1>2, <1>3, OneRunMoves

(* ... or after its link went through ... *)
LEMMA WaitMoves ==
    ASSUME TypeOK, NEW v \in Workers, NEW u \in Tasks,
           run' = [run EXCEPT ![v][u].pc = "commit", ![v][u].fresh = FALSE,
                                 ![v][u].result = "waiting_approval"],
           NEW w \in Workers, NEW t \in Tasks
    PROVE  Moves(w, t)
<1> DEFINE r == run[v][u]
<1>1. r \in Run
  BY DEF TypeOK, WorkerTypeOK
<1>2. run' = [run EXCEPT ![v][u] = [r EXCEPT !.pc = "commit", !.fresh = FALSE, !.result = "waiting_approval"]]
  BY DEF TypeOK, WorkerTypeOK
<1>3. Kin(r, [r EXCEPT !.pc = "commit", !.fresh = FALSE, !.result = "waiting_approval"])
  BY <1>1 DEF Kin, Run, RunRow
<1>4. QED
  BY <1>2, <1>3, OneRunMoves

(* ... or after the first guard. *)
LEMMA BeginMoves ==
    ASSUME TypeOK, NEW v \in Workers, NEW u \in Tasks, NEW pc, pc # "meta", pc # "claimed",
           run' = [run EXCEPT ![v][u].fresh = TRUE, ![v][u].pc = pc],
           NEW w \in Workers, NEW t \in Tasks
    PROVE  Moves(w, t)
<1> DEFINE r == run[v][u]
<1>1. r \in Run
  BY DEF TypeOK, WorkerTypeOK
<1>2. run' = [run EXCEPT ![v][u] = [r EXCEPT !.fresh = TRUE, !.pc = pc]]
  BY DEF TypeOK, WorkerTypeOK
<1>3. Kin(r, [r EXCEPT !.fresh = TRUE, !.pc = pc])
  BY <1>1 DEF Kin, Run, RunRow
<1>4. QED
  BY <1>2, <1>3, OneRunMoves

(* The guard's cache and the abort signal are no part of what is remembered. *)
LEMMA SignalMoves ==
    ASSUME TypeOK, NEW v \in Workers, NEW u \in Tasks,
           \/ \E b : run' = [run EXCEPT ![v][u].fresh = b]
           \/ run' = [run EXCEPT ![v][u].aborted = TRUE]
           \/ run' = [run EXCEPT ![v][u].fresh = FALSE, ![v][u].aborted = TRUE],
           NEW w \in Workers, NEW t \in Tasks
    PROVE  Moves(w, t)
<1> DEFINE r == run[v][u]
<1>1. r \in Run
  BY DEF TypeOK, WorkerTypeOK
<1>2. ASSUME NEW b, run' = [run EXCEPT ![v][u].fresh = b] PROVE Moves(w, t)
  <2>1. run' = [run EXCEPT ![v][u] = [r EXCEPT !.fresh = b]]
    BY <1>2 DEF TypeOK, WorkerTypeOK
  <2>2. Kin(r, [r EXCEPT !.fresh = b])
    BY <1>1 DEF Kin, Run, RunRow
  <2>3. QED
    BY <2>1, <2>2, OneRunMoves
<1>3. CASE run' = [run EXCEPT ![v][u].aborted = TRUE]
  <2>1. run' = [run EXCEPT ![v][u] = [r EXCEPT !.aborted = TRUE]]
    BY <1>3 DEF TypeOK, WorkerTypeOK
  <2>2. Kin(r, [r EXCEPT !.aborted = TRUE])
    BY <1>1 DEF Kin, Run, RunRow
  <2>3. QED
    BY <2>1, <2>2, OneRunMoves
<1>4. CASE run' = [run EXCEPT ![v][u].fresh = FALSE, ![v][u].aborted = TRUE]
  <2>1. run' = [run EXCEPT ![v][u] = [r EXCEPT !.fresh = FALSE, !.aborted = TRUE]]
    BY <1>4 DEF TypeOK, WorkerTypeOK
  <2>2. Kin(r, [r EXCEPT !.fresh = FALSE, !.aborted = TRUE])
    BY <1>1 DEF Kin, Run, RunRow
  <2>3. QED
    BY <2>1, <2>2, OneRunMoves
<1>5. QED
  BY <1>2, <1>3, <1>4

(* The steps of a handler. *)
LEMMA HandlerMoves ==
    ASSUME TypeOK, NEW v \in Workers, NEW u \in Tasks, HandlerNext(v, u),
           NEW w \in Workers, NEW t \in Tasks
    PROVE  Moves(w, t)
<1>0. run \in [Workers -> [Tasks -> Run]]
  BY DEF TypeOK, WorkerTypeOK
<1>1. CASE \/ StartRun(v, u) \/ StartRunThrows(v, u) \/ NoticeLost(v, u) \/ NotCarried(v, u)
           \/ Throw(v, u) \/ Undo(v, u) \/ FinishMeta(v, u) \/ CommitThrows(v, u)
           \/ Requeue(v, u) \/ Fail(v, u) \/ DeadLetter(v, u) \/ CloseRun(v, u)
  <2>1. \E pc \in PC \ {"meta", "claimed"} : run' = [run EXCEPT ![v][u].pc = pc]
    BY <1>1 DEF StartRun, StartRunThrows, NoticeLost, NotCarried, Throw, Undo, FinishMeta,
                CommitThrows, Requeue, Fail, DeadLetter, CloseRun, Goto, PC
  <2>2. QED
    BY <2>1, GotoMoves
<1>2. CASE StillPending(v, u) \/ Carried(v, u) \/ Return(v, u)
  <2>1. \/ Goto(v, u, "unlink")
        \/ \E res : run' = [run EXCEPT ![v][u].pc = "commit", ![v][u].result = res]
    BY <1>2 DEF StillPending, Carried, Return
  <2>2. CASE Goto(v, u, "unlink")
    BY <2>2, GotoMoves DEF Goto
  <2>3. QED
    BY <2>1, <2>2, ResultMoves
<1>3. CASE Begin(v, u)
  <2>1. PICK pc : /\ pc = IF run[v][u].action = NoAction THEN "work" ELSE "linked"
                  /\ pc # "meta" /\ pc # "claimed"
    OBVIOUS
  <2>2. run' = [run EXCEPT ![v][u].fresh = TRUE, ![v][u].pc = pc]
    BY <1>3, <2>1 DEF Begin
  <2>3. QED
    BY <2>1, <2>2, BeginMoves
<1>4. CASE Guard(v, u)
  BY <1>4, SignalMoves DEF Guard
<1>5. CASE Settle(v, u) \/ CatchThrows(v, u)
  BY <1>5, OneRunMoves DEF Settle, CatchThrows
<1>6. CASE Link(v, u)
  <2>1. \/ Goto(v, u, "undo") \/ Goto(v, u, "lost")
        \/ run' = [run EXCEPT ![v][u].pc = "commit", ![v][u].fresh = FALSE,
                              ![v][u].result = "waiting_approval"]
    BY <1>6 DEF Link
  <2>2. CASE Goto(v, u, "undo") \/ Goto(v, u, "lost")
    BY <2>2, GotoMoves DEF Goto
  <2>3. QED
    BY <2>1, <2>2, WaitMoves
<1>7. CASE Unlink(v, u) \/ Checkpoint(v, u) \/ Commit(v, u)
  <2>1. CASE CheckpointPasses(v, u)
    <3>1. CASE w = v /\ t = u
      BY <1>7, <2>1, <3>1 DEF Moves, Writes
    <3>2. CASE ~(w = v /\ t = u)
      <4>1. \/ run' = [run EXCEPT ![v][u] = [run[v][u] EXCEPT !.pc = "work", !.fresh = FALSE,
                                                              !.action = NoAction]]
            \/ run' = [run EXCEPT ![v][u] = [run[v][u] EXCEPT !.step = @ + 1, !.fresh = FALSE]]
            \/ run' = [run EXCEPT ![v][u] = [run[v][u] EXCEPT !.pc = "meta"]]
        <5>1. CASE Unlink(v, u)
          <6>1. run' = [run EXCEPT ![v][u].pc = "work", ![v][u].fresh = FALSE,
                                   ![v][u].action = NoAction]
            BY <5>1, <2>1 DEF Unlink
          <6>2. run' = [run EXCEPT ![v][u] = [run[v][u] EXCEPT !.pc = "work", !.fresh = FALSE,
                                                               !.action = NoAction]]
            BY <1>0, <6>1
          <6>3. QED
            BY <6>2
        <5>2. CASE Checkpoint(v, u)
          <6>1. run' = [run EXCEPT ![v][u].step = run[v][u].step + 1, ![v][u].fresh = FALSE]
            BY <5>2, <2>1 DEF Checkpoint
          <6>2. run' = [run EXCEPT ![v][u] = [run[v][u] EXCEPT !.step = @ + 1, !.fresh = FALSE]]
            BY <1>0, <6>1
          <6>3. QED
            BY <6>2
        <5>3. CASE Commit(v, u)
          <6>1. run' = [run EXCEPT ![v][u].pc = "meta"]
            BY <5>3, <2>1 DEF Commit, Goto
          <6>2. run' = [run EXCEPT ![v][u] = [run[v][u] EXCEPT !.pc = "meta"]]
            BY <1>0, <6>1
          <6>3. QED
            BY <6>2
        <5>4. QED
          BY <1>7, <5>1, <5>2, <5>3
      <4>2. run'[w][t] = run[w][t]
        BY <1>0, <3>2, <4>1
      <4>3. QED
        BY <4>2 DEF Moves, Kin
    <3>3. QED
      BY <3>1, <3>2
  <2>2. CASE ~CheckpointPasses(v, u)
    BY <1>7, <2>2, GotoMoves DEF Unlink, Checkpoint, Commit, Goto
  <2>3. QED
    BY <2>1, <2>2
<1>8. CASE Prepare(v, u)
  <2>1. CASE w = v /\ t = u
    BY <1>8, <2>1 DEF Moves, Writes
  <2>2. CASE ~(w = v /\ t = u)
    <3>1. PICK a, h : run' = [run EXCEPT ![v][u].pc = "proposed", ![v][u].action = a,
                                         ![v][u].hash = h]
      BY <1>8 DEF Prepare
    <3>2. run' = [run EXCEPT ![v][u] = [run[v][u] EXCEPT !.pc = "proposed", !.action = a,
                                                         !.hash = h]]
      BY <1>0, <3>1
    <3>4. run'[w][t] = run[w][t]
      BY <1>0, <2>2, <3>2
    <3>3. QED
      BY <3>4 DEF Moves, Kin
  <2>3. QED
    BY <2>1, <2>2
<1>9. QED
  BY <1>1, <1>2, <1>3, <1>4, <1>5, <1>6, <1>7, <1>8 DEF HandlerNext

(* The runs of a process that are aborted together remember what they did. *)
LEMMA AbortMoves ==
    ASSUME TypeOK, NEW v \in Workers, NEW ts, run' = Aborting(v, ts),
           NEW w \in Workers, NEW t \in Tasks
    PROVE  Moves(w, t)
<1> DEFINE r == run[w][t]
<1>1. r \in Run
  BY DEF TypeOK, WorkerTypeOK
<1>2. run'[w][t] = r \/ run'[w][t] = [r EXCEPT !.aborted = TRUE]
  BY DEF Aborting, TypeOK, WorkerTypeOK
<1>3. Kin(r, r) /\ Kin(r, [r EXCEPT !.aborted = TRUE])
  BY <1>1 DEF Kin, Run, RunRow
<1>4. QED
  BY <1>2, <1>3 DEF Moves

(* Every step. *)
LEMMA RunMoves ==
    ASSUME TypeOK, [Next]_vars, NEW w \in Workers, NEW t \in Tasks
    PROVE  Moves(w, t)
<1>0. run \in [Workers -> [Tasks -> Run]]
  BY DEF TypeOK, WorkerTypeOK
<1>1. CASE run' = run
  BY <1>1 DEF Moves, Kin
<1>2. ASSUME NEW v \in Workers, NEW u \in Tasks, HandlerNext(v, u) PROVE Moves(w, t)
  BY <1>2, HandlerMoves
<1>3. ASSUME NEW v \in Workers, NEW u \in Tasks, Claim(v, u) PROVE Moves(w, t)
  <2>1. CASE w = v /\ t = u
    BY <1>3, <2>1 DEF Moves, Writes
  <2>2. CASE ~(w = v /\ t = u)
    <3>1. PICK r : run' = [run EXCEPT ![v][u] = r]
      BY <1>3 DEF Claim
    <3>2. run'[w][t] = run[w][t]
      BY <1>0, <2>2, <3>1
    <3>3. QED
      BY <3>2 DEF Moves, Kin
  <2>3. QED
    BY <2>1, <2>2
<1>4. ASSUME NEW v \in Workers, NEW u \in Tasks, Heartbeat(v, u) \/ TaskTimeout(v, u)
      PROVE  Moves(w, t)
  <2>1. \/ run' = [run EXCEPT ![v][u].fresh = FALSE]
        \/ run' = [run EXCEPT ![v][u].aborted = TRUE]
        \/ run' = [run EXCEPT ![v][u].fresh = FALSE, ![v][u].aborted = TRUE]
    BY <1>4 DEF Heartbeat, TaskTimeout
  <2>2. QED
    BY <2>1, SignalMoves
<1>5. ASSUME NEW v \in Workers, Stop(v) PROVE Moves(w, t)
  BY <1>5, AbortMoves DEF Stop
<1>6. ASSUME NEW v \in Workers, Exit(v) \/ Crash(v) PROVE Moves(w, t)
  <2>1. run' = [run EXCEPT ![v] = [x \in Tasks |-> OffRun]]
    BY <1>6 DEF Exit, Crash, Down
  <2>2. run'[w][t] = OffRun \/ run'[w][t] = run[w][t]
    BY <1>0, <2>1
  <2>3. QED
    BY <2>2 DEF Moves, Kin
<1>7. ASSUME NEW v \in Workers, Tick(v) \/ Restart(v) PROVE run' = run
  BY <1>7 DEF Tick, Restart
<1>8. ASSUME NEW v \in Workers, NEW u \in Tasks, ClaimLoses(v, u) PROVE run' = run
  BY <1>8 DEF ClaimLoses
<1>9. ASSUME NEW u \in Tasks, Republish(u) PROVE run' = run
  BY <1>9 DEF Republish
<1>10. CASE WorkerStep
  BY <1>1, <1>2, <1>3, <1>4, <1>5, <1>6, <1>7, <1>8, <1>9, <1>10 DEF WorkerStep, WorkerNext
<1>11. CASE ControlStep
  <2>1. ASSUME NEW u \in Requests, Apply(u) PROVE Moves(w, t)
    BY <1>1, <2>1, AbortMoves DEF Apply
  <2>2. ASSUME NEW u \in Requests, Conflict(u) \/ DenyCancelled(u) \/ Dropped(u) PROVE run' = run
    BY <2>2 DEF Conflict, DenyCancelled, Dropped, workerVars
  <2>3. ASSUME NEW u \in Requests, NEW op \in Offered, NEW x \in Tasks, ReadTask(u, op, x)
        PROVE  run' = run
    BY <2>3 DEF ReadTask, workerVars
  <2>4. ASSUME NEW x \in Tasks, CreateTask(x) PROVE run' = run
    BY <2>4 DEF CreateTask, workerVars
  <2>5. QED
    BY <1>1, <1>11, <2>1, <2>2, <2>3, <2>4 DEF ControlStep, ControlNext
<1>12. CASE ApprovalStep \/ TimeStep \/ UNCHANGED vars
  <2>1. run' = run
    BY <1>12 DEF ApprovalStep, TimeStep, vars, workerVars
  <2>2. QED
    BY <1>1, <2>1
<1>13. QED
  BY <1>10, <1>11, <1>12 DEF Next

----------------------------------------------------------------------------
(* The steps that write what a run remembers, one by one.                    *)

(* A claim draws a lease that nobody had, and copies the row. *)
LEMMA ClaimFacts ==
    ASSUME TypeOK, NEW w \in Workers, NEW t \in Tasks, Claim(w, t)
    PROVE  \E l \in LeaseIds \ used :
              /\ task'[t].lease = l /\ task'[t].step = task[t].step
              /\ task'[t].action = task[t].action /\ task[t].status # "succeeded"
              /\ used' = used \cup {l}
              /\ run'[w][t].lease = l /\ run'[w][t].step = task[t].step
              /\ run'[w][t].action = task[t].action /\ run'[w][t].pc = "claimed"
              /\ \A v \in Workers : v # w => run'[v][t] = run[v][t]
<1>1. PICK l \in LeaseIds \ used :
         /\ task' = [task EXCEPT ![t].status = "running", ![t].lease = l, ![t].until = 0]
         /\ used' = used \cup {l}
         /\ run' = [run EXCEPT ![w][t] =
                      [OffRun EXCEPT !.pc = "claimed", !.lease = l,
                                     !.action = task[t].action, !.step = task[t].step]]
  BY DEF Claim
<1>2. /\ task'[t].lease = l /\ task'[t].step = task[t].step
      /\ task'[t].action = task[t].action
  BY <1>1 DEF TypeOK, StoreTypeOK, TaskRow
<1>3. PICK a, k : a = task[t].action /\ k = task[t].step
  OBVIOUS
<1>4. PICK r : r = [OffRun EXCEPT !.pc = "claimed", !.lease = l, !.action = a, !.step = k]
  OBVIOUS
<1>5. r.lease = l /\ r.step = k /\ r.action = a /\ r.pc = "claimed"
  BY <1>4 DEF OffRun
<1>6. run' = [run EXCEPT ![w][t] = r] /\ run \in [Workers -> [Tasks -> Run]]
  BY <1>1, <1>3, <1>4 DEF TypeOK, WorkerTypeOK
<1>7. run'[w][t] = r /\ \A v \in Workers : v # w => run'[v][t] = run[v][t]
  BY <1>6
<1>8. task[t].status # "succeeded"
  <2>1. seen[w][t] \in SeenRow
    BY DEF TypeOK, WorkerTypeOK
  <2>2. QED
    BY <2>1 DEF Claim, Unchanged, SeenRow
<1>9. QED
  BY <1>1, <1>2, <1>3, <1>5, <1>7, <1>8

(* A proposal in hand is one of the task's own and is in the store. *)
LEMMA PrepareFacts ==
    ASSUME TypeOK, NEW w \in Workers, NEW t \in Tasks, Prepare(w, t)
    PROVE  /\ \E k \in Keys : /\ run'[w][t].action = <<t, k>>
                               /\ action'[<<t, k>>].status # "absent"
           /\ run'[w][t].lease = run[w][t].lease /\ run'[w][t].step = run[w][t].step
           /\ run'[w][t].pc = "proposed"
<1> DEFINE Row(k) == IF action[<<t, k>>].status = "absent"
                    THEN [status |-> "awaiting_review", content |-> FirstContent]
                    ELSE action[<<t, k>>]
           Hash(k) == IF Row(k).status = "awaiting_review" THEN Row(k).content ELSE NoContent
<1>1. PICK k \in Keys :
         /\ action' = [action EXCEPT ![<<t, k>>] = Row(k)]
         /\ run' = [run EXCEPT ![w][t].pc = "proposed", ![w][t].action = <<t, k>>,
                               ![w][t].hash = Hash(k)]
  BY DEF Prepare
<1>2. <<t, k>> \in Actions
  BY DEF Actions
<1>3. action'[<<t, k>>].status # "absent"
  <2>1. action'[<<t, k>>] = Row(k)
    BY <1>1, <1>2 DEF TypeOK, StoreTypeOK
  <2>2. Row(k).status # "absent"
    OBVIOUS
  <2>3. QED
    BY <2>1, <2>2
<1>11. PICK h : h = Hash(k)
  OBVIOUS
<1>4. PICK a : a = <<t, k>>
  OBVIOUS
<1>5. run' = [run EXCEPT ![w][t].pc = "proposed", ![w][t].action = a, ![w][t].hash = h]
  BY <1>1, <1>4, <1>11
<1>6. run' = [run EXCEPT ![w][t] = [run[w][t] EXCEPT !.pc = "proposed", !.action = a, !.hash = h]]
  BY <1>5 DEF TypeOK, WorkerTypeOK
<1>7. run'[w][t] = [run[w][t] EXCEPT !.pc = "proposed", !.action = a, !.hash = h]
  BY <1>6 DEF TypeOK, WorkerTypeOK
<1>8. run[w][t] \in Run
  BY DEF TypeOK, WorkerTypeOK
<1>9. /\ run'[w][t].action = a /\ run'[w][t].pc = "proposed"
      /\ run'[w][t].lease = run[w][t].lease /\ run'[w][t].step = run[w][t].step
  BY <1>7, <1>8 DEF Run, RunRow
<1>10. QED
  BY <1>3, <1>4, <1>9

(* The consumed link is dropped in the row and in the run. *)
LEMMA UnlinkFacts ==
    ASSUME TypeOK, NEW w \in Workers, NEW t \in Tasks, Unlink(w, t), CheckpointPasses(w, t)
    PROVE  /\ run'[w][t].action = NoAction /\ run'[w][t].pc = "work"
           /\ run'[w][t].lease = run[w][t].lease /\ run'[w][t].step = run[w][t].step
<1>1. run' = [run EXCEPT ![w][t].pc = "work", ![w][t].fresh = FALSE, ![w][t].action = NoAction]
  BY DEF Unlink
<1>2. run' = [run EXCEPT ![w][t] = [run[w][t] EXCEPT !.pc = "work", !.fresh = FALSE,
                                                     !.action = NoAction]]
  BY <1>1 DEF TypeOK, WorkerTypeOK
<1>3. run'[w][t] = [run[w][t] EXCEPT !.pc = "work", !.fresh = FALSE, !.action = NoAction]
  BY <1>2 DEF TypeOK, WorkerTypeOK
<1>4. run[w][t] \in Run
  BY DEF TypeOK, WorkerTypeOK
<1>5. QED
  BY <1>3, <1>4 DEF Run, RunRow

(* Row and run go on by one together. *)
LEMMA CheckpointFacts ==
    ASSUME TypeOK, NEW w \in Workers, NEW t \in Tasks, Checkpoint(w, t), CheckpointPasses(w, t)
    PROVE  /\ task'[t].step = run[w][t].step + 1 /\ run'[w][t].step = run[w][t].step + 1
           /\ task'[t].lease = task[t].lease /\ task'[t].action = task[t].action
           /\ run'[w][t].lease = run[w][t].lease /\ run'[w][t].action = run[w][t].action
           /\ run'[w][t].pc = "work"
           /\ \A v \in Workers : v # w => run'[v][t] = run[v][t]
<1>1. /\ run' = [run EXCEPT ![w][t].step = @ + 1, ![w][t].fresh = FALSE]
      /\ task' = [task EXCEPT ![t].step = run[w][t].step + 1]
      /\ run[w][t].pc = "work"
  BY DEF Checkpoint, At
<1>2. PICK k : k = run[w][t].step + 1
  OBVIOUS
<1>3. run \in [Workers -> [Tasks -> Run]]
  BY DEF TypeOK, WorkerTypeOK
<1>4. run' = [run EXCEPT ![w][t] = [run[w][t] EXCEPT !.step = k, !.fresh = FALSE]]
  BY <1>1, <1>2, <1>3
<1>5. /\ run'[w][t] = [run[w][t] EXCEPT !.step = k, !.fresh = FALSE]
      /\ \A v \in Workers : v # w => run'[v][t] = run[v][t]
  BY <1>3, <1>4
<1>10. run[w][t] \in Run /\ run[w][t].pc = "work"
  BY <1>1, <1>3
<1>6. /\ run'[w][t].step = k /\ run'[w][t].lease = run[w][t].lease
      /\ run'[w][t].action = run[w][t].action /\ run'[w][t].pc = "work"
  BY <1>5, <1>10 DEF Run, RunRow
<1>7. task' = [task EXCEPT ![t].step = k] /\ task \in [Tasks -> TaskRow]
  BY <1>1, <1>2 DEF TypeOK, StoreTypeOK
<1>8. /\ task'[t].step = k /\ task'[t].lease = task[t].lease
      /\ task'[t].action = task[t].action
  BY <1>7 DEF TaskRow
<1>9. QED
  BY <1>2, <1>5, <1>6, <1>8

(* The final checkpoint writes the result and leaves the run as it was. *)
LEMMA CommitFacts ==
    ASSUME TypeOK, NEW w \in Workers, NEW t \in Tasks, Commit(w, t), CheckpointPasses(w, t)
    PROVE  /\ task[t].status = "running" /\ task[t].lease = run[w][t].lease
           /\ task'[t].status = run[w][t].result
           /\ run'[w][t].lease = run[w][t].lease /\ run'[w][t].step = run[w][t].step
           /\ run'[w][t].action = run[w][t].action /\ run'[w][t].result = run[w][t].result
<1>1. run' = [run EXCEPT ![w][t].pc = "meta"]
  BY DEF Commit, Goto
<1>2. run' = [run EXCEPT ![w][t] = [run[w][t] EXCEPT !.pc = "meta"]]
  BY <1>1 DEF TypeOK, WorkerTypeOK
<1>3. run'[w][t] = [run[w][t] EXCEPT !.pc = "meta"]
  BY <1>2 DEF TypeOK, WorkerTypeOK
<1>4. run[w][t] \in Run
  BY DEF TypeOK, WorkerTypeOK
<1>5. /\ run'[w][t].lease = run[w][t].lease /\ run'[w][t].step = run[w][t].step
      /\ run'[w][t].action = run[w][t].action /\ run'[w][t].result = run[w][t].result
  BY <1>3, <1>4 DEF Run, RunRow
<1>6. PICK s : s = run[w][t].result
  OBVIOUS
<1>7. PICK a : task' = [task EXCEPT ![t] = [Released(task[t], s) EXCEPT !.action = a]]
  BY <1>6 DEF Commit, TypeOK, StoreTypeOK
<1>8. task \in [Tasks -> TaskRow]
  BY DEF TypeOK, StoreTypeOK
<1>9. task'[t] = [Released(task[t], s) EXCEPT !.action = a]
  BY <1>7, <1>8
<1>10. task'[t].status = s
  BY <1>8, <1>9 DEF Released, TaskRow
<1>11. QED
  BY <1>5, <1>6, <1>10 DEF CheckpointPasses, Holds

----------------------------------------------------------------------------
(* A proposal that was made stays made: no statement removes an action row.  *)

(* A write of one proposal's status. *)
LEMMA SetStays ==
    ASSUME TypeOK, NEW x, NEW s, s # "absent", SetAction(x, s),
           NEW a \in Actions, action[a].status # "absent"
    PROVE  action'[a].status # "absent"
  BY DEF SetAction, TypeOK, StoreTypeOK, ActionRow

(* A denial that may find the proposal changed. *)
LEMMA DenyStays ==
    ASSUME TypeOK, NEW x, NEW h, Deny(x, h), NEW a \in Actions, action[a].status # "absent"
    PROVE  action'[a].status # "absent"
<1>1. UNCHANGED action \/ SetAction(x, "expired") \/ SetAction(x, "denied")
  BY DEF Deny
<1>2. QED
  BY <1>1, SetStays

(* The recovery of interrupted actions. *)
LEMMA RecoveredStays ==
    ASSUME TypeOK, action' = Recovered(action), NEW a \in Actions, action[a].status # "absent"
    PROVE  action'[a].status # "absent"
<1>1. action[a] \in ActionRow
  BY DEF TypeOK, StoreTypeOK
<1>2. action'[a] = action[a] \/ action'[a] = [action[a] EXCEPT !.status = "outcome_unknown"]
  BY DEF Recovered
<1>3. QED
  BY <1>1, <1>2 DEF ActionRow

(* Every step. *)
LEMMA ActionsStay ==
    ASSUME TypeOK, [Next]_vars, NEW a \in Actions, action[a].status # "absent"
    PROVE  action'[a].status # "absent"
<1>0. action \in [Actions -> ActionRow]
  BY DEF TypeOK, StoreTypeOK
<1>1. CASE action' = action
  BY <1>1
<1>2. ASSUME NEW w \in Workers, NEW t \in Tasks, HandlerNext(w, t)
      PROVE  action'[a].status # "absent"
  <2>1. CASE Prepare(w, t)
    <3>1. PICK k \in Keys :
             action' = [action EXCEPT ![<<t, k>>] =
                          IF action[<<t, k>>].status = "absent"
                          THEN [status |-> "awaiting_review", content |-> FirstContent]
                          ELSE action[<<t, k>>]]
      BY <2>1 DEF Prepare
    <3>2. CASE action[<<t, k>>].status = "absent"
      BY <1>0, <3>1, <3>2
    <3>3. CASE action[<<t, k>>].status # "absent"
      BY <1>0, <3>1, <3>3
    <3>4. QED
      BY <3>2, <3>3
  <2>2. CASE Undo(w, t)
    BY <2>2, DenyStays DEF Undo
  <2>3. CASE ~Prepare(w, t) /\ ~Undo(w, t)
    <3>1. action' = action
      BY <1>2, <2>3 DEF HandlerNext, StartRun, StartRunThrows, NoticeLost, Begin, Guard,
            StillPending, Carried, NotCarried, Unlink, Checkpoint, Throw, Return, Link, Commit,
            FinishMeta, CommitThrows, Requeue, Fail, DeadLetter, CloseRun, Settle, CatchThrows,
            storeVars
    <3>2. QED
      BY <3>1
  <2>4. QED
    BY <2>1, <2>2, <2>3
<1>3. ASSUME NEW w \in Workers, Tick(w) PROVE action'[a].status # "absent"
  <2>1. action'[a] = action[a] \/ action'[a] = [action[a] EXCEPT !.status = "expired"]
    BY <1>3 DEF Tick
  <2>2. QED
    BY <1>0, <2>1 DEF ActionRow
<1>4. ASSUME NEW w \in Workers, Restart(w) PROVE action'[a].status # "absent"
  BY <1>4, RecoveredStays DEF Restart
<1>5. ASSUME NEW w \in Workers, Stop(w) \/ Exit(w) \/ Crash(w) PROVE action' = action
  BY <1>5 DEF Stop, Exit, Crash, Down, storeVars
<1>6. ASSUME NEW w \in Workers, NEW t \in Tasks,
             Claim(w, t) \/ ClaimLoses(w, t) \/ Heartbeat(w, t) \/ TaskTimeout(w, t)
      PROVE  action' = action
  BY <1>6 DEF Claim, ClaimLoses, Heartbeat, TaskTimeout, storeVars
<1>7. ASSUME NEW t \in Tasks, Republish(t) PROVE action' = action
  BY <1>7 DEF Republish, storeVars
<1>8. CASE WorkerStep
  BY <1>1, <1>2, <1>3, <1>4, <1>5, <1>6, <1>7, <1>8 DEF WorkerStep, WorkerNext
<1>9. CASE ControlStep
  <2>1. ASSUME NEW u \in Requests, DenyCancelled(u) PROVE action'[a].status # "absent"
    BY <2>1, DenyStays DEF DenyCancelled
  <2>2. ASSUME NEW u \in Requests, Apply(u) \/ Conflict(u) \/ Dropped(u) PROVE action' = action
    BY <2>2 DEF Apply, Conflict, Dropped, storeVars
  <2>3. ASSUME NEW u \in Requests, NEW op \in Offered, NEW t \in Tasks, ReadTask(u, op, t)
        PROVE  action' = action
    BY <2>3 DEF ReadTask, storeVars
  <2>4. ASSUME NEW t \in Tasks, CreateTask(t) PROVE action' = action
    BY <2>4 DEF CreateTask
  <2>5. QED
    BY <1>1, <1>9, <2>1, <2>2, <2>3, <2>4 DEF ControlStep, ControlNext
<1>10. CASE ApprovalStep
  <2>1. ASSUME NEW d \in Deciders, NEW b \in Actions, NEW choice, Decide(d, b, choice)
        PROVE  action'[a].status # "absent"
    BY <1>1, <2>1, SetStays DEF Decide
  <2>2. ASSUME NEW d \in Deciders, ClaimAction(d) PROVE action'[a].status # "absent"
    <3>1. action' = action \/ \E x : SetAction(x, "denied") \/ SetAction(x, "executing")
      BY <2>2 DEF ClaimAction
    <3>2. QED
      BY <3>1, SetStays
  <2>3. ASSUME NEW d \in Deciders, CallProvider(d) \/ DeciderDies(d) \/ Retask(d)
        PROVE  action' = action
    BY <2>3 DEF CallProvider, DeciderDies, Retask, storeVars
  <2>4. ASSUME NEW d \in Deciders, PutOutcome(d) PROVE action'[a].status # "absent"
    <3>1. dec[d] \in Decision /\ dec[d].pc = "put"
      BY <2>4 DEF PutOutcome, TypeOK, ApprovalTypeOK
    <3>2. dec[d].outcome # "absent"
      BY <3>1 DEF Decision, NoDecision, Outcome
    <3>3. QED
      BY <1>0, <2>4, <3>2 DEF PutOutcome
  <2>5. ASSUME NEW d \in Deciders, NEW b \in Actions, Reconcile(d, b)
        PROVE  action'[a].status # "absent"
    <3>1. \E o \in {"succeeded", "failed"} : SetAction(b, o)
      BY <2>5 DEF Reconcile
    <3>2. QED
      BY <3>1, SetStays
  <2>6. ASSUME NEW b \in Actions, Edit(b) PROVE action'[a].status # "absent"
    <3>1. PICK c : action' = [action EXCEPT ![b].content = c]
      BY <2>6 DEF Edit
    <3>2. QED
      BY <1>0, <3>1 DEF ActionRow
  <2>7. ASSUME NEW b \in Actions,
               Retry(b) \/ CancelAction(b) \/ ForceCancel(b) \/ MaintainExpire(b)
        PROVE  action'[a].status # "absent"
    BY <2>7, SetStays DEF Retry, CancelAction, ForceCancel, MaintainExpire
  <2>8. CASE MaintainRecover
    BY <2>8, RecoveredStays DEF MaintainRecover
  <2>9. QED
    BY <1>1, <1>10, <2>1, <2>2, <2>3, <2>4, <2>5, <2>6, <2>7, <2>8
       DEF ApprovalStep, ApprovalNext
<1>11. CASE TimeStep \/ UNCHANGED vars
  BY <1>1, <1>11 DEF TimeStep, LeaseElapses, ReviewElapses, vars, storeVars
<1>12. QED
  BY <1>8, <1>9, <1>10, <1>11 DEF Next

----------------------------------------------------------------------------
(* What a step may do to the row of one task: keep its status, lease and     *)
(* progress; take it from its run, with its progress unless a user wrote it; *)
(* a claim; or a checkpoint.  Its link is kept, dropped, or that of a run.   *)
SameRow(r, s) == s.status = r.status /\ s.lease = r.lease /\ s.step = r.step
TakenFrom(r, s) == s.status # "running" /\ (s.step = r.step \/ UserWrites)
RowMoves(t) ==
    \/ SameRow(task[t], task'[t]) \/ TakenFrom(task[t], task'[t])
    \/ \E w \in Workers : Claim(w, t) \/ (Checkpoint(w, t) /\ CheckpointPasses(w, t))
LinkFrom(a, t) == a \in {task[t].action, NoAction} \/ \E w \in Workers : a = run[w][t].action
TaskMoves(t) == RowMoves(t) /\ LinkFrom(task'[t].action, t)

(* A row that is not written. *)
LEMMA RowStays ==
    ASSUME NEW t \in Tasks, task'[t] = task[t]
    PROVE  TaskMoves(t)
  BY DEF TaskMoves, RowMoves, SameRow, LinkFrom

(* One row is replaced. *)
LEMMA OneRowMoves ==
    ASSUME TypeOK, NEW u \in Tasks, NEW row, task' = [task EXCEPT ![u] = row],
           SameRow(task[u], row) \/ TakenFrom(task[u], row), LinkFrom(row.action, u),
           NEW t \in Tasks
    PROVE  TaskMoves(t)
<1>1. task \in [Tasks -> TaskRow]
  BY DEF TypeOK, StoreTypeOK
<1>2. CASE t = u
  <2>1. task'[t] = row
    BY <1>1, <1>2
  <2>2. QED
    BY <1>2, <2>1 DEF TaskMoves, RowMoves
<1>3. CASE t # u
  <2>1. task'[t] = task[t]
    BY <1>1, <1>3
  <2>2. QED
    BY <2>1, RowStays
<1>4. QED
  BY <1>2, <1>3

(* A released row keeps its progress and its link. *)
LEMMA ReleasedTaken ==
    ASSUME NEW row \in TaskRow, NEW s, s # "running"
    PROVE  TakenFrom(row, Released(row, s)) /\ Released(row, s).action = row.action
  BY DEF TakenFrom, Released, TaskRow

(* Unlink, Link and a heartbeat write one field that no run is fenced by. *)
LEMMA FieldMoves ==
    ASSUME TypeOK, NEW v \in Workers, NEW u \in Tasks,
           Unlink(v, u) \/ Link(v, u) \/ Heartbeat(v, u), NEW t \in Tasks
    PROVE  TaskMoves(t)
<1> DEFINE row == task[u]
<1>0. row \in TaskRow
  BY DEF TypeOK, StoreTypeOK
<1>1. CASE task' = task
  BY <1>1, RowStays
<1>2. ASSUME NEW a, LinkFrom(a, u), task' = [task EXCEPT ![u].action = a] PROVE TaskMoves(t)
  <2>1. task' = [task EXCEPT ![u] = [row EXCEPT !.action = a]]
    BY <1>2 DEF TypeOK, StoreTypeOK
  <2>2. /\ SameRow(row, [row EXCEPT !.action = a]) /\ [row EXCEPT !.action = a].action = a
    BY <1>0 DEF SameRow, TaskRow
  <2>3. QED
    BY <1>2, <2>1, <2>2, OneRowMoves
<1>3. CASE task' = [task EXCEPT ![u].until = @ + 1]
  <2>0. PICK n : n = row.until + 1
    OBVIOUS
  <2>1. task' = [task EXCEPT ![u] = [row EXCEPT !.until = n]]
    BY <1>3, <2>0 DEF TypeOK, StoreTypeOK
  <2>2. SameRow(row, [row EXCEPT !.until = n]) /\ [row EXCEPT !.until = n].action = row.action
    BY <1>0 DEF SameRow, TaskRow
  <2>3. LinkFrom([row EXCEPT !.until = n].action, u)
    BY <2>2 DEF LinkFrom
  <2>4. QED
    BY <2>1, <2>2, <2>3, OneRowMoves
<1>4. LinkFrom(NoAction, u) /\ LinkFrom(run[v][u].action, u)
  BY DEF LinkFrom
<1>5. \/ task' = task
      \/ task' = [task EXCEPT ![u].action = NoAction]
      \/ task' = [task EXCEPT ![u].action = run[v][u].action]
      \/ task' = [task EXCEPT ![u].until = @ + 1]
  BY DEF Unlink, Link, Heartbeat
<1>6. QED
  BY <1>1, <1>2, <1>3, <1>4, <1>5

(* The end of a run takes the row from it. *)
LEMMA EndMoves ==
    ASSUME TypeOK, NEW v \in Workers, NEW u \in Tasks,
           Commit(v, u) \/ Requeue(v, u) \/ Fail(v, u), NEW t \in Tasks
    PROVE  TaskMoves(t)
<1> DEFINE row == task[u]
<1>0. row \in TaskRow
  BY DEF TypeOK, StoreTypeOK
<1>1. CASE task' = task
  BY <1>1, RowStays
<1>2. ASSUME NEW s, s # "running", task' = [task EXCEPT ![u] = Released(@, s)] PROVE TaskMoves(t)
  <2>1. task' = [task EXCEPT ![u] = Released(row, s)]
    BY <1>2 DEF TypeOK, StoreTypeOK
  <2>2. TakenFrom(row, Released(row, s)) /\ LinkFrom(Released(row, s).action, u)
    BY <1>0, <1>2, ReleasedTaken DEF LinkFrom
  <2>3. QED
    BY <2>1, <2>2, OneRowMoves
<1>3. CASE Commit(v, u) /\ CheckpointPasses(v, u)
  <2>1. PICK s, a :
           /\ s = run[v][u].result
           /\ a = IF run[v][u].result = "waiting_approval" THEN run[v][u].action ELSE task[u].action
    OBVIOUS
  <2>2. s # "running"
    <3>1. run[v][u] \in Run /\ run[v][u].pc = "commit"
      BY <1>3 DEF TypeOK, WorkerTypeOK, Commit, At
    <3>2. QED
      BY <2>1, <3>1 DEF Run, Results
  <2>3. LinkFrom(a, u)
    BY <2>1 DEF LinkFrom
  <2>4. task' = [task EXCEPT ![u] = [Released(@, s) EXCEPT !.action = a]]
    BY <1>3, <2>1 DEF Commit
  <2>5. task' = [task EXCEPT ![u] = [Released(row, s) EXCEPT !.action = a]]
    BY <2>4 DEF TypeOK, StoreTypeOK
  <2>6. LET new == [Released(row, s) EXCEPT !.action = a] IN TakenFrom(row, new) /\ new.action = a
    BY <1>0, <2>2 DEF TakenFrom, Released, TaskRow
  <2>7. QED
    BY <2>3, <2>5, <2>6, OneRowMoves
<1>4. \/ task' = task
      \/ Commit(v, u) /\ CheckpointPasses(v, u)
      \/ task' = [task EXCEPT ![u] = Released(@, "queued")]
      \/ task' = [task EXCEPT ![u] = Released(@, "failed")]
  BY DEF Commit, Requeue, Fail
<1>5. QED
  BY <1>1, <1>2, <1>3, <1>4

(* Steps of a worker. *)
LEMMA WorkerTaskMoves ==
    ASSUME TypeOK, WorkerStep, NEW t \in Tasks
    PROVE  TaskMoves(t)
<1>0. task \in [Tasks -> TaskRow]
  BY DEF TypeOK, StoreTypeOK
<1>1. CASE task' = task
  BY <1>1, RowStays
<1>2. ASSUME NEW v \in Workers, NEW u \in Tasks, Claim(v, u) PROVE TaskMoves(t)
  <2>1. CASE t = u
    <3>1. task'[t].action = task[t].action
      BY <1>2, <2>1, ClaimFacts
    <3>2. QED
      BY <1>2, <2>1, <3>1 DEF TaskMoves, RowMoves, LinkFrom
  <2>2. CASE t # u
    <3>1. task'[t] = task[t]
      BY <1>0, <1>2, <2>2 DEF Claim
    <3>2. QED
      BY <3>1, RowStays
  <2>3. QED
    BY <2>1, <2>2
<1>3. ASSUME NEW v \in Workers, NEW u \in Tasks, Checkpoint(v, u) PROVE TaskMoves(t)
  <2>1. CASE CheckpointPasses(v, u) /\ t = u
    <3>1. task'[t].action = task[t].action
      BY <1>3, <2>1, CheckpointFacts
    <3>2. QED
      BY <1>3, <2>1, <3>1 DEF TaskMoves, RowMoves, LinkFrom
  <2>2. CASE ~(CheckpointPasses(v, u) /\ t = u)
    <3>1. task' = task \/ (task' = [task EXCEPT ![u].step = run[v][u].step + 1] /\ t # u)
      BY <1>3, <2>2 DEF Checkpoint
    <3>2. task'[t] = task[t]
      BY <1>0, <3>1
    <3>3. QED
      BY <3>2, RowStays
  <2>3. QED
    BY <2>1, <2>2
<1>4. ASSUME NEW v \in Workers, NEW u \in Tasks, HandlerNext(v, u) PROVE TaskMoves(t)
  <2>1. CASE Unlink(v, u) \/ Link(v, u)
    BY <2>1, FieldMoves
  <2>2. CASE Commit(v, u) \/ Requeue(v, u) \/ Fail(v, u)
    BY <2>2, EndMoves
  <2>3. CASE \/ StartRun(v, u) \/ StartRunThrows(v, u) \/ NoticeLost(v, u) \/ Begin(v, u)
             \/ Guard(v, u) \/ StillPending(v, u) \/ Carried(v, u) \/ NotCarried(v, u)
             \/ Throw(v, u) \/ Return(v, u) \/ Prepare(v, u) \/ Undo(v, u)
             \/ FinishMeta(v, u) \/ CommitThrows(v, u) \/ DeadLetter(v, u)
             \/ CloseRun(v, u) \/ Settle(v, u) \/ CatchThrows(v, u)
    <3>1. task' = task
      BY <2>3 DEF StartRun, StartRunThrows, NoticeLost, Begin, Guard, StillPending, Carried,
                  NotCarried, Throw, Return, Prepare, Undo, FinishMeta, CommitThrows, DeadLetter,
                  CloseRun, Settle, CatchThrows, storeVars
    <3>2. QED
      BY <1>1, <3>1
  <2>4. QED
    BY <1>3, <1>4, <2>1, <2>2, <2>3 DEF HandlerNext
<1>5. ASSUME NEW v \in Workers, Restart(v) PROVE TaskMoves(t)
  <2>1. task'[t] = task[t] \/ task'[t] = Released(task[t], "queued")
    BY <1>5 DEF Restart
  <2>2. CASE task'[t] = Released(task[t], "queued")
    BY <1>0, <2>2, ReleasedTaken DEF TaskMoves, RowMoves, LinkFrom
  <2>3. QED
    BY <2>1, <2>2, RowStays
<1>6. ASSUME NEW v \in Workers, Tick(v) \/ Stop(v) \/ Exit(v) \/ Crash(v) PROVE task' = task
  BY <1>6 DEF Tick, Stop, Exit, Crash, Down, storeVars
<1>7. ASSUME NEW v \in Workers, NEW u \in Tasks, ClaimLoses(v, u) \/ TaskTimeout(v, u)
      PROVE  task' = task
  BY <1>7 DEF ClaimLoses, TaskTimeout, storeVars
<1>8. ASSUME NEW v \in Workers, NEW u \in Tasks, Heartbeat(v, u) PROVE TaskMoves(t)
  BY <1>8, FieldMoves
<1>9. ASSUME NEW u \in Tasks, Republish(u) PROVE task' = task
  BY <1>9 DEF Republish, storeVars
<1>10. QED
  BY <1>1, <1>2, <1>4, <1>5, <1>6, <1>7, <1>8, <1>9 DEF WorkerStep, WorkerNext

(* Every step. *)
LEMMA AllTaskMoves ==
    ASSUME TypeOK, [Next]_vars, NEW t \in Tasks
    PROVE  TaskMoves(t)
<1>0. task \in [Tasks -> TaskRow]
  BY DEF TypeOK, StoreTypeOK
<1>1. CASE task' = task
  BY <1>1, RowStays
<1>2. CASE WorkerStep
  BY <1>2, WorkerTaskMoves
<1>3. CASE ControlStep
  <2>1. ASSUME NEW u \in Tasks, task[u].status = "absent",
               task' = [task EXCEPT ![u].status = "queued"]
        PROVE  TaskMoves(t)
    <3>1. task' = [task EXCEPT ![u] = [task[u] EXCEPT !.status = "queued"]]
      BY <1>0, <2>1
    <3>2. /\ TakenFrom(task[u], [task[u] EXCEPT !.status = "queued"])
          /\ [task[u] EXCEPT !.status = "queued"].action = task[u].action
      BY <1>0 DEF TakenFrom, TaskRow
    <3>3. LinkFrom([task[u] EXCEPT !.status = "queued"].action, u)
      BY <3>2 DEF LinkFrom
    <3>4. QED
      BY <3>1, <3>2, <3>3, OneRowMoves
  <2>2. ASSUME NEW u \in Requests, req[u].pc = "cas", req'[u].pc # "cas",
               req[u].t \in Tasks, req[u].op \in Ops,
               task' = [task EXCEPT ![req[u].t] = Written(req[u].op, req[u].row, task[req[u].t])]
        PROVE  TaskMoves(t)
    <3>1. PICK x \in Tasks, op \in Ops : x = req[u].t /\ op = req[u].op
      BY <2>2
    <3>0. PICK read : read = req[u].row
      OBVIOUS
    <3>2. UserWrites
      BY <2>2 DEF UserWrites
    <3>3. PICK row \in TaskRow : row = task[x]
      BY <1>0
    <3>4. /\ Written(op, read, row).status # "running"
          /\ Written(op, read, row).action = row.action
      <4>1. CASE op = "answer"
        BY <4>1 DEF Written, TaskRow
      <4>2. CASE op = "escalate"
        BY <4>2 DEF Written, Released, TaskRow
      <4>3. CASE op \notin {"answer", "escalate"}
        <5>1. PICK s : s # "running" /\ Written(op, read, row) = Released(row, s)
          BY <4>3 DEF Written, Ops
        <5>2. QED
          BY <5>1, ReleasedTaken DEF TakenFrom
      <4>4. QED
        BY <4>1, <4>2, <4>3
    <3>5. TakenFrom(task[x], Written(op, read, row)) /\ LinkFrom(Written(op, read, row).action, x)
      BY <3>2, <3>3, <3>4 DEF TakenFrom, LinkFrom
    <3>6. task' = [task EXCEPT ![x] = Written(op, read, row)]
      BY <2>2, <3>0, <3>1, <3>3
    <3>7. QED
      BY <3>5, <3>6, OneRowMoves
  <2>3. QED
    BY <1>1, <1>3, <2>1, <2>2, ControlWrites
<1>4. CASE ApprovalStep
  <2>1. ASSUME NEW u, NEW s, s \in {"queued", "failed"}, task' = [task EXCEPT ![u].status = s]
        PROVE  TaskMoves(t)
    <3>1. CASE u = t
      <4>1. task'[t] = [task[t] EXCEPT !.status = s]
        BY <1>0, <2>1, <3>1
      <4>2. task'[t].status = s /\ task'[t].step = task[t].step /\ task'[t].action = task[t].action
        BY <1>0, <4>1 DEF TaskRow
      <4>3. QED
        BY <2>1, <4>2 DEF TaskMoves, RowMoves, TakenFrom, LinkFrom
    <3>2. CASE u # t
      <4>1. task'[t] = task[t]
        BY <1>0, <2>1, <3>2
      <4>2. QED
        BY <4>1, RowStays
    <3>3. QED
      BY <3>1, <3>2
  <2>2. QED
    BY <1>1, <1>4, <2>1, ApprovalWrites
<1>5. CASE TimeStep \/ UNCHANGED vars
  BY <1>1, <1>5 DEF TimeStep, LeaseElapses, ReviewElapses, vars, storeVars
<1>6. QED
  BY <1>2, <1>3, <1>4, <1>5 DEF Next

----------------------------------------------------------------------------
(* RunsInv is preserved.                                                     *)

(* Only a claim gives a run a lease, and no lease is drawn twice. *)
LEMMA LeaseMoves ==
    ASSUME TypeOK, NEW w \in Workers, NEW t \in Tasks, Moves(w, t)
    PROVE  run'[w][t].lease \in {run[w][t].lease, NoLease} \/ Claim(w, t)
<1>1. CASE Kin(run[w][t], run'[w][t])
  BY <1>1 DEF Kin
<1>2. CASE run'[w][t] = OffRun
  BY <1>2 DEF OffRun
<1>3. CASE Writes(w, t)
  BY <1>3, PrepareFacts, UnlinkFacts, CheckpointFacts, CommitFacts DEF Writes
<1>4. QED
  BY <1>1, <1>2, <1>3 DEF Moves

(* The drawn leases stay drawn. *)
LEMMA UsedGrows ==
    ASSUME [Next]_vars
    PROVE  used \subseteq used'
<1>1. ASSUME NEW w \in Workers, NEW t \in Tasks, Claim(w, t) PROVE used \subseteq used'
  BY <1>1 DEF Claim
<1>2. ASSUME NEW w \in Workers, NEW t \in Tasks, HandlerNext(w, t) PROVE used' = used
  BY <1>2 DEF HandlerNext, StartRun, StartRunThrows, NoticeLost, Begin, Guard, StillPending,
        Carried, NotCarried, Unlink, Checkpoint, Throw, Return, Prepare, Link, Undo, Commit,
        FinishMeta, CommitThrows, Requeue, Fail, DeadLetter, CloseRun, Settle, CatchThrows
<1>3. ASSUME NEW w \in Workers, NEW t \in Tasks,
             ClaimLoses(w, t) \/ Heartbeat(w, t) \/ TaskTimeout(w, t)
      PROVE  used' = used
  BY <1>3 DEF ClaimLoses, Heartbeat, TaskTimeout
<1>4. ASSUME NEW w \in Workers, Tick(w) \/ Stop(w) \/ Exit(w) \/ Crash(w) \/ Restart(w)
      PROVE  used' = used
  BY <1>4 DEF Tick, Stop, Exit, Crash, Down, Restart
<1>5. ASSUME NEW t \in Tasks, Republish(t) PROVE used' = used
  BY <1>5 DEF Republish
<1>6. CASE WorkerStep
  BY <1>1, <1>2, <1>3, <1>4, <1>5, <1>6 DEF WorkerStep, WorkerNext
<1>7. CASE ControlStep
  BY <1>7 DEF ControlStep, ControlNext, CreateTask, ReadTask, Apply, Conflict, DenyCancelled,
              Dropped, workerVars
<1>8. CASE ApprovalStep \/ TimeStep \/ UNCHANGED vars
  BY <1>8 DEF ApprovalStep, TimeStep, vars, workerVars
<1>9. QED
  BY <1>6, <1>7, <1>8 DEF Next

(* A run that holds the row after a step that left the row's status, lease   *)
(* and progress alone held it before, or has just claimed it.                *)
LEMMA HolderStays ==
    ASSUME LeaseInv, LeaseIffRunning', NEW w \in Workers, NEW t \in Tasks, Moves(w, t),
           SameRow(task[t], task'[t]), Holds(w, t)', Holds(w, t) => run[w][t].step = task[t].step
    PROVE  run'[w][t].step = task'[t].step
<1>0. TypeOK /\ task'[t].lease # NoLease /\ task'[t].lease = run'[w][t].lease
  BY DEF LeaseInv, LeaseIffRunning, Holds
<1>1. task[t].lease = task'[t].lease /\ task[t].status = "running" /\ task[t].step = task'[t].step
  BY DEF SameRow, Holds
<1>2. CASE run'[w][t].lease = run[w][t].lease /\ run'[w][t].step = run[w][t].step
  BY <1>0, <1>1, <1>2 DEF Holds
<1>3. CASE run'[w][t] = OffRun
  BY <1>0, <1>3 DEF OffRun
<1>4. CASE Claim(w, t)
  BY <1>0, <1>1, <1>4, ClaimFacts
<1>5. CASE Checkpoint(w, t) /\ CheckpointPasses(w, t)
  BY <1>0, <1>5, CheckpointFacts
<1>6. CASE Prepare(w, t)
  BY <1>0, <1>2, <1>6, PrepareFacts
<1>7. CASE Unlink(w, t) /\ CheckpointPasses(w, t)
  BY <1>0, <1>2, <1>7, UnlinkFacts
<1>8. CASE Commit(w, t) /\ CheckpointPasses(w, t)
  BY <1>0, <1>2, <1>8, CommitFacts
<1>9. QED
  BY <1>2, <1>3, <1>4, <1>5, <1>6, <1>7, <1>8 DEF Moves, Writes, Kin

(* Fenced is preserved: the leases of two runs of a task differ, so a claim  *)
(* or a checkpoint of one run takes the row from every other.                *)
LEMMA FencedStep ==
    ASSUME LeaseInv, Fenced, [Next]_vars
    PROVE  Fenced'
<1>0. TypeOK /\ LeaseIffRunning /\ LeaseIffRunning' /\ used \subseteq used'
  BY LeaseStep, UsedGrows DEF LeaseInv
<1> SUFFICES ASSUME NEW w \in Workers, NEW t \in Tasks
             PROVE  /\ run'[w][t].lease \in used' \cup {NoLease}
                    /\ \A v \in Workers : v # w /\ run'[v][t].lease = run'[w][t].lease =>
                                            run'[w][t].lease = NoLease
                    /\ Holds(w, t)' => run'[w][t].step = task'[t].step
  BY DEF Fenced
<1>1. \A v \in Workers : run'[v][t].lease \in {run[v][t].lease, NoLease} \/ Claim(v, t)
  BY <1>0, RunMoves, LeaseMoves
<1>2. \A v \in Workers : run[v][t].lease \in used \cup {NoLease}
  BY DEF Fenced
<1>3. \A v, x \in Workers : v # x /\ run[v][t].lease = run[x][t].lease => run[x][t].lease = NoLease
  BY DEF Fenced
<1>4. ASSUME NEW v \in Workers, Claim(v, t)
      PROVE  /\ run'[v][t].lease \in used' \ used /\ run'[v][t].lease # NoLease
             /\ task'[t].lease = run'[v][t].lease /\ run'[v][t].step = task'[t].step
             /\ \A x \in Workers : x # v => run'[x][t] = run[x][t]
  BY <1>0, <1>4, ClaimFacts, StoreAssumption
<1>5. run'[w][t].lease \in used' \cup {NoLease}
  BY <1>0, <1>1, <1>2, <1>4
<1>6. ASSUME NEW v \in Workers, v # w, run'[v][t].lease = run'[w][t].lease,
             run'[w][t].lease # NoLease
      PROVE  FALSE
  <2>1. CASE Claim(w, t)
    BY <1>2, <1>4, <1>6, <2>1
  <2>2. CASE Claim(v, t)
    BY <1>2, <1>4, <1>6, <2>2
  <2>3. CASE ~Claim(w, t) /\ ~Claim(v, t)
    BY <1>1, <1>3, <1>6, <2>3
  <2>4. QED
    BY <2>1, <2>2, <2>3
<1>7. ASSUME Holds(w, t)' PROVE run'[w][t].step = task'[t].step
  <2>1. task'[t].lease = run'[w][t].lease /\ task'[t].status = "running" /\ task'[t].lease # NoLease
    BY <1>0, <1>7 DEF Holds, LeaseIffRunning
  <2>2. CASE SameRow(task[t], task'[t])
    <3>1. Moves(w, t)
      BY <1>0, RunMoves
    <3>2. Holds(w, t) => run[w][t].step = task[t].step
      BY DEF Fenced
    <3>3. QED
      BY <1>0, <1>7, <2>2, <3>1, <3>2, HolderStays
  <2>3. CASE TakenFrom(task[t], task'[t])
    BY <2>1, <2>3 DEF TakenFrom
  <2>4. ASSUME NEW v \in Workers, Claim(v, t) PROVE run'[w][t].step = task'[t].step
    BY <1>2, <1>4, <2>1, <2>4
  <2>5. ASSUME NEW v \in Workers, Checkpoint(v, t), CheckpointPasses(v, t)
        PROVE  run'[w][t].step = task'[t].step
    <3>1. CASE v = w
      BY <1>0, <2>5, <3>1, CheckpointFacts
    <3>2. CASE v # w
      <4>1. run'[w][t] = run[w][t] /\ task'[t].lease = task[t].lease
        BY <1>0, <2>5, <3>2, CheckpointFacts
      <4>2. task[t].lease = run[v][t].lease
        BY <2>5 DEF CheckpointPasses, Holds
      <4>3. QED
        BY <1>3, <2>1, <3>2, <4>1, <4>2
    <3>3. QED
      BY <3>1, <3>2
  <2>6. TaskMoves(t)
    BY <1>0, AllTaskMoves
  <2>7. QED
    BY <2>2, <2>3, <2>4, <2>5, <2>6 DEF TaskMoves, RowMoves
<1>8. QED
  BY <1>5, <1>6, <1>7

(* The three puts of a run record: at the start, after the final checkpoint, *)
(* and in the catch block if it still says running.                          *)
RecPut(w, u, s) ==
    /\ runRec' = [runRec EXCEPT ![u][run[w][u].lease] = s]
    /\ \/ s = "running" /\ run[w][u].pc = "claimed"
       \/ s = run[w][u].result /\ run[w][u].pc = "meta"
       \/ s \in {"paused", "failed"} /\ runRec[u][run[w][u].lease] = "running"

LEMMA RecWrites ==
    ASSUME [Next]_vars
    PROVE  runRec' = runRec \/ \E w \in Workers, u \in Tasks : \E s : RecPut(w, u, s)
<1>1. CASE runRec' = runRec
  BY <1>1
<1>2. ASSUME NEW w \in Workers, NEW u \in Tasks, HandlerNext(w, u)
      PROVE  runRec' = runRec \/ \E s : RecPut(w, u, s)
  <2>1. CASE StartRun(w, u)
    BY <2>1 DEF StartRun, At, RecPut
  <2>2. CASE FinishMeta(w, u)
    BY <2>2 DEF FinishMeta, At, RecPut
  <2>3. CASE CloseRun(w, u)
    <3>1. \/ runRec' = runRec
          \/ /\ runRec[u][run[w][u].lease] = "running"
             /\ \E s \in {"paused", "failed"} : runRec' = [runRec EXCEPT ![u][run[w][u].lease] = s]
      BY <2>3 DEF CloseRun
    <3>2. QED
      BY <3>1 DEF RecPut
  <2>4. CASE ~StartRun(w, u) /\ ~FinishMeta(w, u) /\ ~CloseRun(w, u)
    BY <1>2, <2>4 DEF HandlerNext, StartRunThrows, NoticeLost, Begin, Guard, StillPending,
          Carried, NotCarried, Unlink, Checkpoint, Throw, Return, Prepare, Link, Undo, Commit,
          CommitThrows, Requeue, Fail, DeadLetter, Settle, CatchThrows
  <2>5. QED
    BY <2>1, <2>2, <2>3, <2>4
<1>4. ASSUME NEW w \in Workers, NEW u \in Tasks,
             Claim(w, u) \/ ClaimLoses(w, u) \/ Heartbeat(w, u) \/ TaskTimeout(w, u)
      PROVE  runRec' = runRec
  BY <1>4 DEF Claim, ClaimLoses, Heartbeat, TaskTimeout
<1>5. ASSUME NEW w \in Workers, Tick(w) \/ Stop(w) \/ Exit(w) \/ Crash(w) \/ Restart(w)
      PROVE  runRec' = runRec
  BY <1>5 DEF Tick, Stop, Exit, Crash, Down, Restart
<1>6. ASSUME NEW u \in Tasks, Republish(u) PROVE runRec' = runRec
  BY <1>6 DEF Republish
<1>7. CASE WorkerStep
  BY <1>1, <1>2, <1>4, <1>5, <1>6, <1>7 DEF WorkerStep, WorkerNext
<1>8. CASE ControlStep \/ ApprovalStep \/ TimeStep \/ UNCHANGED vars
  <2>1. runRec' = runRec
    BY <1>8 DEF ControlStep, ControlNext, CreateTask, ReadTask, Apply, Conflict, DenyCancelled,
                Dropped, workerVars, ApprovalStep, TimeStep, vars
  <2>2. QED
    BY <2>1
<1>9. QED
  BY <1>7, <1>8 DEF Next

(* A put changes one record. *)
LEMMA RecPutFields ==
    ASSUME TypeOK, NEW w \in Workers, NEW u \in Tasks, NEW s, RecPut(w, u, s),
           NEW t \in Tasks, NEW l \in LeaseIds
    PROVE  \/ t = u /\ l = run[w][u].lease /\ runRec'[t][l] = s
           \/ runRec'[t][l] = runRec[t][l]
<1>1. runRec' = [runRec EXCEPT ![u][run[w][u].lease] = s]
  BY DEF RecPut
<1>2. runRec \in [Tasks -> [LeaseIds -> RunStatus]]
  BY DEF TypeOK, WorkerTypeOK
<1>3. QED
  BY <1>1, <1>2

(* A record says succeeded only if its run's final checkpoint went through.  *)
LEMMA RecMoves ==
    ASSUME TypeOK, [Next]_vars, NEW t \in Tasks, NEW l \in LeaseIds, runRec'[t][l] = "succeeded"
    PROVE  Won(t, l)
<1>1. CASE runRec' = runRec
  BY <1>1 DEF Won
<1>2. ASSUME NEW w \in Workers, NEW u \in Tasks, NEW s, RecPut(w, u, s) PROVE Won(t, l)
  <2>1. CASE runRec'[t][l] = runRec[t][l]
    BY <2>1 DEF Won
  <2>2. CASE t = u /\ l = run[w][u].lease /\ runRec'[t][l] = s
    <3>1. run[w][u].pc = "meta" /\ run[w][u].result = "succeeded"
      BY <1>2, <2>2 DEF RecPut
    <3>2. QED
      BY <2>2, <3>1 DEF Won
  <2>3. QED
    BY <1>2, <2>1, <2>2, RecPutFields
<1>3. QED
  BY <1>1, <1>2, RecWrites

(* ... and then says so for ever. *)
LEMMA RecKept ==
    ASSUME TypeOK, Unrecorded, [Next]_vars, NEW t \in Tasks, NEW l \in LeaseIds,
           runRec[t][l] = "succeeded"
    PROVE  runRec'[t][l] = "succeeded"
<1>1. CASE runRec' = runRec
  BY <1>1
<1>2. ASSUME NEW w \in Workers, NEW u \in Tasks, NEW s, RecPut(w, u, s)
      PROVE  runRec'[t][l] = "succeeded"
  <2>1. CASE runRec'[t][l] = runRec[t][l]
    BY <2>1
  <2>2. CASE t = u /\ l = run[w][u].lease /\ runRec'[t][l] = s
    <3>1. run[w][t].pc # "claimed" /\ (run[w][t].pc = "meta" => run[w][t].result = "succeeded")
      BY <2>2 DEF Unrecorded
    <3>2. QED
      BY <1>2, <2>2, <3>1 DEF RecPut
  <2>3. QED
    BY <1>2, <2>1, <2>2, RecPutFields
<1>3. QED
  BY <1>1, <1>2, RecWrites

(* A run wins only by its final checkpoint, under the lease of the row. *)
LEMMA WonMoves ==
    ASSUME TypeOK, [Next]_vars, NEW t \in Tasks, NEW l \in LeaseIds, Won(t, l)'
    PROVE  \/ Won(t, l)
           \/ /\ task[t].status = "running" /\ task[t].lease = l
              /\ task'[t].status = "succeeded"
<1>1. CASE runRec'[t][l] = "succeeded"
  BY <1>1, RecMoves
<1>2. ASSUME NEW w \in Workers, run'[w][t].pc = "meta", run'[w][t].result = "succeeded",
             run'[w][t].lease = l
      PROVE  \/ Won(t, l)
             \/ /\ task[t].status = "running" /\ task[t].lease = l
                /\ task'[t].status = "succeeded"
  <2>1. Moves(w, t)
    BY RunMoves
  <2>2. CASE Kin(run[w][t], run'[w][t])
    BY <1>2, <2>2 DEF Kin, Won
  <2>3. run'[w][t] # OffRun
    BY <1>2 DEF OffRun
  <2>4. CASE Commit(w, t) /\ CheckpointPasses(w, t)
    BY <1>2, <2>4, CommitFacts
  <2>5. CASE Writes(w, t) /\ ~(Commit(w, t) /\ CheckpointPasses(w, t))
    BY <1>2, <2>5, ClaimFacts, PrepareFacts, UnlinkFacts, CheckpointFacts DEF Writes
  <2>6. QED
    BY <2>1, <2>2, <2>3, <2>4, <2>5 DEF Moves
<1>3. QED
  BY <1>1, <1>2 DEF Won

(* OneWins is preserved: who wins had the row, and a task is won once. *)
LEMMA OneWinsStep ==
    ASSUME LeaseInv, OneWins, [Next]_vars
    PROVE  OneWins'
<1>0. TypeOK
  BY DEF LeaseInv
<1> SUFFICES ASSUME NEW t \in Tasks
             PROVE  /\ \A l \in LeaseIds : Won(t, l)' => task'[t].status = "succeeded"
                    /\ \A l, m \in LeaseIds : Won(t, l)' /\ Won(t, m)' => l = m
  BY DEF OneWins
<1>1. \A l \in LeaseIds : Won(t, l) => task[t].status = "succeeded"
  BY DEF OneWins
<1>2. \A l \in LeaseIds : Won(t, l)' =>
         \/ Won(t, l)
         \/ /\ task[t].status = "running" /\ task[t].lease = l
            /\ task'[t].status = "succeeded"
  BY <1>0, WonMoves
<1>3. task[t].status = "succeeded" => task'[t].status = "succeeded"
  BY FinalStep
<1>4. \A l, m \in LeaseIds : Won(t, l) /\ Won(t, m) => l = m
  BY DEF OneWins
<1>5. QED
  BY <1>1, <1>2, <1>3, <1>4

(* Unrecorded is preserved: a claim and a final checkpoint find a task that  *)
(* nobody has won, and no other run has the lease.                           *)
LEMMA UnrecordedStep ==
    ASSUME LeaseInv, OneWins, Fenced, Unrecorded, [Next]_vars
    PROVE  Unrecorded'
<1>0. TypeOK /\ NoLease \notin LeaseIds
  BY StoreAssumption DEF LeaseInv
<1> SUFFICES ASSUME NEW w \in Workers, NEW t \in Tasks, NEW l \in LeaseIds,
                    run'[w][t].lease = l, runRec'[t][l] = "succeeded",
                    \/ run'[w][t].pc = "claimed"
                    \/ run'[w][t].pc = "meta" /\ run'[w][t].result # "succeeded"
             PROVE  FALSE
  BY DEF Unrecorded
<1>1. Won(t, l)
  BY <1>0, RecMoves
<1>2. task[t].status = "succeeded"
  BY <1>1 DEF OneWins
<1>3. Moves(w, t)
  BY <1>0, RunMoves
<1>4. CASE Kin(run[w][t], run'[w][t])
  <2>1. /\ run[w][t].lease = l
        /\ run[w][t].pc = "claimed" \/ (run[w][t].pc = "meta" /\ run[w][t].result # "succeeded")
    BY <1>4 DEF Kin
  <2>2. runRec[t][l] # "succeeded"
    BY <2>1 DEF Unrecorded
  <2>3. PICK v \in Workers : /\ run[v][t].pc = "meta" /\ run[v][t].result = "succeeded"
                             /\ run[v][t].lease = l
    BY <1>1, <2>2 DEF Won
  <2>4. v # w
    BY <2>1, <2>3
  <2>5. QED
    BY <1>0, <2>1, <2>3, <2>4 DEF Fenced
<1>5. CASE run'[w][t] = OffRun
  BY <1>5 DEF OffRun
<1>6. CASE Writes(w, t)
  <2>1. CASE Claim(w, t)
    BY <1>0, <1>2, <2>1, ClaimFacts
  <2>2. CASE Prepare(w, t)
    BY <1>0, <2>2, PrepareFacts
  <2>3. CASE Unlink(w, t) /\ CheckpointPasses(w, t)
    BY <1>0, <2>3, UnlinkFacts
  <2>4. CASE Checkpoint(w, t) /\ CheckpointPasses(w, t)
    BY <1>0, <2>4, CheckpointFacts
  <2>5. CASE Commit(w, t) /\ CheckpointPasses(w, t)
    BY <1>0, <1>2, <2>5, CommitFacts
  <2>6. QED
    BY <1>6, <2>1, <2>2, <2>3, <2>4, <2>5 DEF Writes
<1>7. QED
  BY <1>3, <1>4, <1>5, <1>6 DEF Moves

(* Linked is preserved: a link is copied between the row and its runs, or    *)
(* comes from propose(), which has inserted the proposal.                    *)
LEMMA LinkedStep ==
    ASSUME TypeOK, Linked, [Next]_vars
    PROVE  Linked'
<1>1. ASSUME NEW a \in Actions \cup {NoAction}, NEW t \in Tasks, MadeBy(a, t)
      PROVE  a # NoAction => a[1] = t /\ action'[a].status # "absent"
  BY <1>1, ActionsStay DEF MadeBy
<1>2. ASSUME NEW t \in Tasks
      PROVE  /\ task[t].action \in Actions \cup {NoAction} /\ MadeBy(task[t].action, t)
             /\ \A w \in Workers : run[w][t].action \in Actions \cup {NoAction}
                                     /\ MadeBy(run[w][t].action, t)
  BY DEF Linked, TypeOK, StoreTypeOK, WorkerTypeOK, TaskRow, Run, RunRow
<1>3. ASSUME NEW t \in Tasks
      PROVE  task'[t].action # NoAction =>
                task'[t].action[1] = t /\ action'[task'[t].action].status # "absent"
  <2>1. LinkFrom(task'[t].action, t)
    BY AllTaskMoves DEF TaskMoves
  <2>2. QED
    BY <1>1, <1>2, <2>1 DEF LinkFrom
<1>4. ASSUME NEW t \in Tasks, NEW w \in Workers
      PROVE  run'[w][t].action # NoAction =>
                run'[w][t].action[1] = t /\ action'[run'[w][t].action].status # "absent"
  <2>1. Moves(w, t)
    BY RunMoves
  <2>2. CASE run'[w][t].action \in {run[w][t].action, task[t].action, NoAction}
    BY <1>1, <1>2, <2>2
  <2>3. CASE Prepare(w, t)
    <3>1. PICK k \in Keys : run'[w][t].action = <<t, k>> /\ action'[<<t, k>>].status # "absent"
      BY <2>3, PrepareFacts
    <3>2. QED
      BY <3>1
  <2>4. CASE Writes(w, t) /\ ~Prepare(w, t)
    <3>1. run'[w][t].action \in {run[w][t].action, task[t].action, NoAction}
      BY <2>4, ClaimFacts, UnlinkFacts, CheckpointFacts, CommitFacts DEF Writes
    <3>2. QED
      BY <2>2, <3>1
  <2>5. QED
    BY <2>1, <2>2, <2>3, <2>4 DEF Moves, Kin, OffRun
<1>5. QED
  BY <1>3, <1>4 DEF Linked, MadeBy

(* The inductive invariant holds in every state. *)
LEMMA RunsInvariant == Spec => []RunsInv
<1>1. Init => RunsInv
  <2> SUFFICES ASSUME Init PROVE RunsInv
    OBVIOUS
  <2>1. LeaseInv
    BY Typing0 DEF LeaseInv, Init, StoreInit, ControlInit, Idle, LeaseIffRunning, AdmittedWhenRead
  <2>2. \A w \in Workers, t \in Tasks : run[w][t] = OffRun
    BY DEF Init, WorkerInit
  <2>3. \A t \in Tasks : task[t].status = "absent" /\ task[t].action = NoAction
    BY DEF Init, StoreInit
  <2>4. OneWins
    <3>1. \A t \in Tasks, l \in LeaseIds : runRec[t][l] # "succeeded"
      BY DEF Init, WorkerInit
    <3>2. QED
      BY <2>2, <3>1 DEF OneWins, Won, OffRun
  <2>5. Fenced /\ Unrecorded
    BY <2>2, <2>3 DEF Fenced, Holds, OffRun, Unrecorded
  <2>6. Linked
    BY <2>2, <2>3 DEF Linked, MadeBy, OffRun
  <2>7. QED
    BY <2>1, <2>4, <2>5, <2>6 DEF RunsInv
<1>2. RunsInv /\ [Next]_vars => RunsInv'
  BY LeaseStep, FencedStep, OneWinsStep, UnrecordedStep, LinkedStep DEF RunsInv, LeaseInv
<1>3. QED
  BY <1>1, <1>2, PTL DEF Spec

(* Of all the runs a task ever had, crashed, overtaken or still at work, at  *)
(* most one is recorded as succeeded, and then the task did succeed.         *)
THEOREM OneRunEverSucceeds == Spec => []OneRunSucceeds
<1>1. OneWins => OneRunSucceeds
  <2> SUFFICES ASSUME OneWins, NEW t \in Tasks
               PROVE  LET won == {l \in LeaseIds : runRec[t][l] = "succeeded"} IN
                      Cardinality(won) <= 1 /\ (won # {} => task[t].status = "succeeded")
    BY DEF OneRunSucceeds
  <2> DEFINE won == {l \in LeaseIds : runRec[t][l] = "succeeded"}
  <2>1. \A l, m \in won : l = m
    BY DEF OneWins, Won
  <2>2. won # {} => task[t].status = "succeeded"
    BY DEF OneWins, Won
  <2>3. Cardinality(won) <= 1
    <3>1. CASE won = {}
      BY <3>1, FS_EmptySet
    <3>2. CASE won # {}
      <4>1. PICK l : l \in won
        BY <3>2
      <4>2. won = {l}
        BY <2>1, <4>1
      <4>3. Cardinality({l}) = 1
        BY FS_Singleton
      <4>4. QED
        BY <4>2, <4>3
    <3>3. QED
      BY <3>1, <3>2
  <2>4. QED
    BY <2>2, <2>3
<1>2. QED
  BY <1>1, RunsInvariant, PTL DEF RunsInv

(* The proposal a task carries exists and is the task's own. *)
THEOREM LinksAreReal == Spec => []LinkIsReal
<1>1. Linked => LinkIsReal
  BY DEF Linked, MadeBy, LinkIsReal
<1>2. QED
  BY <1>1, RunsInvariant, PTL DEF RunsInv

(* No run takes a task's progress back, however late it writes: only a user  *)
(* whose request read an older `state` can.                                  *)
THEOREM ProgressIsFenced == Spec => ProgressFenced
<1>1. RunsInv /\ [Next]_vars =>
         [\A t \in Tasks : task'[t].step < task[t].step => UserWrites]_vars
  <2> SUFFICES ASSUME RunsInv, [Next]_vars, NEW t \in Tasks, task'[t].step < task[t].step
               PROVE  UserWrites
    OBVIOUS
  <2>1. TypeOK /\ Fenced
    BY DEF RunsInv, LeaseInv
  <2>2. task[t].step \in Nat
    BY <2>1 DEF TypeOK, StoreTypeOK, TaskRow
  <2>3. CASE SameRow(task[t], task'[t])
    BY <2>2, <2>3 DEF SameRow
  <2>4. CASE TakenFrom(task[t], task'[t])
    BY <2>2, <2>4 DEF TakenFrom
  <2>5. ASSUME NEW w \in Workers, Claim(w, t) PROVE UserWrites
    <3>1. task'[t].step = task[t].step
      BY <2>1, <2>5, ClaimFacts
    <3>2. QED
      BY <2>2, <3>1
  <2>6. ASSUME NEW w \in Workers, Checkpoint(w, t), CheckpointPasses(w, t) PROVE UserWrites
    <3>1. task'[t].step = run[w][t].step + 1
      BY <2>1, <2>6, CheckpointFacts
    <3>2. run[w][t].step = task[t].step
      BY <2>1, <2>6 DEF Fenced, CheckpointPasses
    <3>3. QED
      BY <2>2, <3>1, <3>2
  <2>7. TaskMoves(t)
    BY <2>1, AllTaskMoves
  <2>8. QED
    BY <2>3, <2>4, <2>5, <2>6, <2>7 DEF TaskMoves, RowMoves
<1>2. QED
  BY <1>1, RunsInvariant, PTL DEF Spec, ProgressFenced

----------------------------------------------------------------------------
(* The engine implements TaskLife.                                           *)

(* A claim takes a task that was queued, waiting or running. *)
LEMMA ClaimStatus ==
    ASSUME TypeOK, NEW w \in Workers, NEW t \in Tasks, Claim(w, t)
    PROVE  task[t].status \in {"queued", "running", "waiting_approval"} /\ task'[t].status = "running"
<1>1. seen[w][t] \in SeenRow /\ task \in [Tasks -> TaskRow] /\ task[t].status \in TaskStatus
  BY DEF TypeOK, StoreTypeOK, WorkerTypeOK, TaskRow
<1>2. task[t].status \in {"queued", "running", "waiting_approval"}
  BY <1>1 DEF Claim, Unchanged, SeenRow, TaskStatus
<1>3. PICK l : task' = [task EXCEPT ![t].status = "running", ![t].lease = l, ![t].until = 0]
  BY DEF Claim
<1>4. task'[t].status = "running"
  BY <1>1, <1>3 DEF TaskRow
<1>5. QED
  BY <1>2, <1>4

(* A checkpoint leaves a running task running. *)
LEMMA CheckpointStatus ==
    ASSUME TypeOK, NEW w \in Workers, NEW t \in Tasks, Checkpoint(w, t), CheckpointPasses(w, t)
    PROVE  task[t].status = "running" /\ task'[t].status = "running"
<1>1. task[t].status = "running" /\ task \in [Tasks -> TaskRow]
  BY DEF CheckpointPasses, Holds, TypeOK, StoreTypeOK
<1>2. PICK k : task' = [task EXCEPT ![t].step = k]
  BY DEF Checkpoint
<1>3. QED
  BY <1>1, <1>2 DEF TaskRow

(* The final checkpoint leaves the progress alone and ends with a result. *)
LEMMA CommitStatus ==
    ASSUME TypeOK, NEW w \in Workers, NEW t \in Tasks, Commit(w, t), CheckpointPasses(w, t)
    PROVE  run'[w][t].pc = "meta" /\ run[w][t].result \in Results /\ task'[t].step = task[t].step
<1>1. run[w][t] \in Run /\ run \in [Workers -> [Tasks -> Run]] /\ task \in [Tasks -> TaskRow]
  BY DEF TypeOK, WorkerTypeOK, StoreTypeOK
<1>2. run[w][t].result \in Results
  BY <1>1 DEF Commit, At, Run
<1>3. run' = [run EXCEPT ![w][t].pc = "meta"]
  BY DEF Commit, Goto
<1>4. run'[w][t].pc = "meta"
  BY <1>1, <1>3 DEF Run, RunRow
<1>5. PICK r, a : task' = [task EXCEPT ![t] = [Released(task[t], r) EXCEPT !.action = a]]
  BY <1>1 DEF Commit
<1>6. task'[t] = [Released(task[t], r) EXCEPT !.action = a]
  BY <1>1, <1>5
<1>7. task'[t].step = task[t].step
  BY <1>1, <1>6 DEF Released, TaskRow
<1>8. QED
  BY <1>2, <1>4, <1>7

(* A worker that changes the status of a task otherwise than by a claim or   *)
(* by the final checkpoint queues the task or fails it.                      *)
LEMMA WorkerEnds ==
    ASSUME TypeOK, WorkerStep, NEW t \in Tasks
    PROVE  \/ task'[t].status \in {task[t].status, "running", "queued", "failed"}
           \/ \E w \in Workers : Commit(w, t) /\ CheckpointPasses(w, t)
<1> DEFINE Ends == \/ task'[t].status \in {task[t].status, "running", "queued", "failed"}
                   \/ \E w \in Workers : Commit(w, t) /\ CheckpointPasses(w, t)
<1>0. task \in [Tasks -> TaskRow]
  BY DEF TypeOK, StoreTypeOK
<1>1. CASE task'[t] = task[t]
  BY <1>1
<1>2. ASSUME NEW v \in Workers, NEW u \in Tasks, Claim(v, u) PROVE Ends
  <2>1. CASE t = u
    BY <1>2, <2>1, ClaimStatus
  <2>2. CASE t # u
    BY <1>0, <1>1, <1>2, <2>2 DEF Claim
  <2>3. QED
    BY <2>1, <2>2
<1>3. ASSUME NEW v \in Workers, NEW u \in Tasks,
             Unlink(v, u) \/ Checkpoint(v, u) \/ Link(v, u) \/ Heartbeat(v, u)
      PROVE  Ends
  <2>1. \/ task' = task
        \/ \E x : task' = [task EXCEPT ![u].action = x]
        \/ \E x : task' = [task EXCEPT ![u].step = x]
        \/ task' = [task EXCEPT ![u].until = @ + 1]
    BY <1>3 DEF Unlink, Checkpoint, Link, Heartbeat
  <2>2. task'[t].status = task[t].status
    BY <1>0, <2>1 DEF TaskRow
  <2>3. QED
    BY <2>2
<1>4. ASSUME NEW v \in Workers, NEW u \in Tasks, Requeue(v, u) \/ Fail(v, u) PROVE Ends
  <2>1. \/ task' = task
        \/ \E s \in {"queued", "failed"} : task' = [task EXCEPT ![u] = Released(task[u], s)]
    BY <1>0, <1>4 DEF Requeue, Fail
  <2>2. ASSUME NEW s \in {"queued", "failed"}, task' = [task EXCEPT ![u] = Released(task[u], s)]
        PROVE  Ends
    <3>1. CASE t = u
      <4>1. task'[t] = Released(task[u], s)
        BY <1>0, <2>2, <3>1
      <4>2. task'[t].status = s
        BY <1>0, <4>1 DEF Released, TaskRow
      <4>3. QED
        BY <4>2
    <3>2. CASE t # u
      BY <1>0, <1>1, <2>2, <3>2
    <3>3. QED
      BY <3>1, <3>2
  <2>3. QED
    BY <2>1, <2>2
<1>5. ASSUME NEW v \in Workers, NEW u \in Tasks, Commit(v, u) PROVE Ends
  <2>1. CASE t = u /\ CheckpointPasses(v, u)
    BY <1>5, <2>1
  <2>2. CASE ~(t = u /\ CheckpointPasses(v, u))
    <3>1. task'[t] = task[t]
      BY <1>0, <1>5, <2>2 DEF Commit
    <3>2. QED
      BY <3>1
  <2>3. QED
    BY <2>1, <2>2
<1>6. ASSUME NEW v \in Workers, NEW u \in Tasks, HandlerNext(v, u) PROVE Ends
  <2>1. CASE \/ StartRun(v, u) \/ StartRunThrows(v, u) \/ NoticeLost(v, u) \/ Begin(v, u)
             \/ Guard(v, u) \/ StillPending(v, u) \/ Carried(v, u) \/ NotCarried(v, u)
             \/ Throw(v, u) \/ Return(v, u) \/ Prepare(v, u) \/ Undo(v, u)
             \/ FinishMeta(v, u) \/ CommitThrows(v, u) \/ DeadLetter(v, u)
             \/ CloseRun(v, u) \/ Settle(v, u) \/ CatchThrows(v, u)
    <3>1. task' = task
      BY <2>1 DEF StartRun, StartRunThrows, NoticeLost, Begin, Guard, StillPending, Carried,
                  NotCarried, Throw, Return, Prepare, Undo, FinishMeta, CommitThrows, DeadLetter,
                  CloseRun, Settle, CatchThrows, storeVars
    <3>2. QED
      BY <1>1, <3>1
  <2>2. QED
    BY <1>3, <1>4, <1>5, <1>6, <2>1 DEF HandlerNext
<1>7. ASSUME NEW v \in Workers, Restart(v) PROVE Ends
  <2>1. task'[t] = task[t] \/ task'[t] = Released(task[t], "queued")
    BY <1>7 DEF Restart
  <2>2. QED
    BY <1>0, <2>1 DEF Released, TaskRow
<1>8. ASSUME NEW v \in Workers, Tick(v) \/ Stop(v) \/ Exit(v) \/ Crash(v) PROVE task' = task
  BY <1>8 DEF Tick, Stop, Exit, Crash, Down, storeVars
<1>9. ASSUME NEW v \in Workers, NEW u \in Tasks, ClaimLoses(v, u) \/ TaskTimeout(v, u)
      PROVE  task' = task
  BY <1>9 DEF ClaimLoses, TaskTimeout, storeVars
<1>10. ASSUME NEW u \in Tasks, Republish(u) PROVE task' = task
  BY <1>10 DEF Republish, storeVars
<1>11. task' = task => Ends
  BY <1>1
<1> HIDE DEF Ends
<1>12. Ends
  BY <1>2, <1>3, <1>6, <1>7, <1>8, <1>9, <1>10, <1>11 DEF WorkerStep, WorkerNext
<1>13. QED
  BY <1>12 DEF Ends

(* A worker leaves alone a row that is not running, unless it claims it. *)
LEMMA WorkerLeaves ==
    ASSUME TypeOK, WorkerStep, NEW t \in Tasks, task[t].status # "running",
           task'[t].status # "running"
    PROVE  task'[t] = task[t]
<1>0. task \in [Tasks -> TaskRow]
  BY DEF TypeOK, StoreTypeOK
<1>1. ASSUME NEW u \in Tasks, NEW l,
             task' = [task EXCEPT ![u].status = "running", ![u].lease = l, ![u].until = 0]
      PROVE  task'[t] = task[t]
  BY <1>0, <1>1 DEF TaskRow
<1>2. ASSUME NEW u \in Tasks, NEW row, task[u].status = "running", task' = [task EXCEPT ![u] = row]
      PROVE  task'[t] = task[t]
  BY <1>0, <1>2
<1>3. CASE task' = [x \in Tasks |-> IF task[x].status = "running" /\ x \in elapsed
                                    THEN Released(task[x], "queued") ELSE task[x]]
  BY <1>3
<1>4. QED
  BY <1>1, <1>2, <1>3, WorkerWrites

(* The moves of a status that the engine and the people make and that keep   *)
(* the progress, and those that write back what was read.                    *)
Edge(s, r) ==
    \/ s = "absent" /\ r = "queued"
    \/ s = "running" /\ r \in {"queued", "failed"}
    \/ s = "waiting_approval" /\ r \in {"queued", "failed"}
    \/ s \notin {"absent", "succeeded"} /\ r = "cancelled"
    \/ s \notin Terminal \cup {"absent", "paused"} /\ r = "paused"
    \/ s \in {"paused", "failed"} /\ r \in {"queued", "waiting_approval"}
WriteBack(s, r) ==
    \/ s \notin Terminal \cup {"absent"} /\ r = "waiting_input"
    \/ s = "waiting_input" /\ r = "queued"

(* RowMoves with the statuses. *)
Handed(r, s) ==
    \/ Edge(r.status, s.status) /\ s.step = r.step
    \/ WriteBack(r.status, s.status)
RowLife(t) ==
    \/ SameRow(task[t], task'[t]) \/ Handed(task[t], task'[t])
    \/ \E w \in Workers : Claim(w, t)
    \/ \E w \in Workers : (Checkpoint(w, t) \/ Commit(w, t)) /\ CheckpointPasses(w, t)

(* What the statement of a request writes. *)
LEMMA WrittenHanded ==
    ASSUME NEW op \in Ops, NEW row \in TaskRow, NEW read, StatusAdmits(op, row.status)
    PROVE  Handed(row, Written(op, read, row))
<1>1. CASE op = "answer"
  <2>1. Written(op, read, row).status = "queued"
    BY <1>1 DEF Written, TaskRow
  <2>2. row.status = "waiting_input"
    BY <1>1 DEF StatusAdmits
  <2>3. QED
    BY <2>1, <2>2 DEF Handed, WriteBack
<1>2. CASE op = "escalate"
  <2>1. Written(op, read, row).status = "waiting_input"
    BY <1>2 DEF Written, Released, TaskRow
  <2>2. row.status \notin Terminal \cup {"absent"}
    BY <1>2 DEF StatusAdmits
  <2>3. QED
    BY <2>1, <2>2 DEF Handed, WriteBack
<1>3. CASE op \notin {"answer", "escalate"}
  <2>1. PICK s : Written(op, read, row) = Released(row, s) /\ Edge(row.status, s)
    <3>1. CASE op = "cancel"
      BY <3>1 DEF Written, StatusAdmits, Edge
    <3>2. CASE op = "pause"
      BY <3>2 DEF Written, StatusAdmits, Edge
    <3>3. CASE op \in {"resume", "retry"}
      <4>1. PICK s : /\ s \in {"queued", "waiting_approval"}
                     /\ s = IF read.action # NoAction THEN "waiting_approval" ELSE "queued"
        OBVIOUS
      <4>2. Written(op, read, row) = Released(row, s)
        BY <3>3, <4>1 DEF Written
      <4>3. Edge(row.status, s)
        BY <3>3, <4>1 DEF StatusAdmits, Edge
      <4>4. QED
        BY <4>2, <4>3
    <3>4. QED
      BY <1>3, <3>1, <3>2, <3>3 DEF Ops
  <2>2. Released(row, s).status = s /\ Released(row, s).step = row.step
    BY DEF Released, TaskRow
  <2>3. QED
    BY <2>1, <2>2 DEF Handed
<1>4. QED
  BY <1>1, <1>2, <1>3

(* A worker's step. *)
LEMMA WorkerLife ==
    ASSUME TypeOK, WorkerStep, NEW t \in Tasks
    PROVE  RowLife(t)
<1>1. TaskMoves(t)
  BY WorkerTaskMoves
<1>2. CASE TakenFrom(task[t], task'[t])
  <2>1. ~UserWrites
    BY DEF WorkerStep, controlVars, UserWrites
  <2>2. task'[t].status # "running" /\ task'[t].step = task[t].step
    BY <1>2, <2>1 DEF TakenFrom
  <2>3. CASE task[t].status # "running"
    <3>1. task'[t] = task[t]
      BY <2>2, <2>3, WorkerLeaves
    <3>2. QED
      BY <3>1 DEF RowLife, SameRow
  <2>4. CASE task[t].status = "running" /\ task'[t].status \in {"queued", "failed"}
    BY <2>2, <2>4 DEF RowLife, Handed, Edge
  <2>5. CASE \E w \in Workers : Commit(w, t) /\ CheckpointPasses(w, t)
    BY <2>5 DEF RowLife
  <2>6. QED
    BY <2>2, <2>3, <2>4, <2>5, WorkerEnds
<1>3. QED
  BY <1>1, <1>2 DEF TaskMoves, RowMoves, RowLife

(* A step of a request: it swaps on the status that it was admitted with. *)
LEMMA ControlLife ==
    ASSUME TypeOK, AdmittedWhenRead, ControlStep, NEW t \in Tasks
    PROVE  RowLife(t)
<1>0. task \in [Tasks -> TaskRow]
  BY DEF TypeOK, StoreTypeOK
<1>1. CASE task'[t] = task[t]
  BY <1>1 DEF RowLife, SameRow
<1>2. ASSUME NEW u \in Tasks, task[u].status = "absent",
             task' = [task EXCEPT ![u].status = "queued"]
      PROVE  RowLife(t)
  <2>1. CASE t = u
    <3>1. task'[t].status = "queued" /\ task'[t].step = task[t].step
      BY <1>0, <1>2, <2>1 DEF TaskRow
    <3>2. QED
      BY <1>2, <2>1, <3>1 DEF RowLife, Handed, Edge
  <2>2. CASE t # u
    BY <1>0, <1>1, <1>2, <2>2
  <2>3. QED
    BY <2>1, <2>2
<1>3. ASSUME NEW u \in Requests, req[u].pc = "cas", StillAsRead(req[u]),
             req[u].t \in Tasks, req[u].op \in Ops,
             task' = [task EXCEPT ![req[u].t] = Written(req[u].op, req[u].row, task[req[u].t])]
      PROVE  RowLife(t)
  <2>1. CASE t = req[u].t
    <3>1. StatusAdmits(req[u].op, task[t].status)
      BY <1>3, <2>1 DEF AdmittedWhenRead, StillAsRead
    <3>2. PICK op, read : op \in Ops /\ op = req[u].op /\ read = req[u].row
      BY <1>3
    <3>3. task'[t] = Written(op, read, task[t])
      BY <1>0, <1>3, <2>1, <3>2
    <3>4. Handed(task[t], Written(op, read, task[t]))
      BY <1>0, <3>1, <3>2, WrittenHanded
    <3>5. QED
      BY <3>3, <3>4 DEF RowLife
  <2>2. CASE t # req[u].t
    BY <1>0, <1>1, <1>3, <2>2
  <2>3. QED
    BY <2>1, <2>2
<1>4. QED
  BY <1>1, <1>2, <1>3, ControlWrites

(* Every step. *)
LEMMA AllLife ==
    ASSUME LeaseInv, [Next]_vars, NEW t \in Tasks
    PROVE  RowLife(t)
<1>0. TypeOK /\ AdmittedWhenRead /\ task \in [Tasks -> TaskRow]
  BY DEF LeaseInv, TypeOK, StoreTypeOK
<1>1. CASE task'[t] = task[t]
  BY <1>1 DEF RowLife, SameRow
<1>2. CASE WorkerStep
  BY <1>0, <1>2, WorkerLife
<1>3. CASE ControlStep
  BY <1>0, <1>3, ControlLife
<1>4. ASSUME NEW u, NEW s \in {"queued", "failed"}, task[u].status = "waiting_approval",
             task' = [task EXCEPT ![u].status = s]
      PROVE  RowLife(t)
  <2>1. CASE t = u
    <3>1. task'[t].status = s /\ task'[t].step = task[t].step
      BY <1>0, <1>4, <2>1 DEF TaskRow
    <3>2. QED
      BY <1>4, <2>1, <3>1 DEF RowLife, Handed, Edge
  <2>2. CASE t # u
    BY <1>0, <1>1, <1>4, <2>2
  <2>3. QED
    BY <2>1, <2>2
<1>5. CASE ApprovalStep
  BY <1>0, <1>1, <1>4, <1>5, ApprovalWrites
<1>6. CASE TimeStep \/ UNCHANGED vars
  BY <1>1, <1>6 DEF TimeStep, LeaseElapses, ReviewElapses, vars, storeVars
<1>7. QED
  BY <1>2, <1>3, <1>5, <1>6 DEF Next

----------------------------------------------------------------------------
(* Who has won and who is recorded.                                          *)

(* At most one can have won: the records either stay, or the winner is       *)
(* recorded, or a winner that was not recorded is forgotten.                 *)
LEMMA AtMostOneMoves ==
    ASSUME NEW A, NEW B, NEW W, NEW X, A \subseteq W, B \subseteq X, A \subseteq B,
           B \subseteq W, X \subseteq W, \A l, m \in W : l = m
    PROVE  \/ X = W /\ B = A
           \/ W # {} /\ A = {} /\ B = W /\ X = W
           \/ W # {} /\ A = {} /\ B = A /\ X = {}
<1>1. CASE W = {}
  BY <1>1
<1>2. CASE W # {} /\ X = {}
  BY <1>2
<1>3. CASE X # {}
  <2>1. X = W
    BY <1>3
  <2>2. A = {} \/ A = W
    OBVIOUS
  <2>3. B = {} \/ B = W
    OBVIOUS
  <2>4. QED
    BY <1>3, <2>1, <2>2, <2>3
<1>4. QED
  BY <1>1, <1>2, <1>3

(* What a step may do to them. *)
LEMMA WinnersStep ==
    ASSUME RunsInv, [Next]_vars, NEW t \in Tasks
    PROVE  /\ Recorded(t) \subseteq Winners(t) /\ Recorded(t)' \subseteq Winners(t)'
           /\ Recorded(t) \subseteq Recorded(t)' /\ Recorded(t)' \subseteq Winners(t)
           /\ \A l, m \in Winners(t) : l = m
           /\ task[t].status # "succeeded" => Winners(t) = {}
           /\ \A l \in Winners(t)' : \/ l \in Winners(t)
                                     \/ /\ task[t].status = "running" /\ task[t].lease = l
                                        /\ task'[t].status = "succeeded"
<1>0. TypeOK /\ OneWins /\ Unrecorded
  BY DEF RunsInv, LeaseInv
<1>1. Recorded(t) \subseteq Winners(t) /\ Recorded(t)' \subseteq Winners(t)'
  BY DEF Recorded, Winners, Won
<1>2. Recorded(t) \subseteq Recorded(t)'
  BY <1>0, RecKept DEF Recorded
<1>3. Recorded(t)' \subseteq Winners(t)
  BY <1>0, RecMoves DEF Recorded, Winners
<1>4. /\ \A l, m \in Winners(t) : l = m
      /\ task[t].status # "succeeded" => Winners(t) = {}
  BY <1>0 DEF OneWins, Winners
<1>5. \A l \in Winners(t)' : \/ l \in Winners(t)
                             \/ /\ task[t].status = "running" /\ task[t].lease = l
                                /\ task'[t].status = "succeeded"
  BY <1>0, WonMoves DEF Winners
<1>6. QED
  BY <1>1, <1>2, <1>3, <1>4, <1>5

(* Nobody wins a task that does not succeed. *)
LEMMA NobodyWins ==
    ASSUME RunsInv, [Next]_vars, NEW t \in Tasks, task[t].status # "succeeded",
           task'[t].status # "succeeded"
    PROVE  Winners(t)' = Winners(t) /\ Recorded(t)' = Recorded(t)
<1>1. Winners(t) = {} /\ Winners(t)' = {}
  BY WinnersStep
<1>2. QED
  BY <1>1, WinnersStep

----------------------------------------------------------------------------
(* Each of those moves is one of TaskLife, or leaves everything it tells of  *)
(* the task as it was.                                                       *)

LEMMA LifeSpends ==
    ASSUME TypeOK', [Next]_vars, NEW t \in Tasks
    PROVE  Life(t)!Spends
<1>1. used \subseteq used'
  BY UsedGrows
<1>2. used' \subseteq LeaseIds
  BY DEF TypeOK, WorkerTypeOK
<1>3. QED
  BY <1>1, <1>2 DEF Life!Spends

(* A row that keeps its status, lease and progress. *)
LEMMA SameLife ==
    ASSUME RunsInv, [Next]_vars, NEW t \in Tasks, SameRow(task[t], task'[t]), Life(t)!Spends
    PROVE  Life(t)!LifeNext
<1>1. \/ Winners(t)' = Winners(t) /\ Recorded(t)' = Recorded(t)
      \/ /\ Winners(t) # {} /\ Recorded(t) = {} /\ Recorded(t)' = Winners(t)
         /\ Winners(t)' = Winners(t)
      \/ /\ Winners(t) # {} /\ Recorded(t) = {} /\ Recorded(t)' = Recorded(t)
         /\ Winners(t)' = {}
  <2>1. \/ task[t].status # "running" \/ task'[t].status # "succeeded"
    BY DEF SameRow
  <2>2. Winners(t)' \subseteq Winners(t)
    BY <2>1, WinnersStep
  <2>3. PICK A, B, W, X : /\ A = Recorded(t) /\ B = Recorded(t)'
                          /\ W = Winners(t) /\ X = Winners(t)'
    OBVIOUS
  <2>4. /\ A \subseteq W /\ B \subseteq X /\ A \subseteq B /\ B \subseteq W /\ X \subseteq W
        /\ \A l, m \in W : l = m
    BY <2>2, <2>3, WinnersStep
  <2>5. \/ X = W /\ B = A
        \/ W # {} /\ A = {} /\ B = W /\ X = W
        \/ W # {} /\ A = {} /\ B = A /\ X = {}
    BY <2>4, AtMostOneMoves
  <2>6. QED
    BY <2>3, <2>5
<1>2. CASE Winners(t)' = Winners(t) /\ Recorded(t)' = Recorded(t)
  BY <1>2 DEF SameRow, Life!LifeNext
<1>3. CASE /\ Winners(t) # {} /\ Recorded(t) = {} /\ Recorded(t)' = Winners(t)
           /\ Winners(t)' = Winners(t)
  <2>1. Life(t)!Record
    BY <1>3 DEF SameRow, Life!Record
  <2>2. QED
    BY <2>1 DEF Life!LifeNext
<1>4. CASE /\ Winners(t) # {} /\ Recorded(t) = {} /\ Recorded(t)' = Recorded(t)
           /\ Winners(t)' = {}
  <2>1. Life(t)!Forget
    BY <1>4 DEF SameRow, Life!Forget
  <2>2. QED
    BY <2>1 DEF Life!LifeNext
<1>5. QED
  BY <1>1, <1>2, <1>3, <1>4

(* A row whose status is written. *)
LEMMA HandedLife ==
    ASSUME RunsInv, RunsInv', [Next]_vars, NEW t \in Tasks, Handed(task[t], task'[t]),
           Life(t)!Spends
    PROVE  Life(t)!LifeNext
<1>0. /\ task'[t].status # "running" /\ task[t].status # "succeeded"
      /\ task'[t].status # "succeeded"
  BY DEF Handed, Edge, WriteBack, Terminal
<1>1. task'[t].lease = NoLease
  BY <1>0 DEF RunsInv, LeaseInv, LeaseIffRunning
<1>2. Winners(t)' = Winners(t) /\ Recorded(t)' = Recorded(t)
  BY <1>0, NobodyWins
<1>3. Life(t)!Put(task[t].status, task'[t].status)
  BY <1>1, <1>2 DEF Life!Put
<1>4. task'[t].step \in Nat
  BY DEF RunsInv, LeaseInv, TypeOK, StoreTypeOK, TaskRow
<1>5. PICK s, r : s = task[t].status /\ r = task'[t].status
  OBVIOUS
<1>6. Life(t)!Put(s, r) /\ ((Edge(s, r) /\ task'[t].step = task[t].step) \/ WriteBack(s, r))
  BY <1>3, <1>5 DEF Handed
<1>7. CASE WriteBack(s, r)
  <2>1. CASE s \notin Terminal \cup {"absent"} /\ r = "waiting_input"
    <3>1. Life(t)!Escalate
      BY <1>4, <1>5, <1>6, <2>1 DEF Life!Escalate, Life!Over, Terminal
    <3>2. QED
      BY <3>1 DEF Life!LifeNext
  <2>2. CASE s = "waiting_input" /\ r = "queued"
    <3>1. Life(t)!Answer
      BY <1>4, <1>6, <2>2 DEF Life!Answer
    <3>2. QED
      BY <3>1 DEF Life!LifeNext
  <2>3. QED
    BY <1>7, <2>1, <2>2 DEF WriteBack
<1>8. CASE Edge(s, r) /\ task'[t].step = task[t].step
  <2>1. CASE s = "absent" /\ r = "queued"
    <3>1. Life(t)!Create
      BY <1>6, <1>8, <2>1 DEF Life!Create
    <3>2. QED
      BY <3>1 DEF Life!LifeNext
  <2>2. CASE s = "running" /\ r \in {"queued", "failed"}
    <3>1. Life(t)!GiveUp
      BY <1>6, <1>8, <2>2 DEF Life!GiveUp
    <3>2. QED
      BY <3>1 DEF Life!LifeNext
  <2>3. CASE s = "waiting_approval" /\ r \in {"queued", "failed"}
    <3>1. Life(t)!Reconcile
      BY <1>6, <1>8, <2>3 DEF Life!Reconcile
    <3>2. QED
      BY <3>1 DEF Life!LifeNext
  <2>4. CASE s \notin {"absent", "succeeded"} /\ r = "cancelled"
    <3>1. Life(t)!Cancel
      BY <1>5, <1>6, <1>8, <2>4 DEF Life!Cancel
    <3>2. QED
      BY <3>1 DEF Life!LifeNext
  <2>5. CASE s \notin Terminal \cup {"absent", "paused"} /\ r = "paused"
    <3>1. Life(t)!Pause
      BY <1>5, <1>6, <1>8, <2>5 DEF Life!Pause, Life!Over, Terminal
    <3>2. QED
      BY <3>1 DEF Life!LifeNext
  <2>6. CASE s \in {"paused", "failed"} /\ r \in {"queued", "waiting_approval"}
    <3>1. Life(t)!Reopen
      BY <1>6, <1>8, <2>6 DEF Life!Reopen
    <3>2. QED
      BY <3>1 DEF Life!LifeNext
  <2>7. QED
    BY <1>8, <2>1, <2>2, <2>3, <2>4, <2>5, <2>6 DEF Edge
<1>9. QED
  BY <1>6, <1>7, <1>8

(* A claim, and the checkpoints of the run that holds the row. *)
LEMMA OwnerLife ==
    ASSUME RunsInv, RunsInv', [Next]_vars, NEW t \in Tasks, NEW w \in Workers,
           \/ Claim(w, t)
           \/ (Checkpoint(w, t) \/ Commit(w, t)) /\ CheckpointPasses(w, t),
           Life(t)!Spends
    PROVE  Life(t)!LifeNext
<1>0. TypeOK /\ Fenced /\ LeaseIffRunning /\ LeaseIffRunning' /\ task[t] \in TaskRow
  BY DEF RunsInv, LeaseInv, TypeOK, StoreTypeOK
<1>1. CASE Claim(w, t)
  <2>1. /\ task[t].status \in {"queued", "running", "waiting_approval"}
        /\ task'[t].status = "running"
    BY <1>0, <1>1, ClaimStatus
  <2>2. task'[t].lease \in (LeaseIds \ used) \cap used' /\ task'[t].step = task[t].step
    BY <1>0, <1>1, ClaimFacts
  <2>3. Winners(t)' = Winners(t) /\ Recorded(t)' = Recorded(t)
    BY <2>1, NobodyWins
  <2>4. Life(t)!Take
    BY <2>1, <2>2, <2>3 DEF Life!Take
  <2>5. QED
    BY <2>4 DEF Life!LifeNext
<1>2. CASE Checkpoint(w, t) /\ CheckpointPasses(w, t)
  <2>1. task[t].status = "running" /\ task'[t].status = "running"
    BY <1>0, <1>2, CheckpointStatus
  <2>2. task'[t].step = run[w][t].step + 1 /\ task'[t].lease = task[t].lease
    BY <1>0, <1>2, CheckpointFacts
  <2>3. run[w][t].step = task[t].step
    BY <1>0, <1>2 DEF Fenced, CheckpointPasses
  <2>4. Winners(t)' = Winners(t) /\ Recorded(t)' = Recorded(t)
    BY <2>1, NobodyWins
  <2>5. Life(t)!Advance
    BY <2>1, <2>2, <2>3, <2>4 DEF Life!Advance
  <2>6. QED
    BY <2>5 DEF Life!LifeNext
<1>3. CASE Commit(w, t) /\ CheckpointPasses(w, t)
  <2>1. /\ task[t].status = "running" /\ task[t].lease = run[w][t].lease
        /\ task'[t].status = run[w][t].result
        /\ run'[w][t].lease = run[w][t].lease /\ run'[w][t].result = run[w][t].result
    BY <1>0, <1>3, CommitFacts
  <2>2. /\ run'[w][t].pc = "meta" /\ run[w][t].result \in Results
        /\ task'[t].step = task[t].step
    BY <1>0, <1>3, CommitStatus
  <2>3. task'[t].lease = NoLease
    BY <1>0, <2>1, <2>2 DEF Results, LeaseIffRunning
  <2>4. CASE task'[t].status = "succeeded"
    <3>1. PICK l \in LeaseIds : l = task[t].lease
      BY <1>0, <2>1 DEF LeaseIffRunning, TaskRow
    <3>2. Won(t, l)'
      BY <2>1, <2>2, <2>4, <3>1 DEF Won
    <3>3. l \in Winners(t)'
      BY <3>2 DEF Winners
    <3>4. Winners(t) = {}
      BY <2>1, WinnersStep
    <3>5. Recorded(t)' = {} /\ Recorded(t) = {}
      BY <3>4, WinnersStep
    <3>6. Winners(t)' = {task[t].lease}
      BY <3>1, <3>3, <3>4, WinnersStep
    <3>7. Life(t)!Complete
      BY <2>1, <2>2, <2>3, <2>4, <3>5, <3>6 DEF Life!Complete
    <3>8. QED
      BY <3>7 DEF Life!LifeNext
  <2>5. CASE task'[t].status # "succeeded"
    <3>1. Winners(t)' = Winners(t) /\ Recorded(t)' = Recorded(t)
      BY <2>1, <2>5, NobodyWins
    <3>2. PICK r : r = task'[t].status /\ r \in {"waiting_input", "waiting_approval"}
      BY <2>1, <2>2, <2>5 DEF Results
    <3>3. Life(t)!Put("running", r)
      BY <2>1, <2>3, <3>1, <3>2 DEF Life!Put
    <3>4. Life(t)!GiveUp
      BY <2>2, <3>2, <3>3 DEF Life!GiveUp
    <3>5. QED
      BY <3>4 DEF Life!LifeNext
  <2>6. QED
    BY <2>4, <2>5
<1>4. QED
  BY <1>1, <1>2, <1>3

(* Every step of the engine is a step in the life of each task. *)
LEMMA LifeStep ==
    ASSUME RunsInv, RunsInv', [Next]_vars, NEW t \in Tasks
    PROVE  Life(t)!LifeNext
<1>1. LeaseInv /\ TypeOK'
  BY DEF RunsInv, LeaseInv
<1>2. Life(t)!Spends
  BY <1>1, LifeSpends
<1>3. RowLife(t)
  BY <1>1, AllLife
<1>4. CASE SameRow(task[t], task'[t])
  BY <1>2, <1>4, SameLife
<1>5. CASE Handed(task[t], task'[t])
  BY <1>2, <1>5, HandedLife
<1>6. ASSUME NEW w \in Workers,
             Claim(w, t) \/ ((Checkpoint(w, t) \/ Commit(w, t)) /\ CheckpointPasses(w, t))
      PROVE  Life(t)!LifeNext
  BY <1>2, <1>6, OwnerLife
<1>7. QED
  BY <1>3, <1>4, <1>5, <1>6 DEF RowLife

(* Whatever the processes, timers, requests, approvals and crashes do, each  *)
(* task lives the life of TaskLife: every step of run(), control,            *)
(* escalateTask, answer, reconcile and boot recovery is one of its moves or  *)
(* none.                                                                     *)
THEOREM EngineImplementsLife == Spec => ImplementsLife
<1>1. Init => \A t \in Tasks : Life(t)!LifeInit
  <2> SUFFICES ASSUME Init, NEW t \in Tasks PROVE Life(t)!LifeInit
    OBVIOUS
  <2>1. task[t].status = "absent" /\ task[t].lease = NoLease /\ task[t].step = 0 /\ used = {}
    BY DEF Init, StoreInit, WorkerInit
  <2>2. \A l \in LeaseIds : runRec[t][l] # "succeeded"
    BY DEF Init, WorkerInit
  <2>3. \A w \in Workers : run[w][t].pc # "meta"
    BY DEF Init, WorkerInit, OffRun
  <2>4. Winners(t) = {} /\ Recorded(t) = {}
    BY <2>2, <2>3 DEF Winners, Recorded, Won
  <2>5. QED
    BY <2>1, <2>4 DEF Life!LifeInit
<1>2. RunsInv /\ RunsInv' /\ [Next]_vars =>
         [\A t \in Tasks : [Life(t)!LifeNext]_(Life(t)!lifeVars)]_vars
  BY LifeStep
<1>3. QED
  BY <1>1, <1>2, RunsInvariant, PTL DEF Spec, ImplementsLife
============================================================================
