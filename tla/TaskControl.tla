---------------------------- MODULE TaskControl ----------------------------
(* The requests of apps/server/src/engine/service.ts that change a task:     *)
(* createTask, control (pause, resume, cancel, retry), escalateTask and      *)
(* answer.  Each reads the row, decides, and writes by compareAndSwap on the *)
(* status and lease it read, so another actor may act in between.            *)
EXTENDS TaskWorker

CONSTANTS
    Requests,       \* requests that can be in flight at once
    Offered         \* the operations the users of the instance ask for

VARIABLE req            \* what an in-flight request has read

controlVars == <<req>>

Ops == {"pause", "resume", "cancel", "retry", "escalate", "answer"}

ASSUME OfferedAssumption == Offered \subseteq Ops

(* "cas": the row was read and the guards passed; "deny": cancelled, the     *)
(* linked proposal still has to be denied.                                   *)
Idle == [pc |-> "idle"]

Request == {Idle} \cup [pc : {"cas", "deny"}, op : Ops, t : Tasks,
                            row : [status : TaskStatus, lease : LeaseIds \cup {NoLease},
                                   action : Actions \cup {NoAction}, step : Nat]]

ControlTypeOK == req \in [Requests -> Request]

ControlInit == req = [u \in Requests |-> Idle]

(* createTask: insertIfAbsent; a second call with the key finds the row. *)
CreateTask(t) ==
    /\ task[t].status = "absent"
    /\ task' = [task EXCEPT ![t].status = "queued"]
    /\ UNCHANGED <<action, elapsed, workerVars, controlVars>>

(* Mutant of Admits: cancel does not look at the status. *)
Admits_CancelAny(op, row) ==
    CASE op = "cancel"   -> row.status # "absent"
      [] op \in {"retry", "resume"} -> row.status \in {"failed", "paused"}
      [] op \in {"pause", "escalate"} -> row.status \notin Terminal \cup {"absent"}
      [] op = "answer"   -> row.status = "waiting_input" /\ ~row.escalated

(* The early returns and errors of the request, on the row as read. *)
Admits(op, row) ==
    CASE op = "cancel"   -> row.status \notin {"absent", "succeeded"}
      [] op = "retry"    -> /\ row.status = "failed"
                            /\ row.action # NoAction =>
                                 action[row.action].status \in {"absent", "succeeded"}
      [] op = "resume"   -> row.status = "paused"
      [] op = "pause"    -> row.status \notin Terminal \cup {"absent", "paused"}
      [] op = "escalate" -> row.status \notin Terminal \cup {"absent"}
      [] op = "answer"   -> row.status = "waiting_input" /\ ~row.escalated

(* What the rest of the request uses of the row it read: `state` is written *)
(* back by escalateTask and answer only.                                     *)
Kept(op, row) ==
    [status |-> row.status, lease |-> row.lease, action |-> row.action,
     step |-> IF op \in {"escalate", "answer"} THEN row.step ELSE 0]

ReadTask(u, op, t) ==
    /\ req[u].pc = "idle" /\ Admits(op, task[t])
    /\ req' = [req EXCEPT ![u] = [pc |-> "cas", op |-> op, t |-> t,
                                     row |-> Kept(op, task[t])]]
    /\ UNCHANGED <<storeVars, workerVars>>

(* Mutant of Written: the name of the request is written as the status. *)
Written_NoSuchStatus(op, read, now) == Released(now, op)

(* The row the request writes.  escalateTask and answer also write back the  *)
(* `state` they read, and answer returns an escalated task to its owner.     *)
Written(op, read, now) ==
    CASE op = "cancel"   -> Released(now, "cancelled")
      [] op = "pause"    -> Released(now, "paused")
      [] op \in {"resume", "retry"} ->
            Released(now, IF read.action # NoAction THEN "waiting_approval" ELSE "queued")
      [] op = "escalate" -> [Released(now, "waiting_input") EXCEPT
                                !.step = read.step, !.escalated = TRUE]
      [] op = "answer"   -> [now EXCEPT !.status = "queued",
                                !.step = read.step, !.escalated = FALSE]

(* compareAndSwap's precondition: {status, leaseId}, for answer {status}. *)
StillAsRead(r) ==
    /\ task[r.t].status = r.row.status
    /\ r.op # "answer" => task[r.t].lease = r.row.lease

(* The swap wins; then worker.abort(id), which reaches only a handler of the *)
(* process that serves the request, if that process runs one.                *)
Apply(u) ==
    /\ req[u].pc = "cas" /\ StillAsRead(req[u])
    /\ LET r == req[u] IN
       /\ task' = [task EXCEPT ![r.t] = Written(r.op, r.row, @)]
       /\ elapsed' = elapsed \ {r.t}
       /\ \/ UNCHANGED run
          \/ r.op # "answer" /\ \E w \in Workers : run' = Aborting(w, {r.t})
       /\ req' = [req EXCEPT ![u] = IF r.op = "cancel" /\ r.row.action # NoAction
                                    THEN [r EXCEPT !.pc = "deny"] ELSE Idle]
    /\ UNCHANGED <<action, proc, seen, rejected, used, runRec, dlq, notified, exits>>

(* The swap loses: 409, refresh and try again. *)
Conflict(u) ==
    /\ req[u].pc = "cas" /\ ~StillAsRead(req[u])
    /\ req' = [req EXCEPT ![u] = Idle]
    /\ UNCHANGED <<storeVars, workerVars>>

(* cancel: deny the proposal the task carried when the request read it. *)
DenyCancelled(u) ==
    /\ req[u].pc = "deny"
    /\ Deny(req[u].row.action, action[req[u].row.action].content)
    /\ req' = [req EXCEPT ![u] = Idle]
    /\ UNCHANGED <<task, elapsed, workerVars>>

(* The process serving the request dies before the next step. *)
Dropped(u) ==
    /\ req[u].pc # "idle"
    /\ req' = [req EXCEPT ![u] = Idle]
    /\ UNCHANGED <<storeVars, workerVars>>

ControlNext ==
    \/ \E t \in Tasks : CreateTask(t)
    \/ \E u \in Requests :
          \/ \E op \in Offered, t \in Tasks : ReadTask(u, op, t)
          \/ Apply(u) \/ Conflict(u) \/ DenyCancelled(u) \/ Dropped(u)
============================================================================
