----------------------------- MODULE TaskWorker -----------------------------
(* apps/server/src/engine/worker.ts: the durable task runtime.  Several      *)
(* processes poll the shared rows, claim a due task by compareAndSwap under  *)
(* a fresh lease, run its handler under a heartbeat, and write back only     *)
(* through compareAndSwap on {leaseId, status: "running"}.                   *)
(*                                                                           *)
(* The handler (AgentService.execute and the executors it calls) is every    *)
(* sequence of the calls it makes on its TaskContext: guard, checkpoint,     *)
(* prepare, return of a result, throw.  Tasks are of the kinds sop,          *)
(* document, finance and model; monitors are not modelled here.              *)
EXTENDS EngineStore

CONSTANTS
    Workers,        \* processes that run a TaskWorker
    MaxSteps,       \* bound: progress checkpoints of one task
    MaxRenewals,    \* bound: heartbeats of one lease
    MaxExits,       \* bound: crashes and shutdowns of all processes together
    StoreErrors     \* whether a statement of run() itself may throw

ASSUME WorkerAssumption ==
    /\ MaxSteps \in Nat /\ MaxRenewals \in Nat /\ MaxExits \in Nat
    /\ StoreErrors \in BOOLEAN

VARIABLES
    proc,           \* "up", "stopping" or "down"
    seen,           \* rows a tick has read and is about to claim
    rejected,       \* the tick's Promise.all rejected: ticking is false again
    run,            \* the handler of task t in process w, as run() keeps it
    used,           \* lease ids already drawn
    runRec,         \* the "runs" records, by task and lease
    dlq,            \* tasks with a dead-letter entry
    notified,       \* tasks whose completion has been notified (task-done key)
    exits

workerVars == <<proc, seen, rejected, run, used, runRec, dlq, notified, exits>>

NoRow == [status |-> "none", lease |-> NoLease, until |-> 0]

SeenRow == [status : {"none", "queued", "running", "waiting_approval"},
            lease  : LeaseIds \cup {NoLease},
            until  : Nat]

(* pc: off; claimed (claim won, run record not yet put); leaked (that put    *)
(* threw, so `active` keeps the task); begin, linked, unlink, work, proposed,*)
(* undo (inside execute); commit (final checkpoint); meta (run record);      *)
(* lost, error, dlq, close (the catch block); settle (after finally).        *)
PC == {"off", "claimed", "leaked", "begin", "linked", "unlink", "work", "proposed",
       "undo", "commit", "meta", "lost", "error", "dlq", "close", "settle"}

InExecute == {"begin", "linked", "unlink", "work", "proposed", "undo"}

(* The heartbeat interval runs from after the put until the finally block. *)
Beating == InExecute \cup {"commit", "meta", "lost", "error", "dlq", "close"}

(* `active` holds the task from the claim until the finally block. *)
Active == Beating \cup {"claimed", "leaked"}

Results == {"succeeded", "waiting_input", "waiting_approval"}

RunRow == [pc      : PC,
           lease   : LeaseIds \cup {NoLease},
           aborted : BOOLEAN,                     \* controller.signal.aborted
           fresh   : BOOLEAN,                     \* guard cache younger than 100 ms
           action  : Actions \cup {NoAction},     \* task.actionId, or the proposal in hand
           hash    : Contents \cup {NoContent},   \* of a proposal awaiting review
           result  : Results \cup {"none"},
           step    : Nat]                         \* progress in the local `task`

(* The final checkpoint has the handler's result to write. *)
Run == {r \in RunRow : r.pc = "commit" => r.result \in Results}

OffRun == [pc |-> "off", lease |-> NoLease, aborted |-> FALSE, fresh |-> FALSE,
           action |-> NoAction, hash |-> NoContent, result |-> "none", step |-> 0]

RunStatus == {"none", "running", "paused", "failed"} \cup Results

WorkerTypeOK ==
    /\ proc \in [Workers -> {"up", "stopping", "down"}]
    /\ seen \in [Workers -> [Tasks -> SeenRow]]
    /\ rejected \in [Workers -> BOOLEAN]
    /\ run \in [Workers -> [Tasks -> Run]]
    /\ used \subseteq LeaseIds
    /\ runRec \in [Tasks -> [LeaseIds -> RunStatus]]
    /\ dlq \subseteq Tasks
    /\ notified \subseteq Tasks
    /\ exits \in Nat

WorkerInit ==
    /\ proc = [w \in Workers |-> "up"]
    /\ seen = [w \in Workers |-> [t \in Tasks |-> NoRow]]
    /\ rejected = [w \in Workers |-> FALSE]
    /\ run = [w \in Workers |-> [t \in Tasks |-> OffRun]]
    /\ used = {}
    /\ runRec = [t \in Tasks |-> [l \in LeaseIds |-> "none"]]
    /\ dlq = {}
    /\ notified = {}
    /\ exits = 0

----------------------------------------------------------------------------
(* What run() tests. *)

(* Mutant of Holds: the precondition does not name the lease. *)
Holds_AnyLease(w, t) == task[t].status = "running"

(* compareAndSwap's precondition {leaseId, status: "running"} *)
Holds(w, t) == task[t].lease = run[w][t].lease /\ task[t].status = "running"

(* guard(): not aborted, and the cache is warm or the row is still ours. *)
GuardPasses(w, t) == ~run[w][t].aborted /\ (run[w][t].fresh \/ Holds(w, t))
GuardFails(w, t) == run[w][t].aborted \/ ~Holds(w, t)

(* Mutant of CheckpointPasses: a plain put, once the signal was looked at. *)
CheckpointPasses_Put(w, t) == ~run[w][t].aborted

(* checkpoint(): aborts first, then lets the compareAndSwap decide. *)
CheckpointPasses(w, t) == ~run[w][t].aborted /\ Holds(w, t)

At(w, t, pc) == proc[w] # "down" /\ run[w][t].pc = pc
Goto(w, t, pc) == run' = [run EXCEPT ![w][t].pc = pc]

(* The tick in progress has rows to claim or runs to await: tick() returns   *)
(* at once while `ticking`, and awaits every run it started.                 *)
Ticking(w) ==
    /\ ~rejected[w]
    /\ \E t \in Tasks : seen[w][t] # NoRow \/ run[w][t].pc \notin {"off", "leaked"}

(* Mutants of Due: expired leases, or unsuccessful proposals, are overlooked. *)
Due_NoExpiredLease(w, t) ==
    run[w][t].pc \notin Active /\ task[t].status \in {"queued", "waiting_approval"}
Due_OnlyCarried(w, t) ==
    /\ run[w][t].pc \notin Active
    /\ \/ task[t].status = "queued"
       \/ task[t].status = "running" /\ t \in elapsed
       \/ /\ task[t].status = "waiting_approval" /\ task[t].action # NoAction
          /\ action[task[t].action].status = "succeeded"

(* The due filter of tick(), with the look at the linked proposal. *)
Due(w, t) ==
    /\ run[w][t].pc \notin Active
    /\ \/ task[t].status = "queued"
       \/ task[t].status = "running" /\ t \in elapsed
       \/ /\ task[t].status = "waiting_approval"
          /\ LET a == task[t].action IN
                a # NoAction =>
                   \/ action[a].status \notin {"awaiting_review", "executing"}
                   \/ action[a].status = "awaiting_review" /\ a \in elapsed

----------------------------------------------------------------------------
(* tick(): scan, filter, expire the overdue reviews, hand the rows to run(). *)
Tick(w) ==
    /\ proc[w] = "up" /\ ~Ticking(w)
    /\ \E t \in Tasks : Due(w, t)
    /\ seen' = [seen EXCEPT ![w] = [t \in Tasks |->
                  IF Due(w, t)
                  THEN [status |-> task[t].status, lease |-> task[t].lease,
                        until |-> task[t].until]
                  ELSE seen[w][t]]]
    /\ action' = [a \in Actions |->
                    IF /\ \E t \in Tasks : Due(w, t) /\ task[t].status = "waiting_approval"
                                           /\ task[t].action = a
                       /\ action[a].status = "awaiting_review"
                    THEN [action[a] EXCEPT !.status = "expired"]
                    ELSE action[a]]
    /\ rejected' = [rejected EXCEPT ![w] = FALSE]
    /\ UNCHANGED <<task, elapsed, proc, run, used, runRec, dlq, notified, exits>>

(* The claim's compareAndSwap sees the row the tick read. *)
Unchanged(w, t) ==
    /\ task[t].status = seen[w][t].status
    /\ task[t].lease = seen[w][t].lease
    /\ seen[w][t].status = "running" => task[t].until = seen[w][t].until

(* run(): the claim wins. *)
Claim(w, t) ==
    /\ proc[w] # "down" /\ seen[w][t] # NoRow /\ Unchanged(w, t)
    /\ \E l \in LeaseIds \ used :
          /\ task' = [task EXCEPT ![t].status = "running", ![t].lease = l, ![t].until = 0]
          /\ used' = used \cup {l}
          /\ run' = [run EXCEPT ![w][t] =
                       [OffRun EXCEPT !.pc = "claimed", !.lease = l,
                                      !.action = task[t].action, !.step = task[t].step]]
    /\ elapsed' = elapsed \ {t}
    /\ seen' = [seen EXCEPT ![w][t] = NoRow]
    /\ UNCHANGED <<action, proc, rejected, runRec, dlq, notified, exits>>

(* run(): the process is stopping, or another writer was first; return. *)
ClaimLoses(w, t) ==
    /\ proc[w] # "down" /\ seen[w][t] # NoRow
    /\ proc[w] = "stopping" \/ ~Unchanged(w, t)
    /\ seen' = [seen EXCEPT ![w][t] = NoRow]
    /\ UNCHANGED <<storeVars, proc, rejected, run, used, runRec, dlq, notified, exits>>

(* run(): put the run record and start the heartbeat and the handler. *)
StartRun(w, t) ==
    /\ At(w, t, "claimed")
    /\ runRec' = [runRec EXCEPT ![t][run[w][t].lease] = "running"]
    /\ Goto(w, t, "begin")
    /\ UNCHANGED <<storeVars, proc, seen, rejected, used, dlq, notified, exits>>

(* That put is outside the try: when it throws, run() rejects, the tick ends *)
(* and nobody removes the task from `active`.                                *)
StartRunThrows(w, t) ==
    /\ StoreErrors /\ At(w, t, "claimed")
    /\ Goto(w, t, "leaked")
    /\ rejected' = [rejected EXCEPT ![w] = TRUE]
    /\ UNCHANGED <<storeVars, proc, seen, used, runRec, dlq, notified, exits>>

----------------------------------------------------------------------------
(* Inside execute(): AgentService.execute, prepare and finish. *)

(* A ctx.guard() of the handler (its own, or the one in ctx.event) sees that *)
(* the run was aborted or no longer holds the row: LostLeaseError.           *)
NoticeLost(w, t) ==
    /\ \E pc \in {"begin", "linked", "work"} : At(w, t, pc)
    /\ GuardFails(w, t)
    /\ Goto(w, t, "lost")
    /\ UNCHANGED <<storeVars, proc, seen, rejected, used, runRec, dlq, notified, exits>>

(* The first ctx.event; a task that carries an actionId looks at it next. *)
Begin(w, t) ==
    /\ At(w, t, "begin") /\ GuardPasses(w, t)
    /\ run' = [run EXCEPT ![w][t].fresh = TRUE,
                          ![w][t].pc = IF run[w][t].action = NoAction THEN "work" ELSE "linked"]
    /\ UNCHANGED <<storeVars, proc, seen, rejected, used, runRec, dlq, notified, exits>>

(* A further guard, or ctx.event, of the executor fills the guard's cache. *)
Guard(w, t) ==
    /\ At(w, t, "work") /\ GuardPasses(w, t) /\ ~run[w][t].fresh
    /\ run' = [run EXCEPT ![w][t].fresh = TRUE]
    /\ UNCHANGED <<storeVars, proc, seen, rejected, used, runRec, dlq, notified, exits>>

(* The linked proposal is still pending: wait again. *)
StillPending(w, t) ==
    /\ At(w, t, "linked")
    /\ action[run[w][t].action].status \in {"awaiting_review", "executing"}
    /\ run' = [run EXCEPT ![w][t].pc = "commit", ![w][t].result = "waiting_approval"]
    /\ UNCHANGED <<storeVars, proc, seen, rejected, used, runRec, dlq, notified, exits>>

(* It was carried out: a document task finishes, any other consumes it. *)
Carried(w, t) ==
    /\ At(w, t, "linked") /\ GuardPasses(w, t)
    /\ action[run[w][t].action].status = "succeeded"
    /\ \/ run' = [run EXCEPT ![w][t].pc = "commit", ![w][t].result = "succeeded"]
       \/ Goto(w, t, "unlink")
    /\ UNCHANGED <<storeVars, proc, seen, rejected, used, runRec, dlq, notified, exits>>

(* It was denied, expired, cancelled, failed or is of unknown outcome: throw. *)
NotCarried(w, t) ==
    /\ At(w, t, "linked")
    /\ action[run[w][t].action].status \notin {"awaiting_review", "executing", "succeeded"}
    /\ Goto(w, t, "error")
    /\ UNCHANGED <<storeVars, proc, seen, rejected, used, runRec, dlq, notified, exits>>

(* checkpoint({actionId: null, approvalResult}) *)
Unlink(w, t) ==
    /\ At(w, t, "unlink")
    /\ IF CheckpointPasses(w, t)
       THEN /\ task' = [task EXCEPT ![t].action = NoAction]
            /\ run' = [run EXCEPT ![w][t].pc = "work", ![w][t].fresh = FALSE,
                                  ![w][t].action = NoAction]
       ELSE Goto(w, t, "lost") /\ UNCHANGED task
    /\ UNCHANGED <<action, elapsed, proc, seen, rejected, used, runRec, dlq, notified, exits>>

(* Mutant of Checkpoint: the swap compares the status only. *)
Checkpoint_LeaseBlind(w, t) ==
    /\ At(w, t, "work") /\ run[w][t].step < MaxSteps
    /\ IF ~run[w][t].aborted /\ task[t].status = "running"
       THEN /\ task' = [task EXCEPT ![t].step = run[w][t].step + 1]
            /\ run' = [run EXCEPT ![w][t].step = @ + 1, ![w][t].fresh = FALSE]
       ELSE Goto(w, t, "lost") /\ UNCHANGED task
    /\ UNCHANGED <<action, elapsed, proc, seen, rejected, used, runRec, dlq, notified, exits>>

(* checkpoint({state, ...}): progress is written from the local copy. *)
Checkpoint(w, t) ==
    /\ At(w, t, "work") /\ run[w][t].step < MaxSteps
    /\ IF CheckpointPasses(w, t)
       THEN /\ task' = [task EXCEPT ![t].step = run[w][t].step + 1]
            /\ run' = [run EXCEPT ![w][t].step = @ + 1, ![w][t].fresh = FALSE]
       ELSE Goto(w, t, "lost") /\ UNCHANGED task
    /\ UNCHANGED <<action, elapsed, proc, seen, rejected, used, runRec, dlq, notified, exits>>

(* The executor throws an ordinary error. *)
Throw(w, t) ==
    /\ At(w, t, "work")
    /\ Goto(w, t, "error")
    /\ UNCHANGED <<storeVars, proc, seen, rejected, used, runRec, dlq, notified, exits>>

(* The executor asks the user, or finish() passes its guard and returns. *)
Return(w, t) ==
    /\ At(w, t, "work")
    /\ \E r \in {"succeeded", "waiting_input"} :
          /\ r = "succeeded" => GuardPasses(w, t)
          /\ run' = [run EXCEPT ![w][t].pc = "commit", ![w][t].result = r]
    /\ UNCHANGED <<storeVars, proc, seen, rejected, used, runRec, dlq, notified, exits>>

(* Mutant of Prepare: propose() returns a proposal that it did not insert. *)
Prepare_Unsaved(w, t) ==
    /\ At(w, t, "work") /\ GuardPasses(w, t)
    /\ \E k \in Keys :
          run' = [run EXCEPT ![w][t].pc = "proposed", ![w][t].action = <<t, k>>,
                             ![w][t].hash = FirstContent]
    /\ UNCHANGED <<storeVars, proc, seen, rejected, used, runRec, dlq, notified, exits>>

(* prepare(): guard, then propose(), which inserts the proposal or returns   *)
(* the one that already exists under the same key.                           *)
Prepare(w, t) ==
    /\ At(w, t, "work") /\ GuardPasses(w, t)
    /\ \E k \in Keys :
          LET a == <<t, k>>
              row == IF action[a].status = "absent"
                     THEN [status |-> "awaiting_review", content |-> FirstContent]
                     ELSE action[a]
          IN  /\ action' = [action EXCEPT ![a] = row]
              /\ run' = [run EXCEPT ![w][t].pc = "proposed", ![w][t].action = a,
                            ![w][t].hash = IF row.status = "awaiting_review"
                                           THEN row.content ELSE NoContent]
    /\ UNCHANGED <<task, elapsed, proc, seen, rejected, used, runRec, dlq, notified, exits>>

(* prepare(): checkpoint({actionId}), after which the executor waits. *)
Link(w, t) ==
    /\ At(w, t, "proposed")
    /\ IF CheckpointPasses(w, t)
       THEN /\ task' = [task EXCEPT ![t].action = run[w][t].action]
            /\ run' = [run EXCEPT ![w][t].pc = "commit", ![w][t].fresh = FALSE,
                                  ![w][t].result = "waiting_approval"]
       ELSE /\ Goto(w, t, IF run[w][t].hash # NoContent THEN "undo" ELSE "lost")
            /\ UNCHANGED task
    /\ UNCHANGED <<action, elapsed, proc, seen, rejected, used, runRec, dlq, notified, exits>>

(* prepare(): the checkpoint failed, so the proposal is denied. *)
Undo(w, t) ==
    /\ At(w, t, "undo")
    /\ Deny(run[w][t].action, run[w][t].hash)
    /\ Goto(w, t, "lost")
    /\ UNCHANGED <<task, elapsed, proc, seen, rejected, used, runRec, dlq, notified, exits>>

----------------------------------------------------------------------------
(* After execute(): the final checkpoint, or the catch block. *)

Commit(w, t) ==
    /\ At(w, t, "commit")
    /\ IF CheckpointPasses(w, t)
       THEN /\ task' = [task EXCEPT ![t] = [Released(@, run[w][t].result) EXCEPT
                            !.action = IF run[w][t].result = "waiting_approval"
                                       THEN run[w][t].action ELSE task[t].action]]
            /\ elapsed' = elapsed \ {t}
            /\ Goto(w, t, "meta")
       ELSE Goto(w, t, "lost") /\ UNCHANGED <<task, elapsed>>
    /\ UNCHANGED <<action, proc, seen, rejected, used, runRec, dlq, notified, exits>>

(* put the finished run record; finally. *)
FinishMeta(w, t) ==
    /\ At(w, t, "meta")
    /\ runRec' = [runRec EXCEPT ![t][run[w][t].lease] = run[w][t].result]
    /\ Goto(w, t, "settle")
    /\ UNCHANGED <<storeVars, proc, seen, rejected, used, dlq, notified, exits>>

(* The final checkpoint, or the put that follows it, throws: catch. *)
CommitThrows(w, t) ==
    /\ StoreErrors /\ (At(w, t, "commit") \/ At(w, t, "meta"))
    /\ Goto(w, t, "error")
    /\ UNCHANGED <<storeVars, proc, seen, rejected, used, runRec, dlq, notified, exits>>

(* Mutant of Requeue: the task is put back without a swap. *)
Requeue_Put(w, t) ==
    /\ At(w, t, "lost") \/ (At(w, t, "error") /\ run[w][t].aborted)
    /\ task' = [task EXCEPT ![t] = Released(@, "queued")]
    /\ elapsed' = elapsed \ {t}
    /\ Goto(w, t, "close")
    /\ UNCHANGED <<action, proc, seen, rejected, used, runRec, dlq, notified, exits>>

(* catch, LostLeaseError or aborted: give the task back if it is still ours. *)
Requeue(w, t) ==
    /\ At(w, t, "lost") \/ (At(w, t, "error") /\ run[w][t].aborted)
    /\ IF Holds(w, t)
       THEN /\ task' = [task EXCEPT ![t] = Released(@, "queued")]
            /\ elapsed' = elapsed \ {t}
       ELSE UNCHANGED <<task, elapsed>>
    /\ Goto(w, t, "close")
    /\ UNCHANGED <<action, proc, seen, rejected, used, runRec, dlq, notified, exits>>

(* catch, any other error: the task fails if it is still ours. *)
Fail(w, t) ==
    /\ At(w, t, "error") /\ ~run[w][t].aborted
    /\ IF Holds(w, t)
       THEN /\ task' = [task EXCEPT ![t] = Released(@, "failed")]
            /\ elapsed' = elapsed \ {t}
            /\ Goto(w, t, "dlq")
       ELSE Goto(w, t, "close") /\ UNCHANGED <<task, elapsed>>
    /\ UNCHANGED <<action, proc, seen, rejected, used, runRec, dlq, notified, exits>>

(* DeadLetterQueue.enqueue: one entry per task, kept if it exists; what it   *)
(* throws is only logged.                                                    *)
DeadLetter(w, t) ==
    /\ At(w, t, "dlq")
    /\ dlq' = dlq \cup {t} \/ (StoreErrors /\ UNCHANGED dlq)
    /\ Goto(w, t, "close")
    /\ UNCHANGED <<storeVars, proc, seen, rejected, used, runRec, notified, exits>>

(* catch: close the run record if it still says running; finally. *)
CloseRun(w, t) ==
    /\ At(w, t, "close")
    /\ LET l == run[w][t].lease IN
       runRec' = IF runRec[t][l] = "running"
                 THEN [runRec EXCEPT ![t][l] = IF run[w][t].aborted THEN "paused" ELSE "failed"]
                 ELSE runRec
    /\ Goto(w, t, "settle")
    /\ UNCHANGED <<storeVars, proc, seen, rejected, used, dlq, notified, exits>>

(* Mutant of Settle: the finally block forgets active.delete. *)
Settle_KeepsActive(w, t) ==
    /\ At(w, t, "settle")
    /\ notified' = IF task[t].status = "succeeded" THEN notified \cup {t} ELSE notified
    /\ Goto(w, t, "leaked")
    /\ UNCHANGED <<storeVars, proc, seen, rejected, used, runRec, dlq, exits>>

(* settled(): publishOutcome of the row as it is now; run() returns. *)
Settle(w, t) ==
    /\ At(w, t, "settle")
    /\ notified' = IF task[t].status = "succeeded" THEN notified \cup {t} ELSE notified
    /\ run' = [run EXCEPT ![w][t] = OffRun]
    /\ UNCHANGED <<storeVars, proc, seen, rejected, used, runRec, dlq, exits>>

(* A statement of the catch block, or the read of settled, throws: finally   *)
(* still empties `active`, and the tick rejects.                             *)
CatchThrows(w, t) ==
    /\ StoreErrors /\ \E pc \in {"lost", "error", "close", "settle"} : At(w, t, pc)
    /\ run' = [run EXCEPT ![w][t] = OffRun]
    /\ rejected' = [rejected EXCEPT ![w] = TRUE]
    /\ UNCHANGED <<storeVars, proc, seen, used, runRec, dlq, notified, exits>>

----------------------------------------------------------------------------
(* Timers and the life of the process. *)

(* The heartbeat drops the guard cache and renews the lease; it aborts the   *)
(* run when the row is no longer its own, or when the statement throws.      *)
Heartbeat(w, t) ==
    /\ \E pc \in Beating : At(w, t, pc)
    /\ \/ /\ Holds(w, t) /\ task[t].until < MaxRenewals
          /\ task' = [task EXCEPT ![t].until = @ + 1]
          /\ elapsed' = elapsed \ {t}
          /\ run' = [run EXCEPT ![w][t].fresh = FALSE]
       \/ /\ ~Holds(w, t) \/ StoreErrors
          /\ run' = [run EXCEPT ![w][t].fresh = FALSE, ![w][t].aborted = TRUE]
          /\ UNCHANGED <<task, elapsed>>
    /\ UNCHANGED <<action, proc, seen, rejected, used, runRec, dlq, notified, exits>>

(* TASK_TIMEOUT_MS aborts a run that is inside execute(). *)
TaskTimeout(w, t) ==
    /\ \E pc \in InExecute : At(w, t, pc)
    /\ ~run[w][t].aborted
    /\ run' = [run EXCEPT ![w][t].aborted = TRUE]
    /\ UNCHANGED <<storeVars, proc, seen, rejected, used, runRec, dlq, notified, exits>>

(* The handlers of process w for the tasks in ts, aborted: abort(taskId). *)
Aborting(w, ts) ==
    [run EXCEPT ![w] = [t \in Tasks |->
        IF t \in ts /\ run[w][t].pc \in Active
        THEN [run[w][t] EXCEPT !.aborted = TRUE] ELSE run[w][t]]]

(* stop(): no further tick, and every active run is aborted. *)
Stop(w) ==
    /\ proc[w] = "up" /\ exits < MaxExits
    /\ proc' = [proc EXCEPT ![w] = "stopping"]
    /\ run' = Aborting(w, Tasks)
    /\ exits' = exits + 1
    /\ UNCHANGED <<storeVars, seen, rejected, used, runRec, dlq, notified>>

(* The memory of process w is gone. *)
Down(w) ==
    /\ proc' = [proc EXCEPT ![w] = "down"]
    /\ seen' = [seen EXCEPT ![w] = [t \in Tasks |-> NoRow]]
    /\ run' = [run EXCEPT ![w] = [t \in Tasks |-> OffRun]]
    /\ rejected' = [rejected EXCEPT ![w] = FALSE]
    /\ UNCHANGED <<storeVars, used, runRec, dlq, notified>>

(* After stop() the process ends, drained or after DRAIN_TIMEOUT_MS. *)
Exit(w) == proc[w] = "stopping" /\ Down(w) /\ UNCHANGED exits

Crash(w) == proc[w] = "up" /\ exits < MaxExits /\ Down(w) /\ exits' = exits + 1

(* Boot: recoverInterruptedActions, then recoverInterruptedTasks requeues    *)
(* the running tasks whose lease has run out, then start().                  *)
Restart(w) ==
    /\ proc[w] = "down"
    /\ proc' = [proc EXCEPT ![w] = "up"]
    /\ action' = Recovered(action)
    /\ task' = [t \in Tasks |-> IF task[t].status = "running" /\ t \in elapsed
                                THEN Released(task[t], "queued") ELSE task[t]]
    /\ elapsed' = {x \in elapsed : x \in Tasks => task[x].status # "running"}
    /\ UNCHANGED <<seen, rejected, run, used, runRec, dlq, notified, exits>>

(* Mutant of Republish: maintenance scans unfinished tasks only. *)
Republish_Unfinished(t) ==
    /\ task[t].status = "queued" /\ t \notin notified
    /\ notified' = notified \cup {t}
    /\ UNCHANGED <<storeVars, proc, seen, rejected, run, used, runRec, dlq, exits>>

(* maintainOwner(): publishOutcome again for a task found succeeded. *)
Republish(t) ==
    /\ task[t].status = "succeeded" /\ t \notin notified
    /\ notified' = notified \cup {t}
    /\ UNCHANGED <<storeVars, proc, seen, rejected, run, used, runRec, dlq, exits>>

----------------------------------------------------------------------------
(* Everything run() does after its claim, except the timers. *)
HandlerNext(w, t) ==
    \/ StartRun(w, t) \/ StartRunThrows(w, t)
    \/ NoticeLost(w, t) \/ Begin(w, t) \/ Guard(w, t)
    \/ StillPending(w, t) \/ Carried(w, t) \/ NotCarried(w, t) \/ Unlink(w, t)
    \/ Checkpoint(w, t) \/ Throw(w, t) \/ Return(w, t)
    \/ Prepare(w, t) \/ Link(w, t) \/ Undo(w, t)
    \/ Commit(w, t) \/ FinishMeta(w, t) \/ CommitThrows(w, t)
    \/ Requeue(w, t) \/ Fail(w, t) \/ DeadLetter(w, t) \/ CloseRun(w, t)
    \/ Settle(w, t) \/ CatchThrows(w, t)

WorkerNext ==
    \/ \E w \in Workers : Tick(w) \/ Stop(w) \/ Exit(w) \/ Crash(w) \/ Restart(w)
    \/ \E w \in Workers, t \in Tasks :
          \/ Claim(w, t) \/ ClaimLoses(w, t) \/ HandlerNext(w, t)
          \/ Heartbeat(w, t) \/ TaskTimeout(w, t)
    \/ \E t \in Tasks : Republish(t)
============================================================================
