---------------------------- MODULE EngineStore ----------------------------
(* The durable rows that every OpenMuse process shares: the "tasks" and    *)
(* "actions" records of apps/server/src/db.ts, reached by single-row        *)
(* atomic statements only (get, compareAndSwap, insertIfAbsent, claim, put).*)
(* A row that has not been inserted has status "absent".                    *)
(*                                                                          *)
(* Wall-clock deadlines (leaseUntil of a task, expiresAt of a proposal) are *)
(* abstracted by the set `elapsed` of rows whose deadline has passed: it    *)
(* grows at any moment, which covers stalled event loops and skewed clocks, *)
(* and a write of a later deadline removes the row from it.                 *)
EXTENDS Naturals, FiniteSets

CONSTANTS
    Tasks,          \* task ids
    Keys,           \* idempotency keys a handler prepares actions under
    LeaseIds,       \* the randomUUIDs that claims draw from
    NoLease,        \* leaseId: null
    NoAction,       \* actionId: null
    Contents,       \* the data (hence the hash) a proposal may carry
    FirstContent,   \* what the handler itself proposes
    NoContent

(* The constants are sets of ids, with null values apart from them. *)
ASSUME StoreAssumption ==
    /\ NoLease \notin LeaseIds
    /\ FirstContent \in Contents
    /\ NoContent \notin Contents
    /\ NoAction \notin Tasks \X Keys

VARIABLES
    task,           \* the "tasks" rows
    action,         \* the "actions" rows
    elapsed         \* tasks and proposals whose deadline has passed

storeVars == <<task, action, elapsed>>

(* propose() derives a proposal's id from `${task.id}:${key}`. *)
Actions == Tasks \X Keys

TaskStatus == {"absent", "queued", "running", "waiting_input",
               "waiting_approval", "paused", "succeeded", "failed", "cancelled"}

ActionStatus == {"absent", "awaiting_review", "executing", "succeeded", "failed",
                 "denied", "expired", "outcome_unknown", "cancelled"}

Terminal == {"succeeded", "failed", "cancelled"}

TaskRow == [status    : TaskStatus,
            lease     : LeaseIds \cup {NoLease},
            until     : Nat,                      \* which renewal of leaseUntil
            action    : Actions \cup {NoAction},
            step      : Nat,                      \* progress kept in `state`
            escalated : BOOLEAN]                  \* assigned to somebody else

ActionRow == [status : ActionStatus, content : Contents]

StoreTypeOK ==
    /\ task \in [Tasks -> TaskRow]
    /\ action \in [Actions -> ActionRow]
    /\ elapsed \subseteq Tasks \cup Actions

StoreInit ==
    /\ task = [t \in Tasks |-> [status |-> "absent", lease |-> NoLease, until |-> 0,
                                action |-> NoAction, step |-> 0, escalated |-> FALSE]]
    /\ action = [a \in Actions |-> [status |-> "absent", content |-> FirstContent]]
    /\ elapsed = {}

----------------------------------------------------------------------------
(* Store.claim lets an approval through only while the task is open. *)
TaskOpen(t) == task[t].status \in {"running", "waiting_approval"}

(* Proposal a still waits for the user and its review has not expired. *)
Reviewable(a) == action[a].status = "awaiting_review" /\ a \notin elapsed

SetAction(a, status) == action' = [action EXCEPT ![a].status = status]

(* ActionService.decide(owner, a, hash, "deny"): nothing happens when the   *)
(* proposal changed or is no longer awaiting review, an expired review      *)
(* expires, and otherwise Store.claim turns it to denied.                   *)
Deny(a, hash) ==
    IF action[a].status = "awaiting_review" /\ action[a].content = hash
    THEN SetAction(a, IF a \in elapsed THEN "expired" ELSE "denied")
    ELSE UNCHANGED action

(* Store.recoverInterruptedActions: every executing action, whoever runs it. *)
Recovered(acts) == [a \in Actions |->
    IF acts[a].status = "executing" THEN [acts[a] EXCEPT !.status = "outcome_unknown"]
    ELSE acts[a]]

(* Mutant of Released: the status is written, the lease is left behind. *)
Released_KeepsLease(row, s) == [row EXCEPT !.status = s]

(* The row after a statement that leaves status s and no lease. *)
Released(row, s) == [row EXCEPT !.status = s, !.lease = NoLease, !.until = 0]

----------------------------------------------------------------------------
(* Time: leaseUntil of a running task passes. *)
LeaseElapses(t) ==
    /\ task[t].status = "running" /\ t \notin elapsed
    /\ elapsed' = elapsed \cup {t}
    /\ UNCHANGED <<task, action>>

(* Time: expiresAt of a proposal under review passes. *)
ReviewElapses(a) ==
    /\ action[a].status = "awaiting_review" /\ a \notin elapsed
    /\ elapsed' = elapsed \cup {a}
    /\ UNCHANGED <<task, action>>
============================================================================
