------------------------------- MODULE SopRun -------------------------------
(* apps/server/src/engine/sop-executor.ts: one task of kind "sop", run step   *)
(* by step under the worker's lease.  Each run of the task is a process that   *)
(* checkpoints its progress into `state` by compareAndSwap on the lease; it    *)
(* may lose the lease, crash, or be overtaken by another run at any point,     *)
(* while people answer, escalate, pause, resume, retry and review.             *)
(*                                                                             *)
(* While a run holds the lease nobody else writes `state` (Engine), so the     *)
(* executor's local `task` equals the row and is not kept apart from it.       *)
(* Plan titles, thoughts, bus events and the contents of results are left out. *)
(* A `when` is a template over results and input: its value is fixed while     *)
(* the task stands at the step.                                                *)
EXTENDS Naturals, FiniteSets

CONSTANTS
    N,              \* the SOP has steps 1..N
    Asks,           \* tool ask_user
    Reviews,        \* tool prepare_email, prepare_event
    Transitions,    \* tool transition_entity; every other step is a plain tool
    Conditional,    \* steps with a `when`
    Optional,       \* steps with required: false
    Workers,        \* processes that run a TaskWorker
    Clients,        \* requests that answer or escalate
    NoWorker,       \* leaseId: null
    Gone,           \* a lease id that is no longer in use
    MaxFaults,      \* bound: processes that die or stall during a run
    MaxStops,       \* bound: pauses and retries
    MaxTells,       \* bound: answers and escalations
    MaxEdits        \* bound: edits of the SOP record

Steps == 1..N

ASSUME SopAssumption ==
    /\ N \in Nat \ {0}
    /\ Asks \subseteq Steps /\ Reviews \subseteq Steps /\ Transitions \subseteq Steps
    /\ Asks \cap Reviews = {} /\ Asks \cap Transitions = {} /\ Reviews \cap Transitions = {}
    /\ Conditional \subseteq Steps /\ Optional \subseteq Steps
    /\ NoWorker \notin Workers /\ Gone \notin Workers \cup {NoWorker}
    /\ MaxFaults \in Nat /\ MaxStops \in Nat /\ MaxTells \in Nat /\ MaxEdits \in Nat

VARIABLES
    row,            \* the task's row
    act,            \* the proposals, by the step that prepares them
    moved,          \* transition steps whose entity has been moved
    truthy,         \* conditional steps whose `when` holds
    sop,            \* updatedAt of the SOP record, as a version number
    stale,          \* leaseUntil has passed
    run,            \* what each process does with the task
    req,            \* answer and escalate requests in flight
    far,            \* history: the furthest step recorded
    spent           \* counters of the bounded events

vars == <<row, act, moved, truthy, sop, stale, run, req, far, spent>>

None == 0           \* an absent field, or a step without a result
Skipped == N + 1    \* result of a step that was skipped
Note == N + 2       \* an answer that was given to an escalation

Results == 0..(N + 2)

(* The fields of task.state that the executor keeps. *)
State == [next     : 1..(N + 1),        \* sopStepIndex + 1
          res      : [Steps -> Results],\* sopResults, by whose answer or approval they hold
          pend     : 0..N,              \* pendingInputStepId
          pendA    : 0..N,              \* pendingApprovalStepId
          answer   : Results,           \* answer, by the question it was given to
          approval : 0..N,              \* approvalResult, by the step it was prepared for
          escalated : BOOLEAN]          \* escalatedTo

Status == {"queued", "running", "waiting_input", "waiting_approval", "paused",
           "succeeded", "failed", "cancelled"}

ActStatus == {"absent", "awaiting_review", "executing", "succeeded", "refused"}

PC == {"off", "begin", "start", "step", "proposed", "pend", "record", "skip", "throw",
       "commit"}

FirstState == [next |-> 1, res |-> [k \in Steps |-> None], pend |-> None, pendA |-> None,
               answer |-> None, approval |-> None, escalated |-> FALSE]

OffRun == [pc |-> "off", k |-> None, own |-> FALSE, result |-> "queued"]
NoReq == [pc |-> "none", status |-> "queued", lease |-> NoWorker, state |-> FirstState]

SopTypeOK ==
    /\ row \in [status : Status, lease : Workers \cup {NoWorker}, action : 0..N,
                version : Nat, state : State]
    /\ act \in [Reviews -> ActStatus]
    /\ moved \subseteq Transitions
    /\ truthy \subseteq Conditional
    /\ sop \in Nat \ {0}
    /\ stale \in BOOLEAN
    /\ run \in [Workers -> [pc : PC, k : 0..N, own : BOOLEAN, result : Status]]
    /\ req \in [Clients -> [pc : {"none", "answer", "escalate"}, status : Status,
                            lease : Workers \cup {NoWorker, Gone}, state : State]]
    /\ far \in 0..N
    /\ spent \in [faults : 0..MaxFaults, stops : 0..MaxStops, tells : 0..MaxTells]

(* createTask has inserted the task; version 0 stands for no sopVersion. *)
Init ==
    /\ row = [status |-> "queued", lease |-> NoWorker, action |-> None, version |-> 0,
              state |-> FirstState]
    /\ act = [k \in Reviews |-> "absent"]
    /\ moved = {}
    /\ truthy \in SUBSET Conditional
    /\ sop = 1
    /\ stale = FALSE
    /\ run = [w \in Workers |-> OffRun]
    /\ req = [c \in Clients |-> NoReq]
    /\ far = 0
    /\ spent = [faults |-> 0, stops |-> 0, tells |-> 0]

----------------------------------------------------------------------------
(* The worker's side: claim, checkpoint, loss of the lease.                  *)

Holds(w) == row.lease = w /\ row.status = "running"
At(w, pc) == run[w].pc = pc
Goto(w, pc) == run' = [run EXCEPT ![w].pc = pc]

(* ctx.checkpoint with a new `state`: nothing is written without the lease.  *)
Checkpoint(w, state) ==
    /\ Holds(w)
    /\ row' = [row EXCEPT !.state = state]
    /\ far' = IF state.next - 1 > far THEN state.next - 1 ELSE far

(* tick and run(): due when queued, when the lease has run out, or when the  *)
(* linked review is over.  The lease id is new: a request that read an older *)
(* lease of this process no longer matches.                                  *)
Claim(w) ==
    /\ At(w, "off")
    /\ \/ row.status = "queued"
       \/ row.status = "running" /\ stale
       \/ /\ row.status = "waiting_approval"
          /\ row.action # None => act[row.action] \notin {"awaiting_review", "executing"}
    /\ row' = [row EXCEPT !.status = "running", !.lease = w]
    /\ stale' = FALSE
    /\ Goto(w, "begin")
    /\ req' = [c \in Clients |-> IF req[c].lease = w THEN [req[c] EXCEPT !.lease = Gone]
                                 ELSE req[c]]
    /\ UNCHANGED <<act, moved, truthy, sop, far, spent>>

(* LostLeaseError out of guard or checkpoint; run() leaves the row alone.    *)
Lost(w) ==
    /\ run[w].pc \notin {"off", "proposed"} /\ ~Holds(w)
    /\ run' = [run EXCEPT ![w] = OffRun]
    /\ UNCHANGED <<row, act, moved, truthy, sop, stale, req, far, spent>>

(* run()'s final checkpoint of what the executor returned or threw.          *)
Commit(w) ==
    /\ At(w, "commit") /\ Holds(w)
    /\ row' = [row EXCEPT !.status = run[w].result, !.lease = NoWorker]
    /\ run' = [run EXCEPT ![w] = OffRun]
    /\ UNCHANGED <<act, moved, truthy, sop, stale, req, far, spent>>
Fail(w) ==
    /\ At(w, "throw") /\ Holds(w)
    /\ row' = [row EXCEPT !.status = "failed", !.lease = NoWorker]
    /\ run' = [run EXCEPT ![w] = OffRun]
    /\ UNCHANGED <<act, moved, truthy, sop, stale, req, far, spent>>

(* The process dies; or it stalls, and its heartbeat misses the deadline.    *)
Crash(w) ==
    /\ ~At(w, "off") /\ spent.faults < MaxFaults
    /\ run' = [run EXCEPT ![w] = OffRun]
    /\ spent' = [spent EXCEPT !.faults = @ + 1]
    /\ UNCHANGED <<row, act, moved, truthy, sop, stale, req, far>>
Stall(w) ==
    /\ Holds(w) /\ ~At(w, "off") /\ ~stale /\ spent.faults < MaxFaults
    /\ stale' = TRUE
    /\ spent' = [spent EXCEPT !.faults = @ + 1]
    /\ UNCHANGED <<row, act, moved, truthy, sop, run, req, far>>

(* The lease of a process that is gone runs out. *)
LeaseElapses(w) ==
    /\ Holds(w) /\ At(w, "off") /\ ~stale
    /\ stale' = TRUE
    /\ UNCHANGED <<row, act, moved, truthy, sop, run, req, far, spent>>

----------------------------------------------------------------------------
(* AgentService.execute: the linked review comes first.                      *)

(* No review is linked, or its result has just been taken over. *)
Ready(w) == Holds(w) /\ (At(w, "start") \/ (At(w, "begin") /\ row.action = None))

(* Mutant of BeginApproved: the link is cleared and the result forgotten. *)
BeginApproved_Forgets(w) ==
    /\ At(w, "begin") /\ Holds(w) /\ row.action # None /\ act[row.action] = "succeeded"
    /\ row' = [row EXCEPT !.action = None]
    /\ Goto(w, "start")
    /\ UNCHANGED <<act, moved, truthy, sop, stale, req, far, spent>>

(* The approved action's result is taken into `state`, the link is cleared.  *)
BeginApproved(w) ==
    /\ At(w, "begin") /\ Holds(w) /\ row.action # None /\ act[row.action] = "succeeded"
    /\ row' = [row EXCEPT !.state.approval = row.action, !.action = None]
    /\ Goto(w, "start")
    /\ UNCHANGED <<act, moved, truthy, sop, stale, req, far, spent>>

(* Still under review: back to waiting.  Refused in any way: the task fails. *)
BeginReviewed(w) ==
    /\ At(w, "begin") /\ Holds(w) /\ row.action # None /\ act[row.action] # "succeeded"
    /\ run' = IF act[row.action] \in {"awaiting_review", "executing"}
              THEN [run EXCEPT ![w].pc = "commit", ![w].result = "waiting_approval"]
              ELSE [run EXCEPT ![w].pc = "throw"]
    /\ UNCHANGED <<row, act, moved, truthy, sop, stale, req, far, spent>>

----------------------------------------------------------------------------
(* SOPExecutor.execute                                                       *)

(* Mutant of Continue: one step too many. *)
Continue_Past(w, k) ==
    run' = IF k <= N + 1 THEN [run EXCEPT ![w].pc = "step", ![w].k = k]
           ELSE [run EXCEPT ![w].pc = "commit", ![w].result = "succeeded"]

(* The loop goes on with step k: guard, and the checkpoint of the index.  Past *)
(* the last step it is evidence, learn and finish.                             *)
Continue(w, k) ==
    run' = IF k <= N THEN [run EXCEPT ![w].pc = "step", ![w].k = k]
           ELSE [run EXCEPT ![w].pc = "commit", ![w].result = "succeeded"]

(* The version is pinned at the first run; an edited SOP fails the task.     *)
(* A run from step 1 forgets the results of an earlier attempt.              *)
Start(w) ==
    /\ Ready(w) /\ row.version \in {0, sop}
    /\ row' = [row EXCEPT !.version = sop,
                          !.state.res = IF row.state.next = 1 THEN FirstState.res ELSE @]
    /\ Continue(w, row.state.next)
    /\ UNCHANGED <<act, moved, truthy, sop, stale, req, far, spent>>
StartEdited(w) ==
    /\ Ready(w) /\ row.version \notin {0, sop}
    /\ Goto(w, "throw")
    /\ UNCHANGED <<row, act, moved, truthy, sop, stale, req, far, spent>>

(* The step at hand may run: its `when`, if any, holds. *)
Runs(w) == At(w, "step") /\ (run[w].k \in Conditional => run[w].k \in truthy)

(* state after step k ended with result r *)
After(k, r) == [row.state EXCEPT !.next = k + 1, !.res[k] = r]

(* A falsy `when`: the step is recorded as skipped. *)
SkipWhen(w) ==
    /\ At(w, "step") /\ run[w].k \in Conditional \ truthy
    /\ Checkpoint(w, After(run[w].k, Skipped))
    /\ Continue(w, run[w].k + 1)
    /\ UNCHANGED <<act, moved, truthy, sop, stale, req, spent>>

(* consumingApproval: the approved result is the outcome of this step. *)
Consuming(k) == row.state.approval # None /\ row.state.pendA = k /\ k \in Reviews

ConsumeApproval(w) ==
    /\ Runs(w) /\ Consuming(run[w].k)
    /\ Checkpoint(w, [After(run[w].k, row.state.approval) EXCEPT !.approval = None, !.pendA = None])
    /\ Continue(w, run[w].k + 1)
    /\ UNCHANGED <<act, moved, truthy, sop, stale, req, spent>>

(* Mutant of ConsumeAnswer: the answer is left in `state`. *)
ConsumeAnswer_Kept(w) ==
    /\ Runs(w) /\ run[w].k \in Asks /\ row.state.pend = run[w].k /\ row.state.answer # None
    /\ Checkpoint(w, [After(run[w].k, row.state.answer) EXCEPT !.pend = None])
    /\ Continue(w, run[w].k + 1)
    /\ UNCHANGED <<act, moved, truthy, sop, stale, req, spent>>

(* ask_user: an answer to this step's question is used up, or the task waits.*)
ConsumeAnswer(w) ==
    /\ Runs(w) /\ run[w].k \in Asks /\ row.state.pend = run[w].k /\ row.state.answer # None
    /\ Checkpoint(w, [After(run[w].k, row.state.answer) EXCEPT !.answer = None, !.pend = None])
    /\ Continue(w, run[w].k + 1)
    /\ UNCHANGED <<act, moved, truthy, sop, stale, req, spent>>
Ask(w) ==
    /\ Runs(w) /\ run[w].k \in Asks
    /\ row.state.pend # run[w].k \/ row.state.answer = None
    /\ Checkpoint(w, [row.state EXCEPT !.pend = run[w].k])
    /\ run' = [run EXCEPT ![w].pc = "commit", ![w].result = "waiting_input"]
    /\ UNCHANGED <<act, moved, truthy, sop, stale, req, spent>>

(* prepare(): propose under the step's key (the guard before it may be up to *)
(* 100 ms old), link the proposal, then remember which step waits for it.    *)
Propose(w) ==
    /\ Runs(w) /\ run[w].k \in Reviews /\ ~Consuming(run[w].k)
    /\ act' = [act EXCEPT ![run[w].k] = IF @ = "absent" THEN "awaiting_review" ELSE @]
    /\ run' = [run EXCEPT ![w].pc = "proposed", ![w].own = act'[run[w].k] = "awaiting_review"]
    /\ UNCHANGED <<row, moved, truthy, sop, stale, req, far, spent>>
Link(w) ==
    /\ At(w, "proposed") /\ Holds(w)
    /\ row' = [row EXCEPT !.action = run[w].k]
    /\ Goto(w, "pend")
    /\ UNCHANGED <<act, moved, truthy, sop, stale, req, far, spent>>

(* The link's checkpoint failed: a proposal under review is denied again.    *)
Unlink(w) ==
    /\ At(w, "proposed") /\ ~Holds(w)
    /\ act' = IF run[w].own /\ act[run[w].k] = "awaiting_review"
              THEN [act EXCEPT ![run[w].k] = "refused"] ELSE act
    /\ run' = [run EXCEPT ![w] = OffRun]
    /\ UNCHANGED <<row, moved, truthy, sop, stale, req, far, spent>>
Await(w) ==
    /\ At(w, "pend")
    /\ Checkpoint(w, [row.state EXCEPT !.pendA = run[w].k])
    /\ run' = [run EXCEPT ![w].pc = "commit", ![w].result = "waiting_approval"]
    /\ UNCHANGED <<act, moved, truthy, sop, stale, req, spent>>

(* Any other tool does its work, lease or no lease; the outcome is recorded by *)
(* a checkpoint of its own.  transition_entity: the machine allows the move    *)
(* from the status the entity has, and updateEntity writes the new one.        *)
ToolStep(w) ==
    /\ Runs(w) /\ run[w].k \notin Asks \cup Reviews \cup moved
    /\ moved' = moved \cup ({run[w].k} \cap Transitions)
    /\ Goto(w, "record")
    /\ UNCHANGED <<row, act, truthy, sop, stale, req, far, spent>>

(* The entity is no longer in the status the transition starts from. *)
TransitionDenied(w) ==
    /\ Runs(w) /\ run[w].k \in Transitions \cap moved
    /\ Goto(w, IF run[w].k \in Optional THEN "skip" ELSE "throw")
    /\ UNCHANGED <<row, act, moved, truthy, sop, stale, req, far, spent>>

Record(w) ==
    /\ At(w, "record")
    /\ Checkpoint(w, After(run[w].k, run[w].k))
    /\ Continue(w, run[w].k + 1)
    /\ UNCHANGED <<act, moved, truthy, sop, stale, req, spent>>

(* A tool throws: required: false skips the step, otherwise the task fails.  *)
StepThrows(w) ==
    /\ Runs(w) /\ run[w].k \notin Asks /\ ~Consuming(run[w].k)
    /\ Goto(w, IF run[w].k \in Optional THEN "skip" ELSE "throw")
    /\ UNCHANGED <<row, act, moved, truthy, sop, stale, req, far, spent>>
SkipThrown(w) ==
    /\ At(w, "skip")
    /\ Checkpoint(w, After(run[w].k, Skipped))
    /\ Continue(w, run[w].k + 1)
    /\ UNCHANGED <<act, moved, truthy, sop, stale, req, spent>>

----------------------------------------------------------------------------
(* People                                                                    *)

Tell(c, kind) ==
    /\ req[c].pc = "none" /\ spent.tells < MaxTells
    /\ req' = [req EXCEPT ![c] = [pc |-> kind, status |-> row.status, lease |-> row.lease,
                                  state |-> row.state]]
    /\ spent' = [spent EXCEPT !.tells = @ + 1]
    /\ UNCHANGED <<row, act, moved, truthy, sop, stale, run, far>>

(* answer(): reads the task, refuses unless it waits for input ... *)
AnswerRead(c) == row.status = "waiting_input" /\ Tell(c, "answer")

(* ... and swaps on the status alone, writing back the `state` it read.      *)
AnswerSwap(c) ==
    /\ req[c].pc = "answer"
    /\ LET s == req[c].state IN
       row' = IF row.status = "waiting_input"
              THEN [row EXCEPT !.status = "queued",
                      !.state = [s EXCEPT !.answer = IF s.escalated THEN Note ELSE s.pend,
                                          !.escalated = FALSE]]
              ELSE row
    /\ req' = [req EXCEPT ![c] = NoReq]
    /\ UNCHANGED <<act, moved, truthy, sop, stale, run, far, spent>>

(* escalateTask(): any open task; swaps on the status and the lease it read. *)
EscalateRead(c) ==
    row.status \notin {"succeeded", "failed", "cancelled"} /\ Tell(c, "escalate")
EscalateSwap(c) ==
    /\ req[c].pc = "escalate"
    /\ row' = IF row.status = req[c].status /\ row.lease = req[c].lease
              THEN [row EXCEPT !.status = "waiting_input", !.lease = NoWorker,
                               !.state = [req[c].state EXCEPT !.escalated = TRUE]]
              ELSE row
    /\ req' = [req EXCEPT ![c] = NoReq]
    /\ UNCHANGED <<act, moved, truthy, sop, stale, run, far, spent>>

(* control(): swaps on status and lease and leaves `state` alone, so its     *)
(* read and its swap are one step here (TaskControl has them apart).         *)
Control(from, to) ==
    /\ row.status \in from
    /\ row' = [row EXCEPT !.status = to, !.lease = NoWorker]
    /\ UNCHANGED <<act, moved, truthy, sop, stale, run, req, far>>
Pause ==
    /\ spent.stops < MaxStops /\ spent' = [spent EXCEPT !.stops = @ + 1]
    /\ Control({"queued", "running", "waiting_input", "waiting_approval"}, "paused")
Requeued == IF row.action = None THEN "queued" ELSE "waiting_approval"
Resume == Control({"paused"}, Requeued) /\ UNCHANGED spent
Retry ==
    /\ row.action # None => act[row.action] = "succeeded"
    /\ spent.stops < MaxStops /\ spent' = [spent EXCEPT !.stops = @ + 1]
    /\ Control({"failed"}, Requeued)

(* control("cancel") also denies the review and clears the pending fields.   *)
Cancel ==
    /\ spent.stops < MaxStops /\ spent' = [spent EXCEPT !.stops = @ + 1]
    /\ row.status \notin {"succeeded", "cancelled"}
    /\ row' = [row EXCEPT !.status = "cancelled", !.lease = NoWorker,
                 !.state = IF row.action = None THEN @
                           ELSE [@ EXCEPT !.pend = None, !.pendA = None, !.approval = None]]
    /\ act' = IF row.action # None /\ act[row.action] = "awaiting_review"
              THEN [act EXCEPT ![row.action] = "refused"] ELSE act
    /\ UNCHANGED <<moved, truthy, sop, stale, run, req, far>>

(* ActionService.decide, and the provider's answer (Approvals has the        *)
(* details): carried out, or denied, expired, failed or of unknown outcome.  *)
Approve(k) ==
    /\ act[k] = "awaiting_review" /\ row.status \in {"running", "waiting_approval"}
    /\ act' = [act EXCEPT ![k] = "executing"]
    /\ UNCHANGED <<row, moved, truthy, sop, stale, run, req, far, spent>>
Outcome(k) ==
    /\ act[k] = "executing"
    /\ \E s \in {"succeeded", "refused"} : act' = [act EXCEPT ![k] = s]
    /\ UNCHANGED <<row, moved, truthy, sop, stale, run, req, far, spent>>
Deny(k) ==
    /\ act[k] = "awaiting_review"
    /\ act' = [act EXCEPT ![k] = "refused"]
    /\ UNCHANGED <<row, moved, truthy, sop, stale, run, req, far, spent>>

(* saveSOP writes a new updatedAt. *)
EditSop ==
    /\ sop <= MaxEdits
    /\ sop' = sop + 1
    /\ UNCHANGED <<row, act, moved, truthy, stale, run, req, far, spent>>

----------------------------------------------------------------------------
Execute(w) == BeginApproved(w) \/ BeginReviewed(w)
Loop(w) == Start(w) \/ StartEdited(w) \/ SkipWhen(w)
Step(w) ==
    \/ ConsumeApproval(w) \/ ConsumeAnswer(w) \/ Ask(w)
    \/ Propose(w) \/ Link(w) \/ Unlink(w) \/ Await(w)
    \/ ToolStep(w) \/ TransitionDenied(w) \/ Record(w)
    \/ StepThrows(w) \/ SkipThrown(w)
Runner(w) == Execute(w) \/ Loop(w) \/ Step(w) \/ Lost(w) \/ Commit(w) \/ Fail(w)

People ==
    \/ \E c \in Clients : AnswerRead(c) \/ AnswerSwap(c) \/ EscalateRead(c) \/ EscalateSwap(c)
    \/ \E k \in Reviews : Approve(k) \/ Outcome(k) \/ Deny(k)
    \/ Pause \/ Resume \/ Retry \/ Cancel \/ EditSop

Next ==
    \/ \E w \in Workers : Claim(w) \/ Runner(w) \/ Crash(w) \/ Stall(w) \/ LeaseElapses(w)
    \/ People

Spec == Init /\ [][Next]_vars

(* The worker polls and a run goes on; leases run out; an action in execution *)
(* ends, if only as of unknown outcome (MaintainRecover).  Nobody is assumed  *)
(* to answer, approve, resume, retry or crash.                                *)
FairSpec ==
    /\ Spec
    /\ \A w \in Workers : WF_vars(Runner(w)) /\ WF_vars(LeaseElapses(w))
    /\ WF_vars(\E w \in Workers : Claim(w))
    /\ \A k \in Reviews : WF_vars(Outcome(k))

----------------------------------------------------------------------------
(* The SOP implements the Procedure: workers, leases, crashes, version        *)
(* checks, links to reviews and retries add nothing to it and take nothing    *)
(* away.                                                                      *)

P == INSTANCE Procedure WITH
        Skippable <- Conditional \cup Optional,
        pos <- row.state.next - 1,
        out <- [k \in Steps |-> IF row.state.res[k] = None THEN "none"
                                ELSE IF row.state.res[k] = Skipped THEN "skipped"
                                ELSE "done"],
        reply <- row.state.answer # None,
        carried <- {k \in Reviews : act[k] = "succeeded"},
        phase <- IF row.status = "succeeded" THEN "done"
                 ELSE IF row.status \in {"paused", "failed", "cancelled"} THEN "stopped"
                 ELSE "open"

(* Steps are recorded in order, each once, a question by a reply that is then *)
(* used up, a review after its action was carried out, and only an answer or  *)
(* an escalation takes the procedure back (execute, runStep, prepare, worker).*)
ImplementsProcedure == P!ProcedureSpec

(* Once the action of the step at hand was carried out, the step is recorded, *)
(* or a person or a failure has the task: the approval is never forgotten in  *)
(* a crash, nor is it asked for again (execute, consumingApproval).           *)
ApprovalIsUsed ==
    \A k \in Reviews :
       (act[k] = "succeeded" /\ row.state.next = k)
          ~> (row.state.next # k \/ row.status \in {"paused", "waiting_input", "failed", "cancelled"})

(* "Task changed; refresh and try again", "La tarea cambio; refresca e         *)
(* intentalo de nuevo": an accepted answer or escalation finds the procedure   *)
(* where its author saw it.  Both swap on the status (and a null lease) alone, *)
(* so a slow one overwrites the progress made since.                           *)
TellIsCurrent ==
    [][\A c \in Clients :
          ((AnswerSwap(c) \/ EscalateSwap(c)) /\ row' # row) => row.state = req[c].state]_vars
============================================================================
