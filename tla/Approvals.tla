----------------------------- MODULE Approvals -----------------------------
(* apps/server/src/actions.ts, the action routes of engine/routes.ts and the *)
(* action passes of AgentService.maintain: what may happen to a proposal     *)
(* after a handler has made it.  decide() and the reconcile route take       *)
(* several steps, so other requests, the maintenance timer and a dying       *)
(* process come in between.  The external provider is modelled by what       *)
(* decide() can tell of a call: done, refused, or no answer.                 *)
EXTENDS EngineStore

CONSTANTS
    Deciders,       \* decide and reconcile requests in flight at once
    MaxRetries,     \* bound: retries of one proposal
    OperatorChecks  \* whether reconciliations agree with the provider

ASSUME ApprovalAssumption ==
    IsFiniteSet(Deciders) /\ MaxRetries \in Nat /\ OperatorChecks \in BOOLEAN

VARIABLES
    dec,            \* the in-flight decide and reconcile requests
    effects,        \* history: times the provider carried the proposal out
    reconciled,     \* history: times an operator declared it not executed
    retries

approvalVars == <<dec, effects, reconciled, retries>>

(* pc: idle; checked (decide passed its checks); call (claimed, the provider *)
(* is being called); put (the call returned); retask (reconciled, the task   *)
(* still has to be moved).                                                   *)
NoDecision == [pc |-> "idle"]

Outcome == {"succeeded", "failed", "outcome_unknown"}

Decision ==
    {NoDecision}
    \cup [pc : {"checked"}, a : Actions, choice : {"approve", "deny"}, hash : Contents]
    \cup [pc : {"call"}, a : Actions, hash : Contents, content : Contents]
    \cup [pc : {"put"}, a : Actions, content : Contents, outcome : Outcome]
    \cup [pc : {"retask"}, a : Actions, outcome : Outcome]

ApprovalTypeOK ==
    /\ dec \in [Deciders -> Decision]
    /\ effects \in [Actions -> Nat]
    /\ reconciled \in [Actions -> Nat]
    /\ retries \in [Actions -> Nat]

ApprovalInit ==
    /\ dec = [d \in Deciders |-> NoDecision]
    /\ effects = [a \in Actions |-> 0]
    /\ reconciled = [a \in Actions |-> 0]
    /\ retries = [a \in Actions |-> 0]

SetDec(d, r) == dec' = [dec EXCEPT ![d] = r]

----------------------------------------------------------------------------
(* decide(): the request carries the hash on the user's screen, which is the *)
(* one just read (any other is refused); an expired review expires.          *)
Decide(d, a, choice) ==
    /\ dec[d].pc = "idle" /\ action[a].status = "awaiting_review"
    /\ choice = "approve" => TaskOpen(a[1])
    /\ IF a \in elapsed
       THEN SetAction(a, "expired") /\ UNCHANGED dec
       ELSE /\ SetDec(d, [pc |-> "checked", a |-> a, choice |-> choice,
                          hash |-> action[a].content])
            /\ UNCHANGED action
    /\ UNCHANGED <<task, elapsed, effects, reconciled, retries>>

(* Mutant of Claimable: the task was looked at before, in decide(). *)
Claimable_NoTask(a, choice) == Reviewable(a)

(* Store.claim's precondition: it looks at the status, not at the hash. *)
Claimable(a, choice) == Reviewable(a) /\ (choice = "approve" => TaskOpen(a[1]))

(* decide(): Store.claim, which returns the row it turned to executing. *)
ClaimAction(d) ==
    /\ dec[d].pc = "checked"
    /\ LET a == dec[d].a IN
       IF ~Claimable(a, dec[d].choice)
       THEN SetDec(d, NoDecision) /\ UNCHANGED action
       ELSE IF dec[d].choice = "deny"
       THEN SetAction(a, "denied") /\ SetDec(d, NoDecision)
       ELSE /\ SetAction(a, "executing")
            /\ SetDec(d, [pc |-> "call", a |-> a, hash |-> dec[d].hash,
                          content |-> action[a].content])
    /\ UNCHANGED <<task, elapsed, effects, reconciled, retries>>

(* The provider carries the action out, refuses it, or does not answer, in   *)
(* which case it may or may not have carried it out.                         *)
CallProvider(d) ==
    /\ dec[d].pc = "call"
    /\ LET a == dec[d].a IN
       \E o \in Outcome :
          /\ \/ o # "failed" /\ effects' = [effects EXCEPT ![a] = @ + 1]
             \/ o # "succeeded" /\ UNCHANGED effects
          /\ SetDec(d, [pc |-> "put", a |-> a, content |-> dec[d].content, outcome |-> o])
    /\ UNCHANGED <<storeVars, reconciled, retries>>

(* decide(): the claimed row with its outcome is put, whatever is there now. *)
PutOutcome(d) ==
    /\ dec[d].pc = "put"
    /\ action' = [action EXCEPT ![dec[d].a] =
                    [status |-> dec[d].outcome, content |-> dec[d].content]]
    /\ SetDec(d, NoDecision)
    /\ UNCHANGED <<task, elapsed, effects, reconciled, retries>>

(* The process serving the request dies. *)
DeciderDies(d) ==
    /\ dec[d].pc # "idle"
    /\ SetDec(d, NoDecision)
    /\ UNCHANGED <<storeVars, effects, reconciled, retries>>

----------------------------------------------------------------------------
(* The other requests on a proposal; each is one compareAndSwap. *)

Edit(a) ==
    /\ action[a].status = "awaiting_review"
    /\ \E c \in Contents \ {action[a].content} : action' = [action EXCEPT ![a].content = c]
    /\ UNCHANGED <<task, elapsed, approvalVars>>

(* Mutant of Retry: an unknown outcome can be retried as well. *)
Retry_Unknown(a) ==
    /\ action[a].status \in {"failed", "denied", "outcome_unknown"} /\ retries[a] < MaxRetries
    /\ SetAction(a, "awaiting_review")
    /\ retries' = [retries EXCEPT ![a] = @ + 1]
    /\ UNCHANGED <<task, elapsed, dec, effects, reconciled>>

(* Back to review; expiresAt is not renewed. *)
Retry(a) ==
    /\ action[a].status \in {"failed", "denied"} /\ retries[a] < MaxRetries
    /\ SetAction(a, "awaiting_review")
    /\ retries' = [retries EXCEPT ![a] = @ + 1]
    /\ UNCHANGED <<task, elapsed, dec, effects, reconciled>>

CancelAction(a) ==
    /\ action[a].status = "awaiting_review"
    /\ SetAction(a, "cancelled")
    /\ UNCHANGED <<task, elapsed, approvalVars>>

ForceCancel(a) ==
    /\ action[a].status = "executing"
    /\ SetAction(a, "outcome_unknown")
    /\ UNCHANGED <<task, elapsed, approvalVars>>

(* reconcile: the operator says what happened; one who checks looks at the   *)
(* provider first.                                                           *)
Reconcile(d, a) ==
    /\ dec[d].pc = "idle" /\ action[a].status = "outcome_unknown"
    /\ \E o \in {"succeeded", "failed"} :
       /\ OperatorChecks => (o = "succeeded" <=> effects[a] > 0)
       /\ SetAction(a, o)
       /\ SetDec(d, [pc |-> "retask", a |-> a, outcome |-> o])
       /\ reconciled' = IF o = "failed" THEN [reconciled EXCEPT ![a] = @ + 1] ELSE reconciled
    /\ UNCHANGED <<task, elapsed, effects, retries>>

(* reconcile: then it moves the task, if that waits for an approval. *)
Retask(d) ==
    /\ dec[d].pc = "retask"
    /\ LET t == dec[d].a[1] IN
       task' = IF task[t].status = "waiting_approval"
               THEN [task EXCEPT ![t].status =
                       IF dec[d].outcome = "succeeded" THEN "queued" ELSE "failed"]
               ELSE task
    /\ SetDec(d, NoDecision)
    /\ UNCHANGED <<action, elapsed, effects, reconciled, retries>>

----------------------------------------------------------------------------
(* maintain(): recoverInterruptedActions on every pass, live calls included. *)
MaintainRecover ==
    /\ \E a \in Actions : action[a].status = "executing"
    /\ action' = Recovered(action)
    /\ UNCHANGED <<task, elapsed, approvalVars>>

(* maintain(): overdue reviews expire. *)
MaintainExpire(a) ==
    /\ action[a].status = "awaiting_review" /\ a \in elapsed
    /\ SetAction(a, "expired")
    /\ UNCHANGED <<task, elapsed, approvalVars>>

ApprovalNext ==
    \/ \E d \in Deciders :
          \/ \E a \in Actions, choice \in {"approve", "deny"} : Decide(d, a, choice)
          \/ ClaimAction(d) \/ CallProvider(d) \/ PutOutcome(d) \/ DeciderDies(d)
          \/ \E a \in Actions : Reconcile(d, a)
          \/ Retask(d)
    \/ \E a \in Actions : Edit(a) \/ Retry(a) \/ CancelAction(a) \/ ForceCancel(a)
                          \/ MaintainExpire(a)
    \/ MaintainRecover
============================================================================
