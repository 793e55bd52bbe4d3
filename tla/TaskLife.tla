------------------------------ MODULE TaskLife ------------------------------
(* What the engine promises about one task, without processes, polls,        *)
(* heartbeats, requests in flight or late writes: who may move it from which  *)
(* status to which, that it has an owner exactly while it runs and never the  *)
(* same one twice, that its owner alone makes progress, one step at a time,   *)
(* and that the owner who completes it is the one recorded, if any is.        *)
EXTENDS Naturals

CONSTANTS
    Leases,         \* what tells one claim of the task from every other
    NoLease

VARIABLES
    status,         \* of the task
    owner,          \* the claim it runs under
    spent,          \* claims made so far, of this task and of others
    progress,       \* checkpoints in its state
    won,            \* the claim that completed it, while that is still known
    recorded        \* the claim whose run is recorded as succeeded

lifeVars == <<status, owner, spent, progress, won, recorded>>

Over == {"succeeded", "failed", "cancelled"}

LifeInit ==
    /\ status = "absent" /\ owner = NoLease /\ spent = {} /\ progress = 0
    /\ won = {} /\ recorded = {}

(* Other tasks may be claimed in the meantime. *)
Spends == spent \subseteq spent' /\ spent' \subseteq Leases

(* The task goes from status s to status r; nobody owns it afterwards. *)
Put(s, r) == status = s /\ status' = r /\ owner' = NoLease /\ UNCHANGED <<won, recorded>>

----------------------------------------------------------------------------
(* The engine. *)

Create == Put("absent", "queued") /\ UNCHANGED progress

(* A claim nobody made before; an owner that was overtaken owns no longer. *)
Take ==
    /\ status \in {"queued", "running", "waiting_approval"} /\ status' = "running"
    /\ owner' \in (Leases \ spent) \cap spent'
    /\ UNCHANGED <<progress, won, recorded>>

(* The owner's checkpoint. *)
Advance ==
    /\ status = "running" /\ progress' = progress + 1
    /\ UNCHANGED <<status, owner, won, recorded>>

(* The owner ends its run, or its claim ran out and it is taken away. *)
GiveUp ==
    /\ \E r \in {"queued", "waiting_input", "waiting_approval", "failed"} : Put("running", r)
    /\ UNCHANGED progress

(* The owner completes the task. *)
Complete ==
    /\ status = "running" /\ status' = "succeeded"
    /\ owner' = NoLease /\ won' = {owner}
    /\ UNCHANGED <<progress, recorded>>

(* The run that completed it is recorded, or it died before. *)
Record ==
    /\ won # {} /\ recorded = {} /\ recorded' = won
    /\ UNCHANGED <<status, owner, progress, won>>
Forget ==
    /\ won # {} /\ recorded = {} /\ won' = {}
    /\ UNCHANGED <<status, owner, progress, recorded>>

(* An operator said what became of the action it waits for. *)
Reconcile ==
    /\ \E r \in {"queued", "failed"} : Put("waiting_approval", r)
    /\ UNCHANGED progress

----------------------------------------------------------------------------
(* The people. *)

Cancel == status \notin {"absent", "succeeded"} /\ Put(status, "cancelled") /\ UNCHANGED progress

Pause == status \notin Over \cup {"absent", "paused"} /\ Put(status, "paused") /\ UNCHANGED progress

(* resume, retry *)
Reopen ==
    /\ \E s \in {"paused", "failed"}, r \in {"queued", "waiting_approval"} : Put(s, r)
    /\ UNCHANGED progress

(* Both write back the state that was on the screen. *)
Escalate == status \notin Over \cup {"absent"} /\ Put(status, "waiting_input") /\ progress' \in Nat
Answer == Put("waiting_input", "queued") /\ progress' \in Nat

----------------------------------------------------------------------------
LifeNext ==
    /\ Spends
    /\ \/ Create \/ Take \/ Advance \/ GiveUp \/ Complete \/ Record \/ Forget \/ Reconcile
       \/ Cancel \/ Pause \/ Reopen \/ Escalate \/ Answer
       \/ UNCHANGED <<status, owner, progress, won, recorded>>

LifeSpec == LifeInit /\ [][LifeNext]_lifeVars
============================================================================
