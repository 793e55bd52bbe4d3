----------------------------- MODULE Procedure -----------------------------
(* What a SOP promises the person who started it, without workers, leases,   *)
(* checkpoints or crashes: the steps are done one after the other, each is   *)
(* recorded once, a step that asks uses up one reply of a person, and a      *)
(* step that needs a review is recorded only after that review's action was  *)
(* carried out.  A reply or an escalation may put the procedure at another    *)
(* step, though never past one that was not done before; nothing else does.  *)
EXTENDS Naturals

CONSTANTS
    N,              \* the steps are 1..N
    Asks,           \* steps whose tool is ask_user
    Reviews,        \* steps whose tool is prepare_email or prepare_event
    Skippable       \* steps with a `when`, or with required: false

VARIABLES
    pos,            \* steps recorded so far
    far,            \* the furthest the procedure has been
    out,            \* what was recorded for each step
    reply,          \* a reply is there that no step has used
    carried,        \* reviews whose action the provider carried out
    phase

procedureVars == <<pos, far, out, reply, carried, phase>>

(* "stopped": paused, or the task failed or was cancelled *)
Phase == {"open", "stopped", "done"}

ProcedureInit ==
    /\ pos = 0 /\ far = 0
    /\ out = [k \in 1..N |-> "none"]
    /\ reply = FALSE
    /\ carried = {}
    /\ phase = "open"

Furthest(p) == IF p > far THEN p ELSE far

(* The next step is done and recorded. *)
Do(k) ==
    /\ phase = "open" /\ k = pos + 1
    /\ k \in Asks => reply
    /\ k \in Reviews => k \in carried
    /\ pos' = k /\ far' = Furthest(k)
    /\ out' = [out EXCEPT ![k] = "done"]
    /\ reply' = IF k \in Asks THEN FALSE ELSE reply
    /\ UNCHANGED <<carried, phase>>

(* The next step is recorded as skipped. *)
Skip(k) ==
    /\ phase = "open" /\ k = pos + 1 /\ k \in Skippable
    /\ pos' = k /\ far' = Furthest(k)
    /\ out' = [out EXCEPT ![k] = "skipped"]
    /\ UNCHANGED <<reply, carried, phase>>

(* A person replies or escalates, and the procedure is at step p from now on, *)
(* with what had been recorded of the steps up to it.                         *)
Tell(p) ==
    /\ phase # "done" /\ p <= far
    /\ pos' = p
    /\ \E o \in [1..p -> {"done", "skipped"}] :
          /\ \A k \in 1..p : o[k] = "skipped" => k \in Skippable
          /\ out' = [k \in 1..N |-> IF k <= p THEN o[k] ELSE "none"]
    /\ reply' \in BOOLEAN
    /\ phase' = "open"
    /\ UNCHANGED <<carried, far>>

(* The provider carries out the action reviewed for step k. *)
CarryOut(k) ==
    /\ k \in Reviews \ carried
    /\ carried' = carried \cup {k}
    /\ UNCHANGED <<pos, far, out, reply, phase>>

(* Paused, failed, cancelled; resumed or retried where it stood. *)
Stop == phase = "open" /\ phase' = "stopped" /\ UNCHANGED <<pos, far, out, reply, carried>>
Reopen == phase = "stopped" /\ phase' = "open" /\ UNCHANGED <<pos, far, out, reply, carried>>

(* Every step is recorded and the procedure is over. *)
Finish ==
    /\ phase = "open" /\ pos = N
    /\ phase' = "done"
    /\ UNCHANGED <<pos, far, out, reply, carried>>

ProcedureNext ==
    \/ \E k \in 1..N : Do(k) \/ Skip(k) \/ CarryOut(k)
    \/ \E p \in 0..N : Tell(p)
    \/ Stop \/ Reopen \/ Finish

ProcedureSpec == ProcedureInit /\ [][ProcedureNext]_procedureVars
============================================================================
