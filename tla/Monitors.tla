------------------------------ MODULE Monitors ------------------------------
(* Watches of a web page (apps/server/src/engine/service.ts): a monitor row    *)
(* and the task that checks the page for it.  The two are written one after    *)
(* the other, by requests, by maintain() and by the run of the task, so they   *)
(* disagree in between and after a crash.                                      *)
(*                                                                             *)
(* The page's text, the notice of a change and nextCheckAt are left out: a     *)
(* check succeeds or fails, and a scheduled task may fall due at any time.     *)
(* One monitor and its task; a monitor's id is the hash of its request's key,  *)
(* so a repeated request meets the same rows.                                  *)
EXTENDS Naturals

CONSTANTS
    MonWorkers,     \* processes that run a TaskWorker
    MonClients,     \* requests, among them the repeated ones
    Sweeper,        \* maintain()
    NoRun,          \* leaseId: null
    FailureLimit,   \* failures in a row after which a watch is paused (5)
    MaxMonFaults,   \* bound: runs and requests that die, runs that stall
    MaxMonRequests  \* bound: requests

ASSUME MonAssumption ==
    /\ NoRun \notin MonWorkers /\ Sweeper \notin MonClients
    /\ FailureLimit \in Nat \ {0}
    /\ MaxMonFaults \in Nat /\ MaxMonRequests \in Nat

VARIABLES
    monitor,        \* status of the monitor row
    watch,          \* the task's row
    look,           \* the run of the task in each process
    ctl,            \* requests and maintain() in flight
    monSpent        \* counters of the bounded events

monVars == <<monitor, watch, look, ctl, monSpent>>

MonitorStatus == {"absent", "active", "paused", "stopped"}
WatchStatus == {"absent", "paused", "queued", "running", "scheduled", "cancelled"}

NoLook == [pc |-> "off", failures |-> 0, result |-> "scheduled"]
NoCtl == [pc |-> "none", act |-> "create", status |-> "absent", lease |-> NoRun]

MonitorTypeOK ==
    /\ monitor \in MonitorStatus
    /\ watch \in [status : WatchStatus, lease : MonWorkers \cup {NoRun}, expired : BOOLEAN,
                  init : BOOLEAN, fresh : BOOLEAN, failures : 0..FailureLimit]
    /\ look \in [MonWorkers -> [pc : {"off", "begin", "look", "commit"},
                                failures : 0..FailureLimit, result : WatchStatus]]
    /\ ctl \in [MonClients \cup {Sweeper} ->
                  [pc : {"none", "task", "insert", "activate", "put", "read", "swap", "mark"},
                   act : {"create", "pause", "resume", "stop", "check", "reopen"},
                   status : WatchStatus, lease : MonWorkers \cup {NoRun}]]
    /\ monSpent \in [faults : 0..MaxMonFaults, requests : 0..MaxMonRequests]

NoWatch == [status |-> "absent", lease |-> NoRun, expired |-> FALSE, init |-> FALSE,
            fresh |-> TRUE, failures |-> 0]

(* Nothing was requested yet, or the monitor has been checked before. *)
MonInit ==
    /\ \/ monitor = "absent" /\ watch = NoWatch
       \/ monitor = "active" /\ watch = [NoWatch EXCEPT !.status = "scheduled", !.fresh = FALSE]
    /\ look = [w \in MonWorkers |-> NoLook]
    /\ ctl = [c \in MonClients \cup {Sweeper} |-> NoCtl]
    /\ monSpent = [faults |-> 0, requests |-> 0]

AtCtl(c, pc) == ctl[c].pc = pc
CtlGoto(c, pc) == ctl' = [ctl EXCEPT ![c].pc = pc]
CtlDone(c) == ctl' = [ctl EXCEPT ![c] = NoCtl]

Arrives(c) ==
    /\ c \in MonClients /\ AtCtl(c, "none")
    /\ monSpent.requests < MaxMonRequests
    /\ monSpent' = [monSpent EXCEPT !.requests = @ + 1]

----------------------------------------------------------------------------
(* createMonitor: the task is created on hold, then the monitor, then the     *)
(* task is let go.  An existing monitor is only let go, if it is active.      *)
CreateMonitor(c) ==
    /\ Arrives(c)
    /\ IF monitor = "absent" THEN CtlGoto(c, "task")
       ELSE IF monitor = "active" THEN CtlGoto(c, "activate") ELSE CtlDone(c)
    /\ UNCHANGED <<monitor, watch, look>>
CreateHeld(c) ==
    /\ AtCtl(c, "task")
    /\ watch' = IF watch.status = "absent" THEN [watch EXCEPT !.status = "paused", !.init = TRUE]
                ELSE watch
    /\ CtlGoto(c, "insert")
    /\ UNCHANGED <<monitor, look, monSpent>>
InsertMonitor(c) ==
    /\ AtCtl(c, "insert")
    /\ monitor' = IF monitor = "absent" THEN "active" ELSE monitor
    /\ CtlGoto(c, "activate")
    /\ UNCHANGED <<watch, look, monSpent>>

(* maintain(): the monitors found active are let go in case nobody did. *)
Sweep ==
    /\ AtCtl(Sweeper, "none") /\ monitor = "active"
    /\ CtlGoto(Sweeper, "activate")
    /\ UNCHANGED <<monitor, watch, look, monSpent>>

(* Mutant of Activate: the swap expects a task that has run before. *)
Activate_Late(c) ==
    /\ AtCtl(c, "activate")
    /\ watch' = IF watch.status = "paused" /\ watch.init /\ ~watch.fresh
                THEN [watch EXCEPT !.status = "queued", !.init = FALSE] ELSE watch
    /\ CtlDone(c)
    /\ UNCHANGED <<monitor, look, monSpent>>

(* activateMonitor's swap: paused, no attempts, initializingMonitor. *)
Activate(c) ==
    /\ AtCtl(c, "activate")
    /\ watch' = IF watch.status = "paused" /\ watch.init /\ watch.fresh
                THEN [watch EXCEPT !.status = "queued", !.init = FALSE] ELSE watch
    /\ CtlDone(c)
    /\ UNCHANGED <<monitor, look, monSpent>>

----------------------------------------------------------------------------
(* controlMonitor: reads the monitor, puts its new status, then the task.     *)
ControlMonitor(c, act) ==
    /\ Arrives(c)
    /\ monitor # "absent" /\ (monitor = "stopped" => act = "stop")
    /\ ctl' = [ctl EXCEPT ![c].pc = "put", ![c].act = act]
    /\ UNCHANGED <<monitor, watch, look>>

(* POST /tasks/:id/control on the monitor's task: pause, cancel ("stop") and    *)
(* resume ("reopen") begin with the task.                                     *)
ControlTask(c, act) ==
    /\ Arrives(c)
    /\ ctl' = [ctl EXCEPT ![c].pc = "read", ![c].act = act]
    /\ UNCHANGED <<monitor, watch, look>>

StatusFor(act) ==
    IF act = "pause" THEN "paused" ELSE IF act = "stop" THEN "stopped" ELSE "active"

PutMonitor(c) ==
    /\ AtCtl(c, "put")
    /\ monitor' = StatusFor(ctl[c].act)
    /\ CtlGoto(c, "read")
    /\ UNCHANGED <<watch, look, monSpent>>

(* getTask.  A pause of a task at rest and a resume of any other end there.  *)
ReadWatch(c) ==
    /\ AtCtl(c, "read")
    /\ IF \/ watch.status = "absent"
          \/ ctl[c].act = "pause" /\ watch.status \in {"paused", "cancelled"}
          \/ ctl[c].act = "reopen" /\ watch.status # "paused"
       THEN CtlDone(c)
       ELSE ctl' = [ctl EXCEPT ![c].pc = "swap", ![c].status = watch.status,
                               ![c].lease = watch.lease]
    /\ UNCHANGED <<monitor, watch, look, monSpent>>

(* The swap fails when the task changed since: 409 for pause and stop, and    *)
(* nothing at all for resume and check.                                       *)
SwapLost(c) ==
    /\ AtCtl(c, "swap") /\ (watch.status # ctl[c].status \/ watch.lease # ctl[c].lease)
    /\ CtlDone(c)
    /\ UNCHANGED <<monitor, watch, look, monSpent>>

(* control(): the task, then the monitor follows whatever it is by now.       *)
SwapTask(c) ==
    /\ AtCtl(c, "swap") /\ ctl[c].act \in {"pause", "stop", "reopen"}
    /\ watch.status = ctl[c].status /\ watch.lease = ctl[c].lease
    /\ watch' = CASE ctl[c].act = "pause"  -> [watch EXCEPT !.lease = NoRun, !.status = "paused"]
                  [] ctl[c].act = "stop"   -> [watch EXCEPT !.lease = NoRun, !.status = "cancelled"]
                  [] ctl[c].act = "reopen" -> [watch EXCEPT !.status = "queued", !.failures = 0]
    /\ CtlGoto(c, "mark")
    /\ UNCHANGED <<monitor, look, monSpent>>
MarkMonitor(c) ==
    /\ AtCtl(c, "mark")
    /\ monitor' = IF monitor = "absent" THEN "absent" ELSE StatusFor(ctl[c].act)
    /\ CtlDone(c)
    /\ UNCHANGED <<watch, look, monSpent>>

(* resume, check: the run is aborted, if it is in this process, before the    *)
(* swap makes the task due whatever its status was.                           *)
Abort(c) ==
    /\ AtCtl(c, "swap") /\ ctl[c].act \in {"resume", "check"}
    /\ \E w \in MonWorkers : look[w].pc # "off" /\ look' = [look EXCEPT ![w] = NoLook]
    /\ UNCHANGED <<monitor, watch, ctl, monSpent>>
SwapDue(c) ==
    /\ AtCtl(c, "swap") /\ ctl[c].act \in {"resume", "check"}
    /\ watch.status = ctl[c].status /\ watch.lease = ctl[c].lease
    /\ watch' = [watch EXCEPT !.status = "queued", !.lease = NoRun, !.failures = 0]
    /\ CtlDone(c)
    /\ UNCHANGED <<monitor, look, monSpent>>

----------------------------------------------------------------------------
(* The worker: a run of the task reads the monitor, looks at the page, swaps  *)
(* the monitor's row, and the worker's checkpoint ends it.                    *)
HoldsWatch(w) == watch.lease = w /\ watch.status = "running"
LookGoto(w, pc, result) ==
    look' = [look EXCEPT ![w].pc = pc, ![w].result = result]

ClaimWatch(w) ==
    /\ look[w].pc = "off"
    /\ watch.status \in {"queued", "scheduled"} \/ (watch.status = "running" /\ watch.expired)
    /\ watch' = [watch EXCEPT !.status = "running", !.lease = w, !.expired = FALSE,
                              !.fresh = FALSE]
    /\ look' = [look EXCEPT ![w] = [NoLook EXCEPT !.pc = "begin", !.failures = watch.failures]]
    /\ UNCHANGED <<monitor, ctl, monSpent>>

(* Mutant of ObserveInactive: an inactive monitor is looked at all the same. *)
ObserveInactive_Looks(w) ==
    /\ look[w].pc = "begin" /\ monitor \in {"paused", "stopped"}
    /\ LookGoto(w, "look", "scheduled")
    /\ UNCHANGED <<monitor, watch, ctl, monSpent>>

(* observe: a monitor that is not active tells the task what to become. *)
ObserveInactive(w) ==
    /\ look[w].pc = "begin" /\ monitor \in {"paused", "stopped"}
    /\ LookGoto(w, "commit", IF monitor = "paused" THEN "paused" ELSE "cancelled")
    /\ UNCHANGED <<monitor, watch, ctl, monSpent>>
ObserveActive(w) ==
    /\ look[w].pc = "begin" /\ monitor = "active"
    /\ LookGoto(w, "look", "scheduled")
    /\ UNCHANGED <<monitor, watch, ctl, monSpent>>

(* The page was read: checks, lastHash.  A monitor that is no longer active   *)
(* makes it a lost lease, and the row stays as it is until the lease ends.    *)
SaveCheck(w) ==
    /\ look[w].pc = "look"
    /\ look' = IF monitor = "active"
               THEN [look EXCEPT ![w].pc = "commit", ![w].result = "scheduled", ![w].failures = 0]
               ELSE [look EXCEPT ![w] = NoLook]
    /\ UNCHANGED <<monitor, watch, ctl, monSpent>>

(* The page could not be read, or there is no monitor; at the limit monitor   *)
(* and task are both paused.                                                  *)
CheckFails(w) ==
    /\ look[w].pc = "look" \/ (look[w].pc = "begin" /\ monitor = "absent")
    /\ LET failures == look[w].failures + 1  paused == failures >= FailureLimit IN
       /\ monitor' = IF monitor = "active" /\ paused THEN "paused" ELSE monitor
       /\ look' = [look EXCEPT ![w] = [pc |-> "commit", failures |-> failures,
                                       result |-> IF paused THEN "paused" ELSE "scheduled"]]
    /\ UNCHANGED <<watch, ctl, monSpent>>

EndLook(w) ==
    /\ look[w].pc = "commit" /\ HoldsWatch(w)
    /\ watch' = [watch EXCEPT !.status = look[w].result, !.lease = NoRun,
                              !.failures = look[w].failures]
    /\ look' = [look EXCEPT ![w] = NoLook]
    /\ UNCHANGED <<monitor, ctl, monSpent>>
LoseLook(w) ==
    /\ look[w].pc # "off" /\ ~HoldsWatch(w)
    /\ look' = [look EXCEPT ![w] = NoLook]
    /\ UNCHANGED <<monitor, watch, ctl, monSpent>>

(* The lease of a run that is gone ends; a run may also stall past it.        *)
WatchLeaseEnds(w) ==
    /\ HoldsWatch(w) /\ ~watch.expired /\ look[w].pc = "off"
    /\ watch' = [watch EXCEPT !.expired = TRUE]
    /\ UNCHANGED <<monitor, look, ctl, monSpent>>

Fault == monSpent.faults < MaxMonFaults /\ monSpent' = [monSpent EXCEPT !.faults = @ + 1]
StallLook(w) ==
    /\ HoldsWatch(w) /\ ~watch.expired /\ look[w].pc # "off" /\ Fault
    /\ watch' = [watch EXCEPT !.expired = TRUE]
    /\ UNCHANGED <<monitor, look, ctl>>
DieLook(w) ==
    /\ look[w].pc # "off" /\ Fault
    /\ look' = [look EXCEPT ![w] = NoLook]
    /\ UNCHANGED <<monitor, watch, ctl>>
DieCtl(c) ==
    /\ ~AtCtl(c, "none") /\ Fault
    /\ CtlDone(c)
    /\ UNCHANGED <<monitor, watch, look>>

----------------------------------------------------------------------------
LookStep(w) ==
    \/ ObserveInactive(w) \/ ObserveActive(w) \/ SaveCheck(w) \/ CheckFails(w)
    \/ EndLook(w) \/ LoseLook(w)
CtlStep(c) ==
    \/ CreateHeld(c) \/ InsertMonitor(c) \/ Activate(c)
    \/ PutMonitor(c) \/ ReadWatch(c) \/ SwapLost(c) \/ SwapTask(c) \/ MarkMonitor(c)
    \/ SwapDue(c)

MonNext ==
    \/ Sweep
    \/ \E c \in MonClients \cup {Sweeper} :
          \/ CtlStep(c) \/ Abort(c) \/ CreateMonitor(c) \/ DieCtl(c)
          \/ \E act \in {"pause", "resume", "stop", "check"} : ControlMonitor(c, act)
          \/ \E act \in {"pause", "stop", "reopen"} : ControlTask(c, act)
    \/ \E w \in MonWorkers :
          ClaimWatch(w) \/ LookStep(w) \/ WatchLeaseEnds(w) \/ StallLook(w) \/ DieLook(w)

MonSpec == MonInit /\ [][MonNext]_monVars

(* Requests that arrived, runs and maintain() go on; a due task is claimed    *)
(* and a lease that nobody renews ends.                                       *)
MonFairness ==
    /\ WF_monVars(Sweep)
    /\ \A c \in MonClients \cup {Sweeper} : WF_monVars(CtlStep(c))
    /\ \A w \in MonWorkers : WF_monVars(LookStep(w)) /\ WF_monVars(WatchLeaseEnds(w))
    /\ WF_monVars(\E w \in MonWorkers : ClaimWatch(w))

----------------------------------------------------------------------------
(* A paused or stopped watch comes to rest: whatever crashes between the two  *)
(* rows, a 409 of its pause included, its task ends paused or cancelled,      *)
(* unless the monitor is made active again (controlMonitor, observe).         *)
RestsWhenOff ==
    monitor \in {"paused", "stopped"} ~>
       (watch.status \in {"paused", "cancelled"} \/ monitor = "active")

(* A watch that was created is started: a task left on hold by a request that *)
(* died is let go by maintain() (createMonitor, activateMonitor).             *)
HeldIsLetGo ==
    (monitor = "active" /\ watch.status = "paused" /\ watch.init /\ watch.fresh) ~>
       (watch.status # "paused" \/ monitor # "active")
============================================================================
