---------------------------- MODULE Maintenance ----------------------------
(* AgentService.maintain (apps/server/src/engine/service.ts) and the trigger   *)
(* evaluator (engine/sop-triggers.ts).  Every process that runs the service    *)
(* starts a pass each minute unless its last pass is still going (refreshing). *)
(* A pass rotates over the tenants and republishes outcomes from a cursor of   *)
(* each owner, then evaluates the cron and mail triggers of SOPs.  Processes   *)
(* share the rows only; each read and each write is a step of its own.         *)
(*                                                                             *)
(* Actions that expire or get stuck (Approvals) and monitors (Monitors) have   *)
(* their sweeps in those modules; accepted ideas, purges, embeddings and the   *)
(* kernel's loops are left out.  One owner stands for each tenant.             *)
EXTENDS Naturals, FiniteSets

CONSTANTS
    Procs,          \* processes that run AgentService.start
    T,              \* active tenants, 1..T in the order of collectActiveTenants
    Window,         \* tenants of one pass (3 in the code)
    K,              \* tasks 1..K, by updated_at of their final checkpoint
    PageSize,       \* outcomes republished for one owner in a pass (200)
    S,              \* SOPs 1..S, by updated_at
    SopPage,        \* SOPs evaluated in a pass (200)
    CronSops,       \* SOPs with a cron trigger; the others match mail
    DueMinutes,     \* the minutes at which the cron expression matches
    MaxMinute,      \* bound: the clock stops there
    Msgs,           \* mail of the owner
    Matching,       \* mail that the pattern of a mail trigger matches
    Cap,            \* entries kept in seenMessageIds (1000)
    MaxFaults       \* bound: processes that die, statements that throw and are logged

ASSUME MaintenanceAssumption ==
    /\ T \in Nat \ {0} /\ Window \in Nat \ {0} /\ K \in Nat /\ PageSize \in Nat \ {0}
    /\ S \in Nat /\ SopPage \in Nat /\ CronSops \subseteq 1..S
    /\ MaxMinute \in Nat /\ DueMinutes \subseteq 0..MaxMinute
    /\ Matching \subseteq Msgs /\ IsFiniteSet(Msgs) /\ Cap \in Nat
    /\ MaxFaults \in Nat

VARIABLES
    now,            \* the UTC minute
    inbox,          \* mail in the workspace snapshot
    finished,       \* tasks 1..finished have reached their final checkpoint
    published,      \* tasks whose outcome was published
    tenantCursor,   \* "maintain-tenant-cursor": index of the next tenant
    ownerCursor,    \* "maintain-cursor" of each tenant's owner
    trig,           \* "sop-trigger-state"
    created,        \* idempotency keys under which a task was created
    pass,           \* what each process is doing
    faults

world == <<now, inbox, finished>>
rows == <<published, tenantCursor, ownerCursor, trig, created>>
vars == <<world, rows, faults, pass>>

(* lastFiredAt 0 is "never": minutes count from 1 in the buckets. *)
Trigger == [fired : 0..(MaxMinute + 1), seen : SUBSET Msgs]
Keys == {<<s, "cron", b>> : s \in 1..S, b \in 1..(MaxMinute + 1)} \cup
        {<<s, "mail", m>> : s \in 1..S, m \in Msgs}

PC == {"idle", "rotate", "tenant", "advance", "sops", "cron", "create", "snapshot",
       "mail", "mark"}

Pass == [pc     : PC,
         index  : 0..T,                 \* cursor read; then the tenant at hand
         last   : 0..T,                 \* last tenant of this pass's window
         upto   : 0..K,                 \* last outcome of the page
         sop    : 0..S,
         state  : Trigger,              \* the trigger state as read
         bucket : 0..(MaxMinute + 1),
         snap   : SUBSET Msgs]          \* mail of the snapshot still to handle

Idle == [pc |-> "idle", index |-> 0, last |-> 0, upto |-> 0, sop |-> 0,
         state |-> [fired |-> 0, seen |-> {}], bucket |-> 0, snap |-> {}]

MaintenanceTypeOK ==
    /\ now \in 0..MaxMinute
    /\ inbox \subseteq Msgs
    /\ finished \in 0..K /\ published \subseteq 1..K
    /\ tenantCursor \in 0..(T - 1)
    /\ ownerCursor \in [1..T -> 0..K]
    /\ trig \in [1..S -> Trigger]
    /\ created \subseteq Keys
    /\ pass \in [Procs -> Pass]
    /\ faults \in 0..MaxFaults

Init ==
    /\ now = 0 /\ inbox = {} /\ finished = 0 /\ published = {}
    /\ tenantCursor = 0 /\ ownerCursor = [t \in 1..T |-> 0]
    /\ trig = [s \in 1..S |-> [fired |-> 0, seen |-> {}]]
    /\ created = {}
    /\ pass = [p \in Procs |-> Idle]
    /\ faults = 0

Least(a, b) == IF a < b THEN a ELSE b
At(p, pc) == pass[p].pc = pc
Goto(p, pc) == pass' = [pass EXCEPT ![p].pc = pc]

----------------------------------------------------------------------------
(* The world: a minute passes, mail arrives, a task reaches its final        *)
(* checkpoint and its worker publishes the outcome, or dies before it.       *)
Minute ==
    /\ now < MaxMinute /\ now' = now + 1
    /\ UNCHANGED <<inbox, finished, rows, pass, faults>>
MailArrives(m) ==
    /\ m \notin inbox /\ inbox' = inbox \cup {m}
    /\ UNCHANGED <<now, finished, rows, pass, faults>>
TaskEnds ==
    /\ finished < K /\ finished' = finished + 1
    /\ published' \in {published, published \cup {finished + 1}}
    /\ UNCHANGED <<now, inbox, tenantCursor, ownerCursor, trig, created, pass, faults>>

(* The process dies and is restarted: `refreshing` is false again.           *)
Crash(p) ==
    /\ ~At(p, "idle") /\ faults < MaxFaults
    /\ faults' = faults + 1
    /\ pass' = [pass EXCEPT ![p] = Idle]
    /\ UNCHANGED <<world, rows>>

----------------------------------------------------------------------------
(* sopPage is always empty (SOPs have no status), so the SOPs of a pass are   *)
(* the first SopPage rows of the scan, in every pass.                         *)
Evaluable == 1..Least(S, SopPage)

(* The loop over the SOPs goes on with s, or the pass is over. *)
EvaluateSop(p, s) ==
    pass' = [pass EXCEPT ![p] = IF s \in Evaluable THEN [Idle EXCEPT !.pc = "sops", !.sop = s]
                                ELSE Idle]
NextSop(p) == EvaluateSop(p, pass[p].sop + 1)

(* maintain(): the tenants.                                                  *)

(* The timer fires; `refreshing` keeps a second pass out.  The cursor is read. *)
Tick(p) ==
    /\ At(p, "idle")
    /\ pass' = [pass EXCEPT ![p].pc = "rotate", ![p].index = tenantCursor]
    /\ UNCHANGED <<world, rows, faults>>

(* Mutant of Rotated: the cursor restarts as soon as the window reaches the end. *)
Rotated_Restart(index) == IF index + Window + 1 > T - 1 THEN 0 ELSE index + Window

(* Mutant of Rotated: no modulo. *)
Rotated_Unbounded(index) == index + Window

(* The index put back for the next pass. *)
Rotated(index) == (index + Window) % T

(* slice(startIndex, startIndex + 3), and the cursor moves on. *)
Rotate(p) ==
    /\ At(p, "rotate")
    /\ tenantCursor' = Rotated(pass[p].index)
    /\ pass' = [pass EXCEPT ![p].pc = "tenant", ![p].index = @ + 1,
                            ![p].last = Least(pass[p].index + Window, T)]
    /\ UNCHANGED <<world, published, ownerCursor, trig, created, faults>>

(* Mutant of OutcomePage: the row next to the cursor is left out. *)
OutcomePage_SkipsOne(t) ==
    {k \in 1..finished : k > ownerCursor[t] + 1 /\ k <= ownerCursor[t] + PageSize}

(* The rows of maintainOwner's page: past the cursor, oldest first. *)
OutcomePage(t) == {k \in 1..finished : k > ownerCursor[t] /\ k <= ownerCursor[t] + PageSize}

(* maintainTenant, maintainOwner: publish the page; a throw is logged.       *)
MaintainTenant(p) ==
    /\ At(p, "tenant")
    /\ LET t == pass[p].index  page == OutcomePage(t) IN
       \E failed \in SUBSET page :
          /\ faults + Cardinality(failed) <= MaxFaults
          /\ faults' = faults + Cardinality(failed)
          /\ published' = published \cup (page \ failed)
          /\ pass' = [pass EXCEPT ![p].pc = "advance",
                        ![p].upto = IF page = {} THEN ownerCursor[t]
                                    ELSE Least(ownerCursor[t] + PageSize, finished)]
    /\ UNCHANGED <<world, tenantCursor, ownerCursor, trig, created>>

(* The cursor moves past the page, failed rows included. *)
AdvanceOwner(p) ==
    /\ At(p, "advance")
    /\ ownerCursor' = [ownerCursor EXCEPT ![pass[p].index] = pass[p].upto]
    /\ IF pass[p].index < pass[p].last
       THEN pass' = [pass EXCEPT ![p].pc = "tenant", ![p].index = @ + 1]
       ELSE EvaluateSop(p, 1)
    /\ UNCHANGED <<world, published, tenantCursor, trig, created, faults>>

----------------------------------------------------------------------------
(* maintain(): the SOP triggers.                                              *)

(* evaluateCron: the matcher looks at the clock once ... *)
CronQuiet(p) ==
    /\ At(p, "sops") /\ pass[p].sop \in CronSops /\ now \notin DueMinutes
    /\ NextSop(p)
    /\ UNCHANGED <<world, rows, faults>>
CronMatches(p) ==
    /\ At(p, "sops") /\ pass[p].sop \in CronSops /\ now \in DueMinutes
    /\ pass' = [pass EXCEPT ![p].pc = "cron", ![p].bucket = now + 1]
    /\ UNCHANGED <<world, rows, faults>>

(* ... and the state tells whether this minute has fired already.            *)
CronFired(p) ==
    /\ At(p, "cron") /\ trig[pass[p].sop].fired = pass[p].bucket
    /\ NextSop(p)
    /\ UNCHANGED <<world, rows, faults>>
CronDue(p) ==
    /\ At(p, "cron") /\ trig[pass[p].sop].fired # pass[p].bucket
    /\ pass' = [pass EXCEPT ![p].pc = "create", ![p].state = trig[pass[p].sop]]
    /\ UNCHANGED <<world, rows, faults>>
CronCreate(p) ==
    /\ At(p, "create")
    /\ created' = created \cup {<<pass[p].sop, "cron", pass[p].bucket>>}
    /\ pass' = [pass EXCEPT ![p].pc = "mark", ![p].state.fired = pass[p].bucket]
    /\ UNCHANGED <<world, published, tenantCursor, ownerCursor, trig, faults>>

(* evaluateEmail: the state, then the workspace's snapshot; a snapshot that   *)
(* throws ends the evaluation.                                                *)
MailState(p) ==
    /\ At(p, "sops") /\ pass[p].sop \notin CronSops
    /\ pass' = [pass EXCEPT ![p].pc = "snapshot", ![p].state = trig[pass[p].sop]]
    /\ UNCHANGED <<world, rows, faults>>
MailSnapshot(p) ==
    /\ At(p, "snapshot") /\ inbox \ pass[p].state.seen # {}
    /\ pass' = [pass EXCEPT ![p].pc = "mail", ![p].snap = inbox \ pass[p].state.seen]
    /\ UNCHANGED <<world, rows, faults>>

(* Nothing is new: the state is not put. *)
MailNothing(p) ==
    /\ At(p, "snapshot") /\ inbox \subseteq pass[p].state.seen
    /\ NextSop(p)
    /\ UNCHANGED <<world, rows, faults>>

(* ... and every message in it that was not seen is handled in turn.         *)
MailCreate(p, m) ==
    /\ At(p, "mail") /\ m \in pass[p].snap
    /\ created' = IF m \in Matching THEN created \cup {<<pass[p].sop, "mail", m>>} ELSE created
    /\ pass' = [pass EXCEPT ![p].state.seen = @ \cup {m}, ![p].snap = @ \ {m}]
    /\ UNCHANGED <<world, published, tenantCursor, ownerCursor, trig, faults>>
MailDone(p) ==
    /\ At(p, "mail") /\ pass[p].snap = {}
    /\ Goto(p, "mark")
    /\ UNCHANGED <<world, rows, faults>>

(* Mutant of EvaluateThrows: a message counts as seen although its task threw. *)
EvaluateThrows_Marks(p) ==
    /\ At(p, "mail") /\ pass[p].snap \cap Matching # {}
    /\ faults < MaxFaults /\ faults' = faults + 1
    /\ pass' = [pass EXCEPT ![p].pc = "mark", ![p].state.seen = @ \cup pass[p].snap]
    /\ UNCHANGED <<world, rows>>

(* The snapshot throws, or createTask does (no room for a task, store): the   *)
(* loop goes on with the next SOP and nothing is marked.                      *)
EvaluateThrows(p) ==
    /\ \/ At(p, "create") \/ At(p, "snapshot")
       \/ At(p, "mail") /\ pass[p].snap \cap Matching # {}
    /\ faults < MaxFaults /\ faults' = faults + 1
    /\ NextSop(p)
    /\ UNCHANGED <<world, rows>>

(* The put of the trigger state: the copy that was read, with what is new;    *)
(* of more than Cap messages some are forgotten.                              *)
Mark(p) ==
    /\ At(p, "mark")
    /\ \E seen \in SUBSET pass[p].state.seen :
          /\ Cardinality(seen) = Least(Cap, Cardinality(pass[p].state.seen))
          /\ trig' = [trig EXCEPT ![pass[p].sop] = [pass[p].state EXCEPT !.seen = seen]]
    /\ NextSop(p)
    /\ UNCHANGED <<world, published, tenantCursor, ownerCursor, created, faults>>

----------------------------------------------------------------------------
Maintain(p) ==
    \/ Tick(p) \/ Rotate(p) \/ MaintainTenant(p) \/ AdvanceOwner(p)
    \/ CronQuiet(p) \/ CronMatches(p) \/ CronFired(p) \/ CronDue(p)
    \/ CronCreate(p) \/ MailState(p) \/ MailSnapshot(p) \/ MailNothing(p)
    \/ (\E m \in Msgs : MailCreate(p, m)) \/ MailDone(p) \/ EvaluateThrows(p)
    \/ Mark(p)

Next ==
    \/ Minute \/ TaskEnds \/ \E m \in Msgs : MailArrives(m)
    \/ \E p \in Procs : Maintain(p) \/ Crash(p)

Spec == Init /\ [][Next]_vars

(* The interval timer fires for ever and a pass goes on; time, mail, tasks,  *)
(* throws and crashes are not assumed to happen.                             *)
FairSpec == Spec /\ \A p \in Procs : WF_vars(Maintain(p))

----------------------------------------------------------------------------
(* A message is marked as seen for a SOP only when the task it calls for      *)
(* exists, and a minute as fired only when its task exists, whatever crashes, *)
(* throws or overwrites the state in between (evaluateEmail, evaluateCron).   *)
MarkedWasStarted ==
    \A s \in 1..S :
       /\ s \notin CronSops =>
             \A m \in trig[s].seen \cap Matching : <<s, "mail", m>> \in created
       /\ trig[s].fired # 0 => <<s, "cron", trig[s].fired>> \in created

(* A matching message starts its SOP in the end, for every SOP a pass reaches.*)
MailStartsSop ==
    \A s \in Evaluable \ CronSops : \A m \in Matching :
       m \in inbox ~> <<s, "mail", m>> \in created

(* Whenever a pass begins, every tenant's turn comes, in it or a later one:    *)
(* the rotating window leaves no tenant out although it does not wrap around   *)
(* and two processes move it.                                                  *)
EveryTenantServed ==
    \A t \in 1..T : (\E p \in Procs : At(p, "rotate"))
                      ~> (\E p \in Procs : At(p, "advance") /\ pass[p].index = t)

(* "Recover publications if the process exited after committing an outcome":  *)
(* every outcome is published in the end, as long as fewer publications throw *)
(* than there are owners whose cursors pass over it.                          *)
OutcomePublished == \A k \in 1..K : k <= finished ~> k \in published
============================================================================
