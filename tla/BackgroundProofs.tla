-------------------------- MODULE BackgroundProofs --------------------------
(* Theorems about the maintenance pass and the monitors, for any number of   *)
(* processes, tenants, procedures, messages and requests.                    *)
EXTENDS MCBackground, FiniteSetTheorems, TLAPS

(* What a trigger state of procedure s says has happened did happen: the     *)
(* tasks it calls for are among the keys.                                    *)
Told(s, state, keys) ==
    /\ s \notin CronSops => \A m \in state.seen \cap Matching : <<s, "mail", m>> \in keys
    /\ state.fired # 0 => <<s, "cron", state.fired>> \in keys

InTenants == {"tenant", "advance"}
InSops == {"sops", "cron", "create", "snapshot", "mail", "mark"}

(* Where a pass stands bounds what it holds: the tenant and the procedure at *)
(* hand exist, and the copy of the trigger state that it will put back is    *)
(* true of the tasks created so far.                                         *)
Placed(x) ==
    /\ x.pc = "rotate" => x.index < T
    /\ x.pc \in InTenants => x.index >= 1
    /\ x.pc \in InSops => x.sop >= 1
    /\ x.pc \in {"cron", "create"} => x.sop \in CronSops /\ x.bucket >= 1
    /\ x.pc \in {"snapshot", "mail"} => x.sop \notin CronSops
Honest(x, keys) ==
    x.pc \in {"create", "snapshot", "mail", "mark"} => Told(x.sop, x.state, keys)

MaintenanceInv ==
    /\ MaintenanceTypeOK
    /\ \A p \in Procs : Placed(pass[p]) /\ Honest(pass[p], created)
    /\ \A s \in 1..S : Told(s, trig[s], created)

(* The failures that a run counts stay under the limit until it pauses the   *)
(* task, and a task that can be claimed carries fewer than the limit.        *)
CountsFailures(x) ==
    /\ x.pc \in {"begin", "look"} => x.failures < FailureLimit
    /\ x.pc = "commit" => /\ x.result \in {"scheduled", "paused", "cancelled"}
                          /\ x.result = "scheduled" => x.failures < FailureLimit
Claimable(x) ==
    /\ x.status \in {"queued", "scheduled", "running"} => x.failures < FailureLimit
    /\ x.status = "running" => ~x.fresh
    /\ x.fresh => x.failures = 0

MonitorsInv ==
    /\ MonitorTypeOK
    /\ \A w \in MonWorkers : CountsFailures(look[w])
    /\ Claimable(watch)

----------------------------------------------------------------------------
(* The maintenance pass.                                                     *)

(* More tasks make no state false. *)
LEMMA ToldGrows ==
  ASSUME NEW s, NEW state, NEW keys, NEW more, keys \subseteq more, Told(s, state, keys)
  PROVE  Told(s, state, more)
BY DEF Told

(* A step of one process replaces its record and may create tasks. *)
LEMMA PassUpdate ==
  ASSUME MaintenanceInv, NEW p \in Procs, NEW y \in Pass,
         pass' = [pass EXCEPT ![p] = y], created \subseteq created',
         Placed(y), Honest(y, created')
  PROVE  /\ pass' \in [Procs -> Pass]
         /\ \A q \in Procs : Placed(pass'[q]) /\ Honest(pass'[q], created')
<1>1. pass \in [Procs -> Pass]
  BY DEF MaintenanceInv, MaintenanceTypeOK
<1>2. pass' \in [Procs -> Pass]
  BY <1>1
<1>3. ASSUME NEW q \in Procs, q # p PROVE Placed(pass'[q]) /\ Honest(pass'[q], created')
  <2>1. pass'[q] = pass[q]
    BY <1>1, <1>3
  <2>2. Placed(pass[q]) /\ Honest(pass[q], created)
    BY DEF MaintenanceInv
  <2>3. Honest(pass[q], created')
    BY <2>2, ToldGrows DEF Honest
  <2>4. QED
    BY <2>1, <2>2, <2>3
<1>4. pass'[p] = y
  BY <1>1
<1>5. QED
  BY <1>2, <1>3, <1>4

(* The rows of the trigger states stay true while they are not written. *)
LEMMA TriggersKept ==
  ASSUME MaintenanceInv, created \subseteq created', trig' = trig
  PROVE  \A s \in 1..S : Told(s, trig'[s], created')
BY ToldGrows DEF MaintenanceInv

LEMMA IdleFits == Idle \in Pass /\ Placed(Idle) /\ \A keys : Honest(Idle, keys)
BY MaintenanceAssumption
   DEF Idle, Pass, PC, Trigger, Placed, Honest, InTenants, InSops

(* The loop over the SOPs goes on with one that exists, or the pass ends. *)
LEMMA EvaluateFits ==
  ASSUME NEW p \in Procs, NEW s \in Nat \ {0}, EvaluateSop(p, s)
  PROVE  \E y \in Pass : /\ pass' = [pass EXCEPT ![p] = y]
                         /\ Placed(y) /\ \A keys : Honest(y, keys)
<1>1. CASE s \in Evaluable
  <2> DEFINE y == [Idle EXCEPT !.pc = "sops", !.sop = s]
  <2>1. s \in 1..S
    BY <1>1, MaintenanceAssumption DEF Evaluable, Least
  <2>5. s \in 0..S
    BY <2>1, MaintenanceAssumption
  <2>6. y \in Pass /\ y.pc = "sops" /\ y.sop = s
    BY <2>5, IdleFits DEF Pass, PC
  <2>2. y \in Pass /\ Placed(y) /\ \A keys : Honest(y, keys)
    BY <2>1, <2>6 DEF Placed, Honest, InTenants, InSops
  <2>3. pass' = [pass EXCEPT ![p] = y]
    BY <1>1 DEF EvaluateSop
  <2>4. QED
    BY <2>2, <2>3
<1>2. CASE s \notin Evaluable
  BY <1>2, IdleFits DEF EvaluateSop
<1>3. QED
  BY <1>1, <1>2

(* A step that writes nothing but the record of its process. *)
LEMMA QuietStep ==
  ASSUME MaintenanceInv, NEW p \in Procs, NEW y \in Pass,
         pass' = [pass EXCEPT ![p] = y], Placed(y), Honest(y, created),
         UNCHANGED <<world, rows>>, faults' \in 0..MaxFaults
  PROVE  MaintenanceInv'
<1>1. /\ created' = created /\ trig' = trig /\ now' = now /\ inbox' = inbox
      /\ finished' = finished /\ published' = published
      /\ tenantCursor' = tenantCursor /\ ownerCursor' = ownerCursor
  BY DEF world, rows
<1>2. /\ pass' \in [Procs -> Pass]
      /\ \A q \in Procs : Placed(pass'[q]) /\ Honest(pass'[q], created')
  BY <1>1, PassUpdate
<1>3. MaintenanceTypeOK'
  BY <1>1, <1>2 DEF MaintenanceInv, MaintenanceTypeOK
<1>4. \A s \in 1..S : Told(s, trig'[s], created')
  BY <1>1, TriggersKept
<1>5. QED
  BY <1>2, <1>3, <1>4 DEF MaintenanceInv

(* The evaluation of a SOP ends and the next one, if any, begins. *)
LEMMA NextSopStep ==
  ASSUME MaintenanceInv, NEW p \in Procs, NextSop(p),
         UNCHANGED <<world, rows>>, faults' \in 0..MaxFaults
  PROVE  MaintenanceInv'
<1>1. pass[p].sop + 1 \in Nat \ {0}
  BY MaintenanceAssumption DEF MaintenanceInv, MaintenanceTypeOK, Pass
<1>2. PICK y \in Pass : /\ pass' = [pass EXCEPT ![p] = y]
                       /\ Placed(y) /\ \A keys : Honest(y, keys)
  BY <1>1, EvaluateFits DEF NextSop
<1>3. QED
  BY <1>2, QuietStep

(* What a process's record is before a step. *)
LEMMA PassFields ==
  ASSUME MaintenanceInv, NEW p \in Procs
  PROVE  /\ pass[p] \in Pass /\ Placed(pass[p]) /\ Honest(pass[p], created)
         /\ pass \in [Procs -> Pass]
BY DEF MaintenanceInv, MaintenanceTypeOK

LEMMA TickKeeps == ASSUME MaintenanceInv, NEW p \in Procs, Tick(p) PROVE MaintenanceInv'
<1>1. PICK x \in Pass : x = pass[p]
  BY PassFields
<1>2. PICK c \in 0..(T - 1) : c = tenantCursor
  BY DEF MaintenanceInv, MaintenanceTypeOK
<1> DEFINE y == [x EXCEPT !.pc = "rotate", !.index = c]
<1>9. c \in 0..T
  BY MaintenanceAssumption
<1>3. y \in Pass
  BY <1>9 DEF Pass, PC
<1>4. y.pc = "rotate" /\ y.index = c
  BY DEF Pass
<1>5. Placed(y) /\ Honest(y, created)
  BY <1>4, MaintenanceAssumption DEF Placed, Honest, InTenants, InSops
<1>6. pass' = [pass EXCEPT ![p] = y]
  BY <1>1, <1>2, PassFields DEF Tick
<1>7. faults' \in 0..MaxFaults /\ UNCHANGED <<world, rows>>
  BY DEF Tick, MaintenanceInv, MaintenanceTypeOK
<1>8. QED
  BY <1>3, <1>5, <1>6, <1>7, QuietStep

LEMMA RotateKeeps == ASSUME MaintenanceInv, NEW p \in Procs, Rotate(p) PROVE MaintenanceInv'
<1>1. PICK x \in Pass : x = pass[p]
  BY PassFields
<1>2. x.index \in 0..(T - 1) /\ x.index < T
  BY <1>1, PassFields, MaintenanceAssumption DEF Rotate, At, Placed, Pass
<1>9. PICK i \in 0..(T - 1) : i = x.index
  BY <1>2
<1>10. PICK l \in 0..T : l = Least(i + Window, T)
  BY MaintenanceAssumption DEF Least
<1>15. PICK j \in 0..T : j = i + 1
  BY MaintenanceAssumption
<1> DEFINE y == [x EXCEPT !.pc = "tenant", !.index = j, !.last = l]
<1>3. y \in Pass
  BY DEF Pass, PC
<1>4. y.pc = "tenant" /\ y.index = j
  BY DEF Pass
<1>5. Placed(y) /\ Honest(y, created')
  BY <1>4, <1>15, MaintenanceAssumption DEF Placed, Honest, InTenants, InSops
<1>6. pass' = [pass EXCEPT ![p] = y]
  BY <1>1, <1>9, <1>10, <1>15, PassFields DEF Rotate
<1>7. (i + Window) % T \in 0..(T - 1)
  BY MaintenanceAssumption
<1>11. /\ tenantCursor' \in 0..(T - 1)
       /\ created' = created /\ trig' = trig /\ now' = now /\ inbox' = inbox
       /\ finished' = finished /\ published' = published
       /\ ownerCursor' = ownerCursor /\ faults' = faults
  BY <1>1, <1>7, <1>9 DEF Rotate, Rotated, world
<1>12. /\ pass' \in [Procs -> Pass]
       /\ \A q \in Procs : Placed(pass'[q]) /\ Honest(pass'[q], created')
  BY <1>3, <1>5, <1>6, <1>11, PassUpdate
<1>13. MaintenanceTypeOK'
  BY <1>11, <1>12 DEF MaintenanceInv, MaintenanceTypeOK
<1>14. QED
  BY <1>11, <1>12, <1>13, TriggersKept DEF MaintenanceInv

LEMMA MaintainTenantKeeps ==
  ASSUME MaintenanceInv, NEW p \in Procs, MaintainTenant(p) PROVE MaintenanceInv'
<1>1. PICK x \in Pass : x = pass[p]
  BY PassFields
<1>2. x.pc = "tenant" /\ x.index \in 1..T
  BY <1>1, PassFields, MaintenanceAssumption DEF MaintainTenant, At, Placed, Pass, InTenants
<1> DEFINE page == OutcomePage(x.index)
<1>3. /\ finished \in 0..K /\ ownerCursor[x.index] \in 0..K
      /\ published \subseteq 1..K /\ faults \in 0..MaxFaults
  BY <1>2 DEF MaintenanceInv, MaintenanceTypeOK
<1>4. page \subseteq 1..finished /\ page \subseteq 1..K
  BY <1>3, MaintenanceAssumption DEF OutcomePage
<1>5. IsFiniteSet(1..finished)
  <2>1. finished \in Int /\ 1 \in Int
    BY <1>3, MaintenanceAssumption
  <2>2. QED
    BY <2>1, FS_Interval
<1>6. PICK u \in 0..K : u = IF page = {} THEN ownerCursor[x.index]
                            ELSE Least(ownerCursor[x.index] + PageSize, finished)
  BY <1>3, MaintenanceAssumption DEF Least
<1>7. PICK failed \in SUBSET page :
        /\ faults + Cardinality(failed) <= MaxFaults
        /\ faults' = faults + Cardinality(failed)
        /\ published' = published \cup (page \ failed)
        /\ pass' = [pass EXCEPT ![p].pc = "advance", ![p].upto = u]
  BY <1>1, <1>6 DEF MaintainTenant
<1>8. Cardinality(failed) \in Nat
  <2>1. failed \subseteq 1..finished
    BY <1>4
  <2>2. IsFiniteSet(failed)
    BY <1>5, <2>1, FS_Subset
  <2>3. QED
    BY <2>2, FS_CardinalityType
<1>9. faults' \in 0..MaxFaults
  BY <1>3, <1>7, <1>8, MaintenanceAssumption
<1>10. published' \subseteq 1..K
  BY <1>3, <1>4, <1>7
<1> DEFINE y == [x EXCEPT !.pc = "advance", !.upto = u]
<1>11. y \in Pass
  BY DEF Pass, PC
<1>12. y.pc = "advance" /\ y.index = x.index
  BY DEF Pass
<1>13. Placed(y) /\ Honest(y, created')
  BY <1>2, <1>12, MaintenanceAssumption DEF Placed, Honest, InTenants, InSops
<1>14. pass' = [pass EXCEPT ![p] = y]
  BY <1>1, <1>7, PassFields
<1>15. /\ created' = created /\ trig' = trig /\ now' = now /\ inbox' = inbox
       /\ finished' = finished /\ tenantCursor' = tenantCursor
       /\ ownerCursor' = ownerCursor
  BY DEF MaintainTenant, world
<1>16. /\ pass' \in [Procs -> Pass]
       /\ \A q \in Procs : Placed(pass'[q]) /\ Honest(pass'[q], created')
  BY <1>11, <1>13, <1>14, <1>15, PassUpdate
<1>17. MaintenanceTypeOK'
  BY <1>9, <1>10, <1>15, <1>16 DEF MaintenanceInv, MaintenanceTypeOK
<1>18. QED
  BY <1>15, <1>16, <1>17, TriggersKept DEF MaintenanceInv

LEMMA AdvanceOwnerKeeps ==
  ASSUME MaintenanceInv, NEW p \in Procs, AdvanceOwner(p) PROVE MaintenanceInv'
<1>1. PICK x \in Pass : x = pass[p]
  BY PassFields
<1>2. x.pc = "advance" /\ x.index \in 1..T /\ x.last \in 0..T /\ x.upto \in 0..K
  BY <1>1, PassFields, MaintenanceAssumption DEF AdvanceOwner, At, Placed, Pass, InTenants
<1>3. \E y \in Pass : /\ pass' = [pass EXCEPT ![p] = y]
                      /\ Placed(y) /\ Honest(y, created')
  <2>1. CASE x.index < x.last
    <3>1. PICK i \in 1..T : i = x.index + 1
      BY <1>2, <2>1, MaintenanceAssumption
    <3> DEFINE y == [x EXCEPT !.pc = "tenant", !.index = i]
    <3>7. i \in 0..T
      BY MaintenanceAssumption
    <3>2. y \in Pass
      BY <3>7 DEF Pass, PC
    <3>3. y.pc = "tenant" /\ y.index = i
      BY DEF Pass
    <3>4. Placed(y) /\ Honest(y, created')
      BY <3>3, MaintenanceAssumption DEF Placed, Honest, InTenants, InSops
    <3>5. pass' = [pass EXCEPT ![p] = y]
      BY <1>1, <2>1, <3>1, PassFields DEF AdvanceOwner
    <3>6. QED
      BY <3>2, <3>4, <3>5
  <2>2. CASE ~(x.index < x.last)
    <3>1. EvaluateSop(p, 1)
      BY <1>1, <2>2 DEF AdvanceOwner
    <3>2. QED
      BY <3>1, EvaluateFits
  <2>3. QED
    BY <2>1, <2>2
<1>4. PICK y \in Pass : /\ pass' = [pass EXCEPT ![p] = y]
                       /\ Placed(y) /\ Honest(y, created')
  BY <1>3
<1>5. ownerCursor' \in [1..T -> 0..K]
  BY <1>1, <1>2 DEF AdvanceOwner, MaintenanceInv, MaintenanceTypeOK
<1>6. /\ created' = created /\ trig' = trig /\ now' = now /\ inbox' = inbox
      /\ finished' = finished /\ published' = published
      /\ tenantCursor' = tenantCursor /\ faults' = faults
  BY DEF AdvanceOwner, world
<1>7. /\ pass' \in [Procs -> Pass]
      /\ \A q \in Procs : Placed(pass'[q]) /\ Honest(pass'[q], created')
  BY <1>4, <1>6, PassUpdate
<1>8. MaintenanceTypeOK'
  BY <1>5, <1>6, <1>7 DEF MaintenanceInv, MaintenanceTypeOK
<1>9. QED
  BY <1>6, <1>7, <1>8, TriggersKept DEF MaintenanceInv

(* The states as read from the rows: a SOP that exists has a true one. *)
LEMMA RowsTrue ==
  ASSUME MaintenanceInv, NEW s \in 1..S
  PROVE  trig[s] \in Trigger /\ Told(s, trig[s], created)
BY DEF MaintenanceInv, MaintenanceTypeOK

(* A pass that evaluates a procedure evaluates one that exists. *)
LEMMA SopAtHand ==
  ASSUME MaintenanceInv, NEW p \in Procs, pass[p].pc \in InSops
  PROVE  pass[p].sop \in 1..S
BY PassFields, MaintenanceAssumption DEF Placed, Pass

(* The clock is looked at, and the minute compared with the one that fired. *)
LEMMA CronKeeps ==
  ASSUME MaintenanceInv, NEW p \in Procs,
         CronQuiet(p) \/ CronMatches(p) \/ CronFired(p) \/ CronDue(p)
  PROVE  MaintenanceInv'
<1>1. PICK x \in Pass : x = pass[p]
  BY PassFields
<1>2. UNCHANGED <<world, rows>> /\ faults' \in 0..MaxFaults
  BY DEF CronQuiet, CronMatches, CronFired, CronDue, MaintenanceInv, MaintenanceTypeOK
<1>3. CASE CronQuiet(p) \/ CronFired(p)
  BY <1>2, <1>3, NextSopStep DEF CronQuiet, CronFired
<1>4. CASE CronMatches(p)
  <2>1. PICK b \in 0..(MaxMinute + 1) : b = now + 1
    BY MaintenanceAssumption DEF MaintenanceInv, MaintenanceTypeOK
  <2>2. b >= 1
    BY <2>1, MaintenanceAssumption DEF MaintenanceInv, MaintenanceTypeOK
  <2>3. x.pc = "sops" /\ x.sop \in CronSops
    BY <1>1, <1>4 DEF CronMatches, At
  <2>4. x.sop >= 1
    BY <1>1, <2>3, SopAtHand, MaintenanceAssumption DEF InSops
  <2> DEFINE y == [x EXCEPT !.pc = "cron", !.bucket = b]
  <2>5. y \in Pass
    BY DEF Pass, PC
  <2>6. y.pc = "cron" /\ y.bucket = b /\ y.sop = x.sop
    BY DEF Pass
  <2>7. Placed(y) /\ Honest(y, created)
    BY <2>2, <2>3, <2>4, <2>6 DEF Placed, Honest, InTenants, InSops
  <2>8. pass' = [pass EXCEPT ![p] = y]
    BY <1>1, <1>4, <2>1, PassFields DEF CronMatches
  <2>9. QED
    BY <1>2, <2>5, <2>7, <2>8, QuietStep
<1>5. CASE CronDue(p)
  <2>1. x.pc = "cron" /\ x.sop \in 1..S /\ x.sop \in CronSops /\ x.bucket >= 1
    BY <1>1, <1>5, SopAtHand, PassFields DEF CronDue, At, InSops, Placed
  <2>2. PICK st \in Trigger : st = trig[x.sop]
    BY <2>1, RowsTrue
  <2> DEFINE y == [x EXCEPT !.pc = "create", !.state = st]
  <2>3. y \in Pass
    BY DEF Pass, PC
  <2>4. y.pc = "create" /\ y.sop = x.sop /\ y.state = st /\ y.bucket = x.bucket
    BY DEF Pass
  <2>5. Honest(y, created)
    BY <2>1, <2>2, <2>4, RowsTrue DEF Honest
  <2>6. x.sop >= 1
    BY <2>1, MaintenanceAssumption
  <2>7. Placed(y)
    BY <2>1, <2>4, <2>6 DEF Placed, InTenants, InSops
  <2>8. pass' = [pass EXCEPT ![p] = y]
    BY <1>1, <1>5, <2>2, PassFields DEF CronDue
  <2>9. QED
    BY <1>2, <2>3, <2>5, <2>7, <2>8, QuietStep
<1>6. QED
  BY <1>3, <1>4, <1>5

(* A step that creates a task and moves its process's record. *)
LEMMA CreatingStep ==
  ASSUME MaintenanceInv, NEW p \in Procs, NEW y \in Pass,
         pass' = [pass EXCEPT ![p] = y], Placed(y), Honest(y, created'),
         created \subseteq created', created' \subseteq Keys,
         UNCHANGED <<world, published, tenantCursor, ownerCursor, trig, faults>>
  PROVE  MaintenanceInv'
<1>1. /\ trig' = trig /\ now' = now /\ inbox' = inbox /\ faults' = faults
      /\ finished' = finished /\ published' = published
      /\ tenantCursor' = tenantCursor /\ ownerCursor' = ownerCursor
  BY DEF world
<1>2. /\ pass' \in [Procs -> Pass]
      /\ \A q \in Procs : Placed(pass'[q]) /\ Honest(pass'[q], created')
  BY PassUpdate
<1>3. MaintenanceTypeOK'
  BY <1>1, <1>2 DEF MaintenanceInv, MaintenanceTypeOK
<1>4. \A s \in 1..S : Told(s, trig'[s], created')
  BY <1>1, TriggersKept
<1>5. QED
  BY <1>2, <1>3, <1>4 DEF MaintenanceInv

(* The task of the minute exists before the copy says that it fired. *)
LEMMA CronCreateKeeps ==
  ASSUME MaintenanceInv, NEW p \in Procs, CronCreate(p) PROVE MaintenanceInv'
<1>1. PICK x \in Pass : x = pass[p]
  BY PassFields
<1>2. /\ x.pc = "create" /\ x.sop \in 1..S /\ x.sop \in CronSops /\ x.bucket >= 1
      /\ Told(x.sop, x.state, created)
  BY <1>1, SopAtHand, PassFields DEF CronCreate, At, InSops, Placed, Honest
<1>3. PICK b \in 1..(MaxMinute + 1) : b = x.bucket
  BY <1>2, MaintenanceAssumption DEF Pass
<1>4. b \in 0..(MaxMinute + 1)
  BY MaintenanceAssumption
<1>5. PICK st \in Trigger : st = x.state
  BY DEF Pass
<1>6. PICK st2 \in Trigger : st2 = [st EXCEPT !.fired = b]
  BY <1>4 DEF Trigger
<1>7. st2.fired = b /\ st2.seen = st.seen
  BY <1>6 DEF Trigger
<1> DEFINE y == [x EXCEPT !.pc = "mark", !.state = st2]
<1>8. y \in Pass
  BY DEF Pass, PC
<1>9. y.pc = "mark" /\ y.sop = x.sop /\ y.state = st2
  BY DEF Pass
<1>10. created' = created \cup {<<x.sop, "cron", b>>}
  BY <1>1, <1>3 DEF CronCreate
<1>11. Told(x.sop, st2, created')
  BY <1>2, <1>7, <1>10 DEF Told
<1>12. Honest(y, created')
  BY <1>9, <1>11 DEF Honest
<1>13. x.sop >= 1
  BY <1>2, MaintenanceAssumption
<1>14. Placed(y)
  BY <1>9, <1>13 DEF Placed, InTenants, InSops
<1>15. <<x.sop, "cron", b>> \in Keys
  BY <1>2 DEF Keys
<1>16. created \subseteq Keys
  BY DEF MaintenanceInv, MaintenanceTypeOK
<1>17. y = [x EXCEPT !.pc = "mark", !.state.fired = b]
  BY <1>5, <1>6 DEF Pass
<1>18. pass' = [pass EXCEPT ![p].pc = "mark", ![p].state.fired = b]
  BY <1>1, <1>3 DEF CronCreate
<1>19. pass' = [pass EXCEPT ![p] = y]
  BY <1>1, <1>17, <1>18, PassFields
<1>20. UNCHANGED <<world, published, tenantCursor, ownerCursor, trig, faults>>
  BY DEF CronCreate
<1>21. created \subseteq created' /\ created' \subseteq Keys
  BY <1>10, <1>15, <1>16
<1>22. QED
  BY <1>8, <1>12, <1>14, <1>19, <1>20, <1>21, CreatingStep

(* The state and the snapshot are read; nothing is new; all was handled. *)
LEMMA MailReadKeeps ==
  ASSUME MaintenanceInv, NEW p \in Procs,
         MailState(p) \/ MailSnapshot(p) \/ MailNothing(p) \/ MailDone(p)
  PROVE  MaintenanceInv'
<1>1. PICK x \in Pass : x = pass[p]
  BY PassFields
<1>2. UNCHANGED <<world, rows>> /\ faults' \in 0..MaxFaults
  BY DEF MailState, MailSnapshot, MailNothing, MailDone, MaintenanceInv, MaintenanceTypeOK
<1>3. CASE MailNothing(p)
  BY <1>2, <1>3, NextSopStep DEF MailNothing
<1>4. CASE MailState(p)
  <2>1. x.pc = "sops" /\ x.sop \in 1..S /\ x.sop \notin CronSops
    BY <1>1, <1>4, SopAtHand DEF MailState, At, InSops
  <2>2. PICK st \in Trigger : st = trig[x.sop]
    BY <2>1, RowsTrue
  <2> DEFINE y == [x EXCEPT !.pc = "snapshot", !.state = st]
  <2>3. y \in Pass
    BY DEF Pass, PC
  <2>4. y.pc = "snapshot" /\ y.sop = x.sop /\ y.state = st
    BY DEF Pass
  <2>5. Honest(y, created)
    BY <2>1, <2>2, <2>4, RowsTrue DEF Honest
  <2>6. x.sop >= 1
    BY <2>1, MaintenanceAssumption
  <2>7. Placed(y)
    BY <2>1, <2>4, <2>6 DEF Placed, InTenants, InSops
  <2>8. pass' = [pass EXCEPT ![p] = y]
    BY <1>1, <1>4, <2>2, PassFields DEF MailState
  <2>9. QED
    BY <1>2, <2>3, <2>5, <2>7, <2>8, QuietStep
<1>5. CASE MailSnapshot(p)
  <2>1. /\ x.pc = "snapshot" /\ x.sop >= 1 /\ x.sop \notin CronSops
        /\ Told(x.sop, x.state, created)
    BY <1>1, <1>5, PassFields DEF MailSnapshot, At, InSops, Placed, Honest
  <2>2. PICK n \in SUBSET Msgs : n = inbox \ x.state.seen
    BY DEF MaintenanceInv, MaintenanceTypeOK
  <2> DEFINE y == [x EXCEPT !.pc = "mail", !.snap = n]
  <2>3. y \in Pass
    BY DEF Pass, PC
  <2>4. y.pc = "mail" /\ y.sop = x.sop /\ y.state = x.state
    BY DEF Pass
  <2>5. Placed(y) /\ Honest(y, created)
    BY <2>1, <2>4 DEF Placed, Honest, InTenants, InSops
  <2>6. pass' = [pass EXCEPT ![p] = y]
    BY <1>1, <1>5, <2>2, PassFields DEF MailSnapshot
  <2>7. QED
    BY <1>2, <2>3, <2>5, <2>6, QuietStep
<1>6. CASE MailDone(p)
  <2>1. x.pc = "mail" /\ x.sop >= 1 /\ Told(x.sop, x.state, created)
    BY <1>1, <1>6, PassFields DEF MailDone, At, InSops, Placed, Honest
  <2> DEFINE y == [x EXCEPT !.pc = "mark"]
  <2>3. y \in Pass
    BY DEF Pass, PC
  <2>4. y.pc = "mark" /\ y.sop = x.sop /\ y.state = x.state
    BY DEF Pass
  <2>5. Placed(y) /\ Honest(y, created)
    BY <2>1, <2>4 DEF Placed, Honest, InTenants, InSops
  <2>6. pass' = [pass EXCEPT ![p] = y]
    BY <1>1, <1>6, PassFields DEF MailDone, Goto
  <2>7. QED
    BY <1>2, <2>3, <2>5, <2>6, QuietStep
<1>7. QED
  BY <1>3, <1>4, <1>5, <1>6

(* A matching message has its task before the copy says that it was seen. *)
LEMMA MailCreateKeeps ==
  ASSUME MaintenanceInv, NEW p \in Procs, NEW m \in Msgs, MailCreate(p, m)
  PROVE  MaintenanceInv'
<1>1. PICK x \in Pass : x = pass[p]
  BY PassFields
<1>2. /\ x.pc = "mail" /\ x.sop \in 1..S /\ x.sop \notin CronSops
      /\ Told(x.sop, x.state, created)
  BY <1>1, SopAtHand, PassFields DEF MailCreate, At, InSops, Placed, Honest
<1>3. PICK st \in Trigger : st = x.state
  BY DEF Pass
<1>4. PICK st2 \in Trigger : st2 = [st EXCEPT !.seen = @ \cup {m}]
  BY DEF Trigger
<1>5. st2.fired = st.fired /\ st2.seen = st.seen \cup {m}
  BY <1>4 DEF Trigger
<1>6. PICK n \in SUBSET Msgs : n = x.snap \ {m}
  BY DEF Pass
<1> DEFINE y == [x EXCEPT !.state = st2, !.snap = n]
<1>8. y \in Pass
  BY DEF Pass, PC
<1>9. y.pc = x.pc /\ y.sop = x.sop /\ y.state = st2
  BY DEF Pass
<1>10. created' = IF m \in Matching THEN created \cup {<<x.sop, "mail", m>>} ELSE created
  BY <1>1 DEF MailCreate
<1>11. Told(x.sop, st2, created')
  BY <1>2, <1>3, <1>5, <1>10 DEF Told
<1>12. Honest(y, created')
  BY <1>9, <1>11 DEF Honest
<1>13. x.sop >= 1
  BY <1>2, MaintenanceAssumption
<1>14. Placed(y)
  BY <1>2, <1>9, <1>13 DEF Placed, InTenants, InSops
<1>15. <<x.sop, "mail", m>> \in Keys
  BY <1>2 DEF Keys
<1>16. created \subseteq Keys
  BY DEF MaintenanceInv, MaintenanceTypeOK
<1>17. y = [x EXCEPT !.state.seen = @ \cup {m}, !.snap = @ \ {m}]
  BY <1>3, <1>4, <1>6 DEF Pass
<1>18. pass' = [pass EXCEPT ![p].state.seen = @ \cup {m}, ![p].snap = @ \ {m}]
  BY DEF MailCreate
<1>19. pass' = [pass EXCEPT ![p] = y]
  BY <1>1, <1>17, <1>18, PassFields
<1>20. UNCHANGED <<world, published, tenantCursor, ownerCursor, trig, faults>>
  BY DEF MailCreate
<1>21. created \subseteq created' /\ created' \subseteq Keys
  BY <1>10, <1>15, <1>16
<1>22. QED
  BY <1>8, <1>12, <1>14, <1>19, <1>20, <1>21, CreatingStep

(* What is put back is the copy, perhaps with fewer messages: both rows that *)
(* the two processes overwrite each other with are true.                     *)
LEMMA MarkKeeps == ASSUME MaintenanceInv, NEW p \in Procs, Mark(p) PROVE MaintenanceInv'
<1>1. PICK x \in Pass : x = pass[p]
  BY PassFields
<1>2. x.pc = "mark" /\ x.sop \in 1..S /\ Told(x.sop, x.state, created)
  BY <1>1, SopAtHand, PassFields DEF Mark, At, InSops, Placed, Honest
<1>3. PICK st \in Trigger : st = x.state
  BY DEF Pass
<1>4. PICK seen \in SUBSET st.seen :
        trig' = [trig EXCEPT ![x.sop] = [st EXCEPT !.seen = seen]]
  BY <1>1, <1>3 DEF Mark
<1>5. PICK st2 \in Trigger : st2 = [st EXCEPT !.seen = seen]
  BY DEF Trigger
<1>6. st2.fired = st.fired /\ st2.seen = seen
  BY <1>5 DEF Trigger
<1>7. Told(x.sop, st2, created)
  BY <1>2, <1>3, <1>6 DEF Told
<1>8. trig' = [trig EXCEPT ![x.sop] = st2] /\ trig \in [1..S -> Trigger]
  BY <1>4, <1>5 DEF MaintenanceInv, MaintenanceTypeOK
<1>9. trig' \in [1..S -> Trigger]
  BY <1>8
<1>10. \A s \in 1..S : Told(s, trig'[s], created)
  BY <1>2, <1>7, <1>8, RowsTrue
<1>11. /\ created' = created /\ now' = now /\ inbox' = inbox /\ faults' = faults
       /\ finished' = finished /\ published' = published
       /\ tenantCursor' = tenantCursor /\ ownerCursor' = ownerCursor
  BY DEF Mark, world
<1>12. pass[p].sop + 1 \in Nat \ {0}
  BY MaintenanceAssumption DEF MaintenanceInv, MaintenanceTypeOK, Pass
<1>13. PICK y \in Pass : /\ pass' = [pass EXCEPT ![p] = y]
                        /\ Placed(y) /\ \A keys : Honest(y, keys)
  BY <1>12, EvaluateFits DEF NextSop, Mark
<1>14. /\ pass' \in [Procs -> Pass]
       /\ \A q \in Procs : Placed(pass'[q]) /\ Honest(pass'[q], created')
  BY <1>11, <1>13, PassUpdate
<1>15. MaintenanceTypeOK'
  BY <1>9, <1>11, <1>14 DEF MaintenanceInv, MaintenanceTypeOK
<1>16. QED
  BY <1>10, <1>11, <1>14, <1>15 DEF MaintenanceInv

(* A throw or a crash drops the copy and leaves the rows. *)
LEMMA FaultKeeps ==
  ASSUME MaintenanceInv, NEW p \in Procs, EvaluateThrows(p) \/ Crash(p)
  PROVE  MaintenanceInv'
<1>1. UNCHANGED <<world, rows>> /\ faults' \in 0..MaxFaults
  BY MaintenanceAssumption
     DEF EvaluateThrows, Crash, MaintenanceInv, MaintenanceTypeOK
<1>2. CASE EvaluateThrows(p)
  BY <1>1, <1>2, NextSopStep DEF EvaluateThrows
<1>3. CASE Crash(p)
  BY <1>1, <1>3, IdleFits, QuietStep DEF Crash
<1>4. QED
  BY <1>2, <1>3

(* Time passes, mail arrives, a task ends: no pass and no trigger moves. *)
LEMMA WorldKeeps ==
  ASSUME MaintenanceInv, Minute \/ TaskEnds \/ \E m \in Msgs : MailArrives(m)
  PROVE  MaintenanceInv'
<1>1. /\ tenantCursor' = tenantCursor /\ ownerCursor' = ownerCursor /\ trig' = trig
      /\ created' = created /\ pass' = pass /\ faults' = faults
  BY DEF Minute, TaskEnds, MailArrives, rows
<1>2. now' \in 0..MaxMinute /\ inbox' \subseteq Msgs /\ finished' \in 0..K
  BY MaintenanceAssumption
     DEF Minute, TaskEnds, MailArrives, MaintenanceInv, MaintenanceTypeOK
<1>3. published' \subseteq 1..K
  <2>1. CASE TaskEnds
    <3>1. finished + 1 \in 1..K
      BY <2>1, MaintenanceAssumption DEF TaskEnds, MaintenanceInv, MaintenanceTypeOK
    <3>2. QED
      BY <2>1, <3>1 DEF TaskEnds, MaintenanceInv, MaintenanceTypeOK
  <2>2. CASE published' = published
    BY <2>2 DEF MaintenanceInv, MaintenanceTypeOK
  <2>3. QED
    BY <2>1, <2>2 DEF Minute, MailArrives, rows
<1>4. MaintenanceTypeOK'
  BY <1>1, <1>2, <1>3 DEF MaintenanceInv, MaintenanceTypeOK
<1>5. QED
  BY <1>1, <1>4 DEF MaintenanceInv

LEMMA MaintenanceStep == MaintenanceInv /\ [Next]_vars => MaintenanceInv'
<1> SUFFICES ASSUME MaintenanceInv, [Next]_vars PROVE MaintenanceInv'
  OBVIOUS
<1>1. CASE UNCHANGED vars
  <2>1. /\ now' = now /\ inbox' = inbox /\ finished' = finished /\ published' = published
        /\ tenantCursor' = tenantCursor /\ ownerCursor' = ownerCursor /\ trig' = trig
        /\ created' = created /\ pass' = pass /\ faults' = faults
    BY <1>1 DEF vars, world, rows
  <2>2. MaintenanceTypeOK'
    BY <2>1 DEF MaintenanceInv, MaintenanceTypeOK
  <2>3. QED
    BY <2>1, <2>2 DEF MaintenanceInv
<1>2. CASE Minute \/ TaskEnds \/ \E m \in Msgs : MailArrives(m)
  BY <1>2, WorldKeeps
<1>3. ASSUME NEW p \in Procs, Maintain(p) PROVE MaintenanceInv'
  <2>1. CASE Tick(p)
    BY <2>1, TickKeeps
  <2>2. CASE Rotate(p)
    BY <2>2, RotateKeeps
  <2>3. CASE MaintainTenant(p)
    BY <2>3, MaintainTenantKeeps
  <2>4. CASE AdvanceOwner(p)
    BY <2>4, AdvanceOwnerKeeps
  <2>5. CASE CronQuiet(p) \/ CronMatches(p) \/ CronFired(p) \/ CronDue(p)
    BY <2>5, CronKeeps
  <2>6. CASE CronCreate(p)
    BY <2>6, CronCreateKeeps
  <2>7. CASE MailState(p) \/ MailSnapshot(p) \/ MailNothing(p) \/ MailDone(p)
    BY <2>7, MailReadKeeps
  <2>8. ASSUME NEW m \in Msgs, MailCreate(p, m) PROVE MaintenanceInv'
    BY <2>8, MailCreateKeeps
  <2>9. CASE EvaluateThrows(p)
    BY <2>9, FaultKeeps
  <2>10. CASE Mark(p)
    BY <2>10, MarkKeeps
  <2>11. QED
    BY <1>3, <2>1, <2>2, <2>3, <2>4, <2>5, <2>6, <2>7, <2>8, <2>9, <2>10 DEF Maintain
<1>4. ASSUME NEW p \in Procs, Crash(p) PROVE MaintenanceInv'
  BY <1>4, FaultKeeps
<1>5. QED
  BY <1>1, <1>2, <1>3, <1>4 DEF Next

LEMMA MaintenanceStarts == Init => MaintenanceInv
<1> SUFFICES ASSUME Init PROVE MaintenanceInv
  OBVIOUS
<1>1. [fired |-> 0, seen |-> {}] \in Trigger
  BY MaintenanceAssumption DEF Trigger
<1>2. trig \in [1..S -> Trigger] /\ pass \in [Procs -> Pass]
  BY <1>1, IdleFits DEF Init
<1>3. MaintenanceTypeOK
  <2>1. now \in 0..MaxMinute /\ finished \in 0..K /\ faults \in 0..MaxFaults
    BY MaintenanceAssumption DEF Init
  <2>2. tenantCursor \in 0..(T - 1)
    BY MaintenanceAssumption DEF Init
  <2>3. ownerCursor \in [1..T -> 0..K]
    <3>1. 0 \in 0..K
      BY MaintenanceAssumption
    <3>2. QED
      BY <3>1 DEF Init
  <2>4. inbox \subseteq Msgs /\ published \subseteq 1..K /\ created \subseteq Keys
    BY DEF Init
  <2>5. QED
    BY <1>2, <2>1, <2>2, <2>3, <2>4 DEF MaintenanceTypeOK
<1>4. \A p \in Procs : Placed(pass[p]) /\ Honest(pass[p], created)
  BY IdleFits DEF Init
<1>5. \A s \in 1..S : Told(s, trig[s], created)
  BY DEF Init, Told
<1>6. QED
  BY <1>3, <1>4, <1>5 DEF MaintenanceInv

(* A message is marked as seen, and a minute as fired, only when the task    *)
(* exists, for any number of processes that overwrite each other's state.    *)
THEOREM MarksAreHonest == Spec => []MarkedWasStarted
<1>1. MaintenanceInv => MarkedWasStarted
  BY DEF MaintenanceInv, MarkedWasStarted, Told
<1>2. QED
  BY <1>1, MaintenanceStarts, MaintenanceStep, PTL DEF Spec

----------------------------------------------------------------------------
(* The monitors.                                                             *)

Leases == MonWorkers \cup {NoRun}
WatchRow == [status : WatchStatus, lease : Leases, expired : BOOLEAN, init : BOOLEAN,
             fresh : BOOLEAN, failures : 0..FailureLimit]
Look == [pc : {"off", "begin", "look", "commit"}, failures : 0..FailureLimit,
         result : WatchStatus]
Control == [pc : {"none", "task", "insert", "activate", "put", "read", "swap", "mark"},
            act : {"create", "pause", "resume", "stop", "check", "reopen"},
            status : WatchStatus, lease : Leases]
Controls == MonClients \cup {Sweeper}

LEMMA MonitorTypes ==
  MonitorTypeOK <=> /\ monitor \in MonitorStatus /\ watch \in WatchRow
                    /\ look \in [MonWorkers -> Look] /\ ctl \in [Controls -> Control]
                    /\ monSpent \in [faults : 0..MaxMonFaults, requests : 0..MaxMonRequests]
BY DEF MonitorTypeOK, WatchRow, Look, Control, Controls, Leases

(* The parts of the invariant that a step has to keep. *)
LookFits == look \in [MonWorkers -> Look] /\ \A w \in MonWorkers : CountsFailures(look[w])
CtlFits == ctl \in [Controls -> Control]
WatchFits == watch \in WatchRow /\ Claimable(watch)
SpentFits == monSpent \in [faults : 0..MaxMonFaults, requests : 0..MaxMonRequests]

LEMMA MonitorParts ==
  MonitorsInv <=> monitor \in MonitorStatus /\ LookFits /\ CtlFits /\ WatchFits /\ SpentFits
BY MonitorTypes DEF MonitorsInv, LookFits, CtlFits, WatchFits, SpentFits

LEMMA MonitorPartsNext ==
  MonitorsInv' <=> /\ monitor' \in MonitorStatus /\ LookFits' /\ CtlFits' /\ WatchFits'
                   /\ SpentFits'
BY DEF MonitorsInv, MonitorTypeOK, LookFits, CtlFits, WatchFits, SpentFits, WatchRow, Look,
       Control, Controls, Leases

LEMMA NoLookFits == NoLook \in Look /\ CountsFailures(NoLook)
BY MonAssumption DEF NoLook, Look, WatchStatus, CountsFailures

LEMMA NoCtlFits == NoCtl \in Control
BY DEF NoCtl, Control, WatchStatus, Leases

LEMMA LookUpdate ==
  ASSUME LookFits, NEW w \in MonWorkers, NEW y \in Look, CountsFailures(y),
         look' = [look EXCEPT ![w] = y]
  PROVE  LookFits'
<1>1. look' \in [MonWorkers -> Look]
  BY DEF LookFits
<1>2. ASSUME NEW v \in MonWorkers PROVE CountsFailures(look'[v])
  <2>1. look'[v] = y \/ look'[v] = look[v]
    BY DEF LookFits
  <2>2. QED
    BY <2>1 DEF LookFits
<1>3. QED
  BY <1>1, <1>2 DEF LookFits

LEMMA CtlUpdate ==
  ASSUME CtlFits, NEW c \in Controls, NEW y \in Control, ctl' = [ctl EXCEPT ![c] = y]
  PROVE  CtlFits'
BY DEF CtlFits

LEMMA CtlMoves ==
  ASSUME CtlFits, NEW c \in Controls,
         \/ CtlDone(c)
         \/ \E pc \in {"task", "insert", "activate", "read", "mark"} : CtlGoto(c, pc)
  PROVE  CtlFits'
<1>1. PICK x \in Control : x = ctl[c]
  BY DEF CtlFits
<1>2. CASE CtlDone(c)
  BY <1>2, NoCtlFits, CtlUpdate DEF CtlDone
<1>3. ASSUME NEW pc \in {"task", "insert", "activate", "read", "mark"}, CtlGoto(c, pc)
      PROVE  CtlFits'
  <2>1. [x EXCEPT !.pc = pc] \in Control
    BY DEF Control
  <2>2. ctl' = [ctl EXCEPT ![c] = [x EXCEPT !.pc = pc]]
    BY <1>1, <1>3 DEF CtlGoto, CtlFits
  <2>3. QED
    BY <2>1, <2>2, CtlUpdate
<1>4. QED
  BY <1>2, <1>3

LEMMA ArrivesFits == ASSUME SpentFits, NEW c, Arrives(c) PROVE SpentFits'
BY MonAssumption DEF SpentFits, Arrives

LEMMA FaultFits == ASSUME SpentFits, Fault PROVE SpentFits'
BY MonAssumption DEF SpentFits, Fault

(* createMonitor, activateMonitor and the sweep. *)
LEMMA CreateFits ==
  ASSUME MonitorsInv, NEW c \in Controls,
         \/ CreateMonitor(c) \/ CreateHeld(c) \/ InsertMonitor(c) \/ Activate(c)
         \/ (c = Sweeper /\ Sweep)
  PROVE  MonitorsInv'
<1>1. monitor \in MonitorStatus /\ LookFits /\ CtlFits /\ WatchFits /\ SpentFits
  BY MonitorParts
<1>2. look' = look /\ LookFits'
  BY <1>1 DEF CreateMonitor, CreateHeld, InsertMonitor, Activate, Sweep, LookFits
<1>3. CtlFits'
  BY <1>1, CtlMoves DEF CreateMonitor, CreateHeld, InsertMonitor, Activate, Sweep
<1>4. monitor' \in MonitorStatus
  BY <1>1 DEF CreateMonitor, CreateHeld, InsertMonitor, Activate, Sweep, MonitorStatus
<1>5. SpentFits'
  <2>1. CASE CreateMonitor(c)
    BY <1>1, <2>1, ArrivesFits DEF CreateMonitor
  <2>2. CASE monSpent' = monSpent
    BY <1>1, <2>2 DEF SpentFits
  <2>3. QED
    BY <2>1, <2>2 DEF CreateHeld, InsertMonitor, Activate, Sweep
<1>6. WatchFits'
  <2>1. PICK x \in WatchRow : x = watch
    BY <1>1 DEF WatchFits
  <2>2. CASE watch' = watch
    BY <1>1, <2>2 DEF WatchFits
  <2>3. CASE watch' = [watch EXCEPT !.status = "paused", !.init = TRUE]
    <3>1. PICK y \in WatchRow : y = [x EXCEPT !.status = "paused", !.init = TRUE]
      BY DEF WatchRow, WatchStatus
    <3>2. y.status = "paused" /\ y.fresh = x.fresh /\ y.failures = x.failures
      BY <3>1 DEF WatchRow
    <3>3. Claimable(y)
      BY <1>1, <2>1, <3>2 DEF WatchFits, Claimable
    <3>4. QED
      BY <2>1, <2>3, <3>1, <3>3 DEF WatchFits
  <2>4. CASE watch.fresh /\ watch' = [watch EXCEPT !.status = "queued", !.init = FALSE]
    <3>1. PICK y \in WatchRow : y = [x EXCEPT !.status = "queued", !.init = FALSE]
      BY DEF WatchRow, WatchStatus
    <3>2. y.status = "queued" /\ y.fresh = x.fresh /\ y.failures = x.failures
      BY <3>1 DEF WatchRow
    <3>3. x.failures = 0
      BY <1>1, <2>1, <2>4 DEF WatchFits, Claimable
    <3>4. Claimable(y)
      BY <3>2, <3>3, MonAssumption DEF Claimable
    <3>5. QED
      BY <2>1, <2>4, <3>1, <3>4 DEF WatchFits
  <2>5. QED
    BY <2>2, <2>3, <2>4 DEF CreateMonitor, CreateHeld, InsertMonitor, Activate, Sweep
<1>7. QED
  BY <1>2, <1>3, <1>4, <1>5, <1>6, MonitorPartsNext

(* The requests that control the monitor or its task, and their deaths. *)
LEMMA ControlFits ==
  ASSUME MonitorsInv, NEW c \in Controls,
         \/ \E act \in {"pause", "resume", "stop", "check"} : ControlMonitor(c, act)
         \/ \E act \in {"pause", "stop", "reopen"} : ControlTask(c, act)
         \/ PutMonitor(c) \/ ReadWatch(c) \/ SwapLost(c) \/ MarkMonitor(c) \/ DieCtl(c)
  PROVE  MonitorsInv'
<1>1. monitor \in MonitorStatus /\ LookFits /\ CtlFits /\ WatchFits /\ SpentFits
  BY MonitorParts
<1>2. look' = look /\ watch' = watch
  BY DEF ControlMonitor, ControlTask, PutMonitor, ReadWatch, SwapLost, MarkMonitor, DieCtl
<1>3. LookFits' /\ WatchFits'
  BY <1>1, <1>2 DEF LookFits, WatchFits
<1>4. monitor' \in MonitorStatus
  BY <1>1 DEF ControlMonitor, ControlTask, PutMonitor, ReadWatch, SwapLost, MarkMonitor,
              DieCtl, MonitorStatus, StatusFor
<1>5. SpentFits'
  <2>1. CASE monSpent' = monSpent
    BY <1>1, <2>1 DEF SpentFits
  <2>2. CASE Arrives(c)
    BY <1>1, <2>2, ArrivesFits
  <2>3. CASE Fault
    BY <1>1, <2>3, FaultFits
  <2>4. QED
    BY <2>1, <2>2, <2>3
       DEF ControlMonitor, ControlTask, PutMonitor, ReadWatch, SwapLost, MarkMonitor, DieCtl
<1>6. CtlFits'
  <2>1. PICK x \in Control : x = ctl[c]
    BY <1>1 DEF CtlFits
  <2>2. ASSUME NEW pc \in {"put", "read"},
               NEW act \in {"pause", "resume", "stop", "check", "reopen"},
               ctl' = [ctl EXCEPT ![c].pc = pc, ![c].act = act]
        PROVE  CtlFits'
    <3>1. [x EXCEPT !.pc = pc, !.act = act] \in Control
      BY DEF Control
    <3>2. ctl' = [ctl EXCEPT ![c] = [x EXCEPT !.pc = pc, !.act = act]]
      BY <1>1, <2>1, <2>2 DEF CtlFits
    <3>3. QED
      BY <1>1, <3>1, <3>2, CtlUpdate
  <2>3. ASSUME ctl' = [ctl EXCEPT ![c].pc = "swap", ![c].status = watch.status,
                                  ![c].lease = watch.lease]
        PROVE  CtlFits'
    <3>1. PICK st \in WatchStatus : st = watch.status
      BY <1>1 DEF WatchFits, WatchRow
    <3>2. PICK l \in Leases : l = watch.lease
      BY <1>1 DEF WatchFits, WatchRow
    <3>3. [x EXCEPT !.pc = "swap", !.status = st, !.lease = l] \in Control
      BY DEF Control
    <3>4. ctl' = [ctl EXCEPT ![c] = [x EXCEPT !.pc = "swap", !.status = st, !.lease = l]]
      BY <1>1, <2>1, <2>3, <3>1, <3>2 DEF CtlFits
    <3>5. QED
      BY <1>1, <3>3, <3>4, CtlUpdate
  <2>4. CASE CtlDone(c) \/ CtlGoto(c, "read")
    BY <1>1, <2>4, CtlMoves
  <2>5. QED
    BY <2>2, <2>3, <2>4
       DEF ControlMonitor, ControlTask, PutMonitor, ReadWatch, SwapLost, MarkMonitor, DieCtl
<1>7. QED
  BY <1>3, <1>4, <1>5, <1>6, MonitorPartsNext

(* The swaps of the task's row: a task made due again starts from no failures. *)
LEMMA SwapFits ==
  ASSUME MonitorsInv, NEW c \in Controls, SwapTask(c) \/ SwapDue(c)
  PROVE  MonitorsInv'
<1>1. monitor \in MonitorStatus /\ LookFits /\ CtlFits /\ WatchFits /\ SpentFits
  BY MonitorParts
<1>2. monitor' = monitor /\ look' = look /\ monSpent' = monSpent
  BY DEF SwapTask, SwapDue
<1>3. monitor' \in MonitorStatus /\ LookFits' /\ SpentFits'
  BY <1>1, <1>2 DEF LookFits, SpentFits
<1>4. CtlFits'
  BY <1>1, CtlMoves DEF SwapTask, SwapDue
<1>5. PICK x \in WatchRow : x = watch /\ Claimable(x)
  BY <1>1 DEF WatchFits
<1>6. 0 \in 0..FailureLimit /\ 0 < FailureLimit
  BY MonAssumption
<1>7. \/ \E st \in {"paused", "cancelled"} : watch' = [x EXCEPT !.lease = NoRun, !.status = st]
      \/ watch' = [x EXCEPT !.status = "queued", !.failures = 0]
      \/ watch' = [x EXCEPT !.status = "queued", !.lease = NoRun, !.failures = 0]
  BY <1>5 DEF SwapTask, SwapDue
<1>8. ASSUME NEW st \in {"paused", "cancelled"},
             watch' = [x EXCEPT !.lease = NoRun, !.status = st]
      PROVE  WatchFits'
  <2>1. PICK y \in WatchRow : y = [x EXCEPT !.lease = NoRun, !.status = st]
    BY DEF WatchRow, WatchStatus, Leases
  <2>2. y.status = st /\ y.fresh = x.fresh /\ y.failures = x.failures
    BY <2>1 DEF WatchRow
  <2>3. Claimable(y)
    BY <1>5, <2>2 DEF Claimable
  <2>4. QED
    BY <1>8, <2>1, <2>3 DEF WatchFits
<1>9. ASSUME watch' = [x EXCEPT !.status = "queued", !.failures = 0]
      PROVE  WatchFits'
  <2>1. PICK y \in WatchRow : y = [x EXCEPT !.status = "queued", !.failures = 0]
    BY <1>6 DEF WatchRow, WatchStatus
  <2>2. y.status = "queued" /\ y.failures = 0
    BY <2>1 DEF WatchRow
  <2>3. Claimable(y)
    BY <1>6, <2>2 DEF Claimable
  <2>4. QED
    BY <1>9, <2>1, <2>3 DEF WatchFits
<1>10. ASSUME watch' = [x EXCEPT !.status = "queued", !.lease = NoRun, !.failures = 0]
       PROVE  WatchFits'
  <2>1. PICK y \in WatchRow : y = [x EXCEPT !.status = "queued", !.lease = NoRun, !.failures = 0]
    BY <1>6 DEF WatchRow, WatchStatus, Leases
  <2>2. y.status = "queued" /\ y.failures = 0
    BY <2>1 DEF WatchRow
  <2>3. Claimable(y)
    BY <1>6, <2>2 DEF Claimable
  <2>4. QED
    BY <1>10, <2>1, <2>3 DEF WatchFits
<1>11. WatchFits'
  BY <1>7, <1>8, <1>9, <1>10
<1>12. QED
  BY <1>3, <1>4, <1>11, MonitorPartsNext

(* A run that is dropped leaves everything else as it is. *)
LEMMA DropFits ==
  ASSUME MonitorsInv, NEW w \in MonWorkers, look' = [look EXCEPT ![w] = NoLook],
         monitor' = monitor, watch' = watch, ctl' = ctl, SpentFits'
  PROVE  MonitorsInv'
<1>1. monitor \in MonitorStatus /\ LookFits /\ CtlFits /\ WatchFits
  BY MonitorParts
<1>2. LookFits'
  BY <1>1, NoLookFits, LookUpdate
<1>3. monitor' \in MonitorStatus /\ CtlFits' /\ WatchFits'
  BY <1>1 DEF CtlFits, WatchFits
<1>4. QED
  BY <1>2, <1>3, MonitorPartsNext

(* A claim takes the failures of a row that can be claimed. *)
LEMMA ClaimFits ==
  ASSUME MonitorsInv, NEW w \in MonWorkers, ClaimWatch(w) PROVE MonitorsInv'
<1>1. monitor \in MonitorStatus /\ LookFits /\ CtlFits /\ WatchFits /\ SpentFits
  BY MonitorParts
<1>2. monitor' \in MonitorStatus /\ CtlFits' /\ SpentFits'
  BY <1>1 DEF ClaimWatch, CtlFits, SpentFits
<1>3. PICK x \in WatchRow : x = watch /\ Claimable(x)
  BY <1>1 DEF WatchFits
<1>4. PICK f \in 0..FailureLimit : f = x.failures
  BY DEF WatchRow
<1>5. f < FailureLimit
  BY <1>3, <1>4 DEF ClaimWatch, Claimable
<1>6. PICK y \in WatchRow :
        y = [x EXCEPT !.status = "running", !.lease = w, !.expired = FALSE, !.fresh = FALSE]
  BY DEF WatchRow, WatchStatus, Leases
<1>7. y.status = "running" /\ y.fresh = FALSE /\ y.failures = f
  BY <1>4, <1>6 DEF WatchRow
<1>8. WatchFits'
  <2>1. Claimable(y)
    BY <1>5, <1>7 DEF Claimable
  <2>2. watch' = y
    BY <1>3, <1>6 DEF ClaimWatch
  <2>3. QED
    BY <2>1, <2>2 DEF WatchFits
<1>9. LookFits'
  <2>1. PICK z \in Look : z = [NoLook EXCEPT !.pc = "begin", !.failures = f]
    BY NoLookFits DEF Look
  <2>2. z.pc = "begin" /\ z.failures = f
    BY <2>1, NoLookFits DEF Look
  <2>3. CountsFailures(z)
    BY <1>5, <2>2 DEF CountsFailures
  <2>4. look' = [look EXCEPT ![w] = z]
    BY <1>3, <1>4, <2>1 DEF ClaimWatch
  <2>5. QED
    BY <1>1, <2>3, <2>4, LookUpdate
<1>10. QED
  BY <1>2, <1>8, <1>9, MonitorPartsNext

(* The run reads the monitor and looks at the page. *)
LEMMA ObserveFits ==
  ASSUME MonitorsInv, NEW w \in MonWorkers,
         ObserveInactive(w) \/ ObserveActive(w) \/ SaveCheck(w)
  PROVE  MonitorsInv'
<1>1. monitor \in MonitorStatus /\ LookFits /\ CtlFits /\ WatchFits /\ SpentFits
  BY MonitorParts
<1>2. monitor' = monitor /\ watch' = watch /\ ctl' = ctl /\ monSpent' = monSpent
  BY DEF ObserveInactive, ObserveActive, SaveCheck
<1>3. monitor' \in MonitorStatus /\ CtlFits' /\ WatchFits' /\ SpentFits'
  BY <1>1, <1>2 DEF CtlFits, WatchFits, SpentFits
<1>4. PICK x \in Look : x = look[w] /\ CountsFailures(x)
  BY <1>1 DEF LookFits
<1>5. ASSUME NEW pc \in {"look", "commit"}, NEW r \in {"scheduled", "paused", "cancelled"},
             NEW f \in 0..FailureLimit, f < FailureLimit,
             look' = [look EXCEPT ![w] = [x EXCEPT !.pc = pc, !.result = r, !.failures = f]]
      PROVE  LookFits'
  <2>1. PICK y \in Look : y = [x EXCEPT !.pc = pc, !.result = r, !.failures = f]
    BY DEF Look, WatchStatus
  <2>2. y.pc = pc /\ y.result = r /\ y.failures = f
    BY <2>1 DEF Look
  <2>3. CountsFailures(y)
    BY <1>5, <2>2 DEF CountsFailures
  <2>4. QED
    BY <1>1, <1>5, <2>1, <2>3, LookUpdate
<1>6. CASE ObserveInactive(w) \/ ObserveActive(w)
  <2>1. PICK f \in 0..FailureLimit : f = x.failures
    BY DEF Look
  <2>2. f < FailureLimit
    BY <1>4, <1>6, <2>1 DEF ObserveInactive, ObserveActive, CountsFailures
  <2>3. \E pc \in {"look", "commit"}, r \in {"scheduled", "paused", "cancelled"} :
           look' = [look EXCEPT ![w].pc = pc, ![w].result = r]
    BY <1>6 DEF ObserveInactive, ObserveActive, LookGoto
  <2>4. PICK pc \in {"look", "commit"}, r \in {"scheduled", "paused", "cancelled"} :
           look' = [look EXCEPT ![w].pc = pc, ![w].result = r]
    BY <2>3
  <2>5. [x EXCEPT !.pc = pc, !.result = r] = [x EXCEPT !.pc = pc, !.result = r, !.failures = f]
    BY <2>1 DEF Look
  <2>6. look' = [look EXCEPT ![w] = [x EXCEPT !.pc = pc, !.result = r]]
    BY <1>1, <1>4, <2>4 DEF LookFits
  <2>7. LookFits'
    BY <1>5, <2>2, <2>5, <2>6
  <2>8. QED
    BY <1>3, <2>7, MonitorPartsNext
<1>7. CASE SaveCheck(w)
  <2>1. CASE look' = [look EXCEPT ![w] = NoLook]
    BY <1>2, <1>3, <2>1, DropFits
  <2>2. CASE look' = [look EXCEPT ![w].pc = "commit", ![w].result = "scheduled",
                                  ![w].failures = 0]
    <3>1. 0 \in 0..FailureLimit /\ 0 < FailureLimit
      BY MonAssumption
    <3>2. look' = [look EXCEPT ![w] = [x EXCEPT !.pc = "commit", !.result = "scheduled",
                                               !.failures = 0]]
      BY <1>1, <1>4, <2>2 DEF LookFits
    <3>3. LookFits'
      BY <1>5, <3>1, <3>2
    <3>4. QED
      BY <1>3, <3>3, MonitorPartsNext
  <2>3. QED
    BY <1>7, <2>1, <2>2 DEF SaveCheck
<1>8. QED
  BY <1>6, <1>7

(* A failed check counts one more, and pauses the task at the limit. *)
LEMMA CheckFailsFits ==
  ASSUME MonitorsInv, NEW w \in MonWorkers, CheckFails(w) PROVE MonitorsInv'
<1>1. monitor \in MonitorStatus /\ LookFits /\ CtlFits /\ WatchFits /\ SpentFits
  BY MonitorParts
<1>2. CtlFits' /\ WatchFits' /\ SpentFits'
  BY <1>1 DEF CheckFails, CtlFits, WatchFits, SpentFits
<1>3. monitor' \in MonitorStatus
  BY <1>1 DEF CheckFails, MonitorStatus
<1>4. look[w] \in Look /\ CountsFailures(look[w])
  BY <1>1 DEF LookFits
<1>5. look[w].failures \in 0..FailureLimit /\ look[w].failures < FailureLimit
  BY <1>4 DEF CheckFails, CountsFailures, Look
<1>6. PICK f \in 0..FailureLimit : f = look[w].failures + 1
  BY <1>5, MonAssumption
<1>7. PICK r \in {"scheduled", "paused"} : r = IF f >= FailureLimit THEN "paused" ELSE "scheduled"
  OBVIOUS
<1>8. PICK y \in Look : y = [pc |-> "commit", failures |-> f, result |-> r]
  BY DEF Look, WatchStatus
<1>9. y.pc = "commit" /\ y.failures = f /\ y.result = r
  BY <1>8
<1>10. r = "scheduled" => f < FailureLimit
  BY <1>7, MonAssumption
<1>11. CountsFailures(y)
  BY <1>9, <1>10 DEF CountsFailures
<1>12. look' = [look EXCEPT ![w] = y]
  BY <1>6, <1>7, <1>8 DEF CheckFails
<1>13. LookFits'
  BY <1>1, <1>11, <1>12, LookUpdate
<1>14. QED
  BY <1>2, <1>3, <1>13, MonitorPartsNext

(* The final checkpoint writes what the run says, if it still holds the task. *)
LEMMA EndLookFits ==
  ASSUME MonitorsInv, NEW w \in MonWorkers, EndLook(w) PROVE MonitorsInv'
<1>1. monitor \in MonitorStatus /\ LookFits /\ CtlFits /\ WatchFits /\ SpentFits
  BY MonitorParts
<1>2. monitor' \in MonitorStatus /\ CtlFits' /\ SpentFits'
  BY <1>1 DEF EndLook, CtlFits, SpentFits
<1>3. LookFits'
  BY <1>1, NoLookFits, LookUpdate DEF EndLook
<1>4. PICK x \in WatchRow : x = watch /\ Claimable(x)
  BY <1>1 DEF WatchFits
<1>5. PICK z \in Look : z = look[w] /\ CountsFailures(z)
  BY <1>1 DEF LookFits
<1>6. z.pc = "commit" /\ x.fresh = FALSE
  BY <1>4, <1>5 DEF EndLook, HoldsWatch, Claimable, WatchRow
<1>7. PICK r \in {"scheduled", "paused", "cancelled"} : r = z.result
  BY <1>5, <1>6 DEF CountsFailures
<1>8. PICK f \in 0..FailureLimit : f = z.failures
  BY DEF Look
<1>9. r = "scheduled" => f < FailureLimit
  BY <1>5, <1>6, <1>7, <1>8 DEF CountsFailures
<1>10. PICK y \in WatchRow : y = [x EXCEPT !.status = r, !.lease = NoRun, !.failures = f]
  BY DEF WatchRow, WatchStatus, Leases
<1>11. y.status = r /\ y.failures = f /\ y.fresh = FALSE
  BY <1>6, <1>10 DEF WatchRow
<1>12. Claimable(y)
  BY <1>9, <1>11 DEF Claimable
<1>13. watch' = y
  BY <1>4, <1>5, <1>7, <1>8, <1>10 DEF EndLook
<1>14. WatchFits'
  BY <1>12, <1>13 DEF WatchFits
<1>15. QED
  BY <1>2, <1>3, <1>14, MonitorPartsNext

(* A lease ends, of a run that is gone or that stalls. *)
LEMMA LeaseEndsFits ==
  ASSUME MonitorsInv, NEW w \in MonWorkers, WatchLeaseEnds(w) \/ StallLook(w)
  PROVE  MonitorsInv'
<1>1. monitor \in MonitorStatus /\ LookFits /\ CtlFits /\ WatchFits /\ SpentFits
  BY MonitorParts
<1>2. monitor' \in MonitorStatus /\ LookFits' /\ CtlFits'
  BY <1>1 DEF WatchLeaseEnds, StallLook, LookFits, CtlFits
<1>3. SpentFits'
  <2>1. CASE WatchLeaseEnds(w)
    BY <1>1, <2>1 DEF WatchLeaseEnds, SpentFits
  <2>2. CASE StallLook(w)
    BY <1>1, <2>2, FaultFits DEF StallLook
  <2>3. QED
    BY <2>1, <2>2
<1>4. PICK x \in WatchRow : x = watch /\ Claimable(x)
  BY <1>1 DEF WatchFits
<1>5. PICK y \in WatchRow : y = [x EXCEPT !.expired = TRUE]
  BY DEF WatchRow
<1>6. y.status = x.status /\ y.failures = x.failures /\ y.fresh = x.fresh
  BY <1>5 DEF WatchRow
<1>7. Claimable(y)
  BY <1>4, <1>6 DEF Claimable
<1>8. watch' = y
  BY <1>4, <1>5 DEF WatchLeaseEnds, StallLook
<1>9. WatchFits'
  BY <1>7, <1>8 DEF WatchFits
<1>10. QED
  BY <1>2, <1>3, <1>9, MonitorPartsNext

LEMMA MonitorsStep == MonitorsInv /\ [MonNext]_monVars => MonitorsInv'
<1> SUFFICES ASSUME MonitorsInv, [MonNext]_monVars PROVE MonitorsInv'
  OBVIOUS
<1>1. CASE UNCHANGED monVars
  BY <1>1 DEF monVars, MonitorsInv, MonitorTypeOK
<1>2. CASE Sweep
  BY <1>2, CreateFits DEF Controls
<1>3. ASSUME NEW c \in Controls, CtlStep(c) \/ CreateMonitor(c) PROVE MonitorsInv'
  BY <1>3, CreateFits, ControlFits, SwapFits DEF CtlStep
<1>4. ASSUME NEW c \in Controls, Abort(c) PROVE MonitorsInv'
  <2>1. PICK w \in MonWorkers : look' = [look EXCEPT ![w] = NoLook]
    BY <1>4 DEF Abort
  <2>2. SpentFits'
    BY <1>4, MonitorParts DEF Abort, SpentFits
  <2>3. QED
    BY <1>4, <2>1, <2>2, DropFits DEF Abort
<1>5. ASSUME NEW c \in Controls,
             \/ DieCtl(c)
             \/ \E act \in {"pause", "resume", "stop", "check"} : ControlMonitor(c, act)
             \/ \E act \in {"pause", "stop", "reopen"} : ControlTask(c, act)
      PROVE  MonitorsInv'
  BY <1>5, ControlFits
<1>6. ASSUME NEW w \in MonWorkers, ClaimWatch(w) \/ WatchLeaseEnds(w) \/ StallLook(w)
      PROVE  MonitorsInv'
  BY <1>6, ClaimFits, LeaseEndsFits
<1>7. ASSUME NEW w \in MonWorkers, DieLook(w) PROVE MonitorsInv'
  <2>1. SpentFits'
    BY <1>7, MonitorParts, FaultFits DEF DieLook
  <2>2. QED
    BY <1>7, <2>1, DropFits DEF DieLook
<1>8. ASSUME NEW w \in MonWorkers, LoseLook(w) PROVE MonitorsInv'
  <2>1. SpentFits'
    BY <1>8, MonitorParts DEF LoseLook, SpentFits
  <2>2. QED
    BY <1>8, <2>1, DropFits DEF LoseLook
<1>9. ASSUME NEW w \in MonWorkers, LookStep(w) PROVE MonitorsInv'
  BY <1>8, <1>9, ObserveFits, CheckFailsFits, EndLookFits DEF LookStep
<1>10. QED
  BY <1>1, <1>2, <1>3, <1>4, <1>5, <1>6, <1>7, <1>9 DEF MonNext, Controls

LEMMA MonitorsStart == MonInit => MonitorsInv
<1> SUFFICES ASSUME MonInit PROVE MonitorsInv
  OBVIOUS
<1>1. NoWatch \in WatchRow /\ Claimable(NoWatch)
  BY MonAssumption DEF NoWatch, WatchRow, WatchStatus, Leases, Claimable
<1>2. PICK y \in WatchRow : y = [NoWatch EXCEPT !.status = "scheduled", !.fresh = FALSE]
  BY <1>1 DEF WatchRow, WatchStatus
<1>3. y.status = "scheduled" /\ y.fresh = FALSE /\ y.failures = 0
  BY <1>1, <1>2 DEF WatchRow, NoWatch
<1>4. Claimable(y)
  BY <1>3, MonAssumption DEF Claimable
<1>5. WatchFits
  BY <1>1, <1>2, <1>4 DEF MonInit, WatchFits
<1>6. LookFits /\ CtlFits
  BY NoLookFits, NoCtlFits DEF MonInit, LookFits, CtlFits, Controls
<1>7. monitor \in MonitorStatus /\ SpentFits
  BY MonAssumption DEF MonInit, MonitorStatus, SpentFits
<1>8. QED
  BY <1>5, <1>6, <1>7, MonitorParts

----------------------------------------------------------------------------
(* The two together.                                                         *)

(* A step of the one is a step of its specification and a stutter of the other. *)
LEMMA BackStep ==
  ASSUME [BackNext]_backVars
  PROVE  [Next]_vars /\ [MonNext]_monVars
BY DEF BackNext, InMaintenance, InMonitors, backVars

(* Every row, request, run and pass keeps its type, for any number of them:  *)
(* the tenant cursor is always the index of a tenant, and a watch never      *)
(* counts more failures than the limit.                                      *)
THEOREM BackgroundTyped == BackSpec => []BackgroundTypeOK
<1>1. BackInit => MaintenanceInv /\ MonitorsInv
  BY MaintenanceStarts, MonitorsStart DEF BackInit
<1>2. MaintenanceInv /\ MonitorsInv /\ [BackNext]_backVars => (MaintenanceInv /\ MonitorsInv)'
  BY BackStep, MaintenanceStep, MonitorsStep
<1>3. MaintenanceInv /\ MonitorsInv => BackgroundTypeOK
  BY DEF MaintenanceInv, MonitorsInv, BackgroundTypeOK
<1>4. BackSpec => BackInit /\ [][BackNext]_backVars
  BY PTL DEF BackSpec
<1>5. QED
  BY <1>1, <1>2, <1>3, <1>4, PTL

=============================================================================
