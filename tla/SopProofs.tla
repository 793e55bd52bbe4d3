----------------------------- MODULE SopProofs -----------------------------
(* Type correctness of the SOP executor, and that it implements Procedure, for *)
(* any SOP, any number of processes and requests.                              *)
EXTENDS SopRun, TLAPS

(* The points of a run that stand at a step. *)
AtStep == {"step", "record", "skip", "proposed", "pend"}

(* What a run knows by itself, with or without the lease. *)
RunPoint(w) ==
    /\ run[w].pc \in AtStep => run[w].k \in Steps
    /\ run[w].pc = "record" => run[w].k \notin Asks \cup Reviews
    /\ run[w].pc = "skip" => run[w].k \in Optional
    /\ run[w].pc \in {"proposed", "pend"} => run[w].k \in Reviews
    /\ run[w].pc = "commit" => run[w].result \in {"waiting_input", "waiting_approval", "succeeded"}

(* What it knows of the row as long as it holds the lease. *)
Holder(w) ==
    Holds(w) =>
       /\ run[w].pc \in AtStep => run[w].k = row.state.next
       /\ run[w].pc \in {"start", "step", "record", "skip", "proposed"} => row.action = None
       /\ run[w].pc = "pend" => row.action = run[w].k
       /\ run[w].pc = "commit" /\ run[w].result = "succeeded" => row.state.next = N + 1

(* A `state`, in the row or in the hands of a request that will write it back: *)
(* the steps before `next` and no others are recorded, and the step that waits *)
(* for a review is the linked one, unless its action has been carried out.     *)
Recorded(s) ==
    /\ \A k \in Steps : s.res[k] # None <=> k < s.next
    /\ \A k \in Steps : s.res[k] = Skipped => k \in Conditional \cup Optional
    /\ s.answer # Skipped
Awaited(s, link, acts) ==
    s.pendA # None => s.pendA \in Reviews /\ (link = s.pendA \/ acts[s.pendA] = "succeeded")
Sound(s, furthest, link, acts) ==
    s.next - 1 <= furthest /\ Recorded(s) /\ Awaited(s, link, acts)

SoundRow == Sound(row.state, far, row.action, act)
SoundReqs == \A c \in Clients : Sound(req[c].state, far, row.action, act)

LinkedReview == row.action # None => row.action \in Reviews

(* escalateTask refuses a task that is over. *)
AskedWhenOpen ==
    \A c \in Clients : req[c].pc = "escalate" => req[c].status \notin {"succeeded", "failed", "cancelled"}

RunPoints == \A w \in Workers : RunPoint(w)
Holders == \A w \in Workers : Holder(w)

SopInv ==
    /\ SopTypeOK /\ RunPoints /\ Holders
    /\ LinkedReview /\ SoundRow /\ SoundReqs /\ AskedWhenOpen

----------------------------------------------------------------------------
(* Types                                                                     *)

RowType == [status : Status, lease : Workers \cup {NoWorker}, action : 0..N, version : Nat,
            state : State]
RunType == [pc : PC, k : 0..N, own : BOOLEAN, result : Status]
ReqType == [pc : {"none", "answer", "escalate"}, status : Status,
            lease : Workers \cup {NoWorker, Gone}, state : State]

(* SopTypeOK, with names for the sets of rows, runs and requests. *)
LEMMA TypeParts ==
    SopTypeOK <=> /\ row \in RowType /\ act \in [Reviews -> ActStatus]
                  /\ moved \subseteq Transitions /\ truthy \subseteq Conditional
                  /\ sop \in Nat \ {0} /\ stale \in BOOLEAN
                  /\ run \in [Workers -> RunType] /\ req \in [Clients -> ReqType]
                  /\ far \in 0..N
                  /\ spent \in [faults : 0..MaxFaults, stops : 0..MaxStops, tells : 0..MaxTells]
  BY DEF SopTypeOK, RowType, RunType, ReqType

LEMMA TypePartsNext ==
    SopTypeOK' <=> /\ row' \in RowType /\ act' \in [Reviews -> ActStatus]
                   /\ moved' \subseteq Transitions /\ truthy' \subseteq Conditional
                   /\ sop' \in Nat \ {0} /\ stale' \in BOOLEAN
                   /\ run' \in [Workers -> RunType] /\ req' \in [Clients -> ReqType]
                   /\ far' \in 0..N
                   /\ spent' \in [faults : 0..MaxFaults, stops : 0..MaxStops, tells : 0..MaxTells]
  BY DEF SopTypeOK, RowType, RunType, ReqType

(* What the task and the processes begin with is well typed. *)
LEMMA FirstTypes == FirstState \in State /\ NoReq \in ReqType /\ OffRun \in RunType
<1>1. FirstState \in State
  BY SopAssumption DEF FirstState, State, Results, None, Steps
<1>2. QED
  BY <1>1, SopAssumption DEF ReqType, NoReq, RunType, OffRun, None, PC, Status

(* The fields of the state after a step was recorded. *)
LEMMA AfterFields ==
    ASSUME row.state \in State, NEW k \in Steps, NEW r \in Results
    PROVE  /\ After(k, r) \in State
           /\ After(k, r).next = k + 1
           /\ After(k, r).res = [row.state.res EXCEPT ![k] = r]
           /\ After(k, r).answer = row.state.answer
           /\ After(k, r).pendA = row.state.pendA
           /\ After(k, r).approval = row.state.approval
           /\ After(k, r).pend = row.state.pend
<1> DEFINE res == [row.state.res EXCEPT ![k] = r]
<1>1. After(k, r) = [row.state EXCEPT !.next = k + 1, !.res = res]
  BY DEF After, State
<1>2. res \in [Steps -> Results]
  BY DEF State
<1>3. k + 1 \in 1..(N + 1)
  BY SopAssumption DEF Steps
<1> HIDE DEF res
<1>4. [row.state EXCEPT !.next = k + 1, !.res = res] \in State
  BY <1>2, <1>3 DEF State
<1>5. QED
  BY <1>1, <1>2, <1>3, <1>4 DEF State, res

(* Fields that were used up are cleared. *)
LEMMA ClearFields ==
    ASSUME NEW x \in State
    PROVE  /\ LET s == [x EXCEPT !.approval = None, !.pendA = None] IN
                 /\ s \in State /\ s.next = x.next /\ s.res = x.res
                 /\ s.answer = x.answer /\ s.pendA = None
           /\ LET s == [x EXCEPT !.answer = None, !.pend = None] IN
                 /\ s \in State /\ s.next = x.next /\ s.res = x.res
                 /\ s.answer = None /\ s.pendA = x.pendA
<1>1. None \in 0..N /\ None \in Results
  BY SopAssumption DEF None, Results
<1>2. QED
  BY <1>1 DEF State

(* A checkpoint of a new `state` changes nothing else in the row. *)
LEMMA CheckpointFields ==
    ASSUME row \in RowType, far \in 0..N, NEW w, NEW s \in State, Checkpoint(w, s)
    PROVE  /\ row' \in RowType /\ far' \in 0..N
           /\ row'.state = s /\ row'.status = row.status /\ row'.lease = row.lease
           /\ row'.action = row.action
           /\ far <= far' /\ s.next - 1 <= far'
<1>1. row' \in RowType
  BY DEF RowType, Checkpoint
<1>2. s.next \in 1..(N + 1)
  BY DEF State
<1>3. far' \in 0..N /\ far <= far' /\ s.next - 1 <= far'
  BY <1>2, SopAssumption DEF Checkpoint
<1>4. QED
  BY <1>1, <1>3 DEF RowType, Checkpoint

(* A release, or a claim, changes the status and the lease. *)
LEMMA ReleaseFields ==
    ASSUME row \in RowType, NEW s \in Status, NEW l \in Workers \cup {NoWorker},
           row' = [row EXCEPT !.status = s, !.lease = l]
    PROVE  /\ row' \in RowType
           /\ row'.state = row.state /\ row'.status = s /\ row'.lease = l
           /\ row'.action = row.action
  BY DEF RowType

(* The other writes of a run. *)
LEMMA ApprovedFields ==
    ASSUME row \in RowType, NEW w \in Workers, BeginApproved(w)
    PROVE  /\ row' \in RowType
           /\ row'.status = row.status /\ row'.lease = row.lease /\ row'.action = None
           /\ row'.state = [row.state EXCEPT !.approval = row.action]
<1>1. [row.state EXCEPT !.approval = row.action] \in State
  BY DEF RowType, State
<1>2. row' = [row EXCEPT !.state = [row.state EXCEPT !.approval = row.action], !.action = None]
  BY DEF BeginApproved, RowType
<1>3. None \in 0..N
  BY SopAssumption DEF None
<1>4. QED
  BY <1>1, <1>2, <1>3 DEF RowType

LEMMA StartFields ==
    ASSUME row \in RowType, sop \in Nat, NEW w \in Workers, Start(w)
    PROVE  /\ row' \in RowType
           /\ row'.status = row.status /\ row'.lease = row.lease /\ row'.action = row.action
           /\ \/ row'.state = row.state
              \/ row.state.next = 1 /\ row'.state = [row.state EXCEPT !.res = FirstState.res]
<1> DEFINE res == IF row.state.next = 1 THEN FirstState.res ELSE row.state.res
<1>1. res \in [Steps -> Results]
  BY FirstTypes DEF RowType, State
<1>2. row' = [row EXCEPT !.version = sop, !.state = [row.state EXCEPT !.res = res]]
  BY DEF Start, RowType
<1>3. [row.state EXCEPT !.res = res] \in State
  BY <1>1 DEF RowType, State
<1>4. row.state.next # 1 => [row.state EXCEPT !.res = res] = row.state
  BY DEF RowType, State
<1>5. row.state.next = 1 => res = FirstState.res
  OBVIOUS
<1> HIDE DEF res
<1>6. QED
  BY <1>2, <1>3, <1>4, <1>5 DEF RowType

LEMMA LinkFields ==
    ASSUME row \in RowType, run \in [Workers -> RunType], NEW w \in Workers, Link(w)
    PROVE  /\ row' \in RowType
           /\ row'.status = row.status /\ row'.lease = row.lease /\ row'.action = run[w].k
           /\ row'.state = row.state
<1>1. run[w].k \in 0..N
  BY DEF RunType
<1>2. QED
  BY <1>1 DEF RowType, Link

----------------------------------------------------------------------------
(* A step of one run                                                         *)

OthersRun(w) == \A v \in Workers \ {w} : run'[v] = run[v]

(* The ways in which a run's record is written. *)
LEMMA RunFields ==
    ASSUME run \in [Workers -> RunType], NEW w \in Workers, NEW pc \in PC
    PROVE  /\ Goto(w, pc) => /\ run' \in [Workers -> RunType] /\ OthersRun(w)
                             /\ run'[w].pc = pc /\ run'[w].k = run[w].k
           /\ run' = [run EXCEPT ![w] = OffRun] =>
                 /\ run' \in [Workers -> RunType] /\ OthersRun(w) /\ run'[w].pc = "off"
           /\ \A s \in Status : run' = [run EXCEPT ![w].pc = pc, ![w].result = s] =>
                 /\ run' \in [Workers -> RunType] /\ OthersRun(w)
                 /\ run'[w].pc = pc /\ run'[w].result = s /\ run'[w].k = run[w].k
           /\ \A k \in 0..N : run' = [run EXCEPT ![w].pc = pc, ![w].k = k] =>
                 /\ run' \in [Workers -> RunType] /\ OthersRun(w)
                 /\ run'[w].pc = pc /\ run'[w].k = k
           /\ \A o \in BOOLEAN : run' = [run EXCEPT ![w].pc = pc, ![w].own = o] =>
                 /\ run' \in [Workers -> RunType] /\ OthersRun(w)
                 /\ run'[w].pc = pc /\ run'[w].k = run[w].k
<1>1. OffRun \in RunType /\ OffRun.pc = "off"
  BY FirstTypes DEF OffRun
<1>2. run[w] \in RunType
  OBVIOUS
<1>3. Goto(w, pc) => run' = [run EXCEPT ![w] = [run[w] EXCEPT !.pc = pc]]
  BY DEF Goto
<1>4. [run[w] EXCEPT !.pc = pc] \in RunType
  BY <1>2 DEF RunType
<1>5. QED
  BY <1>1, <1>2, <1>3, <1>4 DEF RunType, OthersRun

(* A run that is through carries its result to the commit. *)
LEMMA ResultFields ==
    ASSUME run \in [Workers -> RunType], NEW w \in Workers, NEW s \in Status,
           run' = [run EXCEPT ![w].pc = "commit", ![w].result = s]
    PROVE  /\ run' \in [Workers -> RunType] /\ OthersRun(w)
           /\ run'[w].pc = "commit" /\ run'[w].result = s
  BY RunFields DEF PC

(* The loop stands at step k or is through. *)
LEMMA ContinueFields ==
    ASSUME run \in [Workers -> RunType], NEW w \in Workers, NEW k \in 1..(N + 1), Continue(w, k)
    PROVE  /\ run' \in [Workers -> RunType] /\ OthersRun(w)
           /\ \/ k \in Steps /\ run'[w].pc = "step" /\ run'[w].k = k
              \/ k = N + 1 /\ run'[w].pc = "commit" /\ run'[w].result = "succeeded"
<1>1. CASE k <= N
  <2>1. k \in 0..N /\ k \in Steps
    BY <1>1, SopAssumption DEF Steps
  <2>2. run' = [run EXCEPT ![w].pc = "step", ![w].k = k]
    BY <1>1 DEF Continue
  <2>3. QED
    BY <2>1, <2>2, RunFields DEF PC
<1>2. CASE ~(k <= N)
  <2>1. k = N + 1
    BY <1>2, SopAssumption
  <2>2. run' = [run EXCEPT ![w].pc = "commit", ![w].result = "succeeded"]
    BY <1>2 DEF Continue
  <2>3. QED
    BY <2>1, <2>2, RunFields DEF PC, Status
<1>3. QED
  BY <1>1, <1>2

(* The other runs know what they knew. *)
LEMMA PointsKept ==
    ASSUME RunPoints, NEW w \in Workers, OthersRun(w), RunPoint(w)'
    PROVE  RunPoints'
<1>1. ASSUME NEW v \in Workers \ {w} PROVE RunPoint(v)'
  BY <1>1 DEF RunPoints, RunPoint, OthersRun
<1>2. QED
  BY <1>1 DEF RunPoints

(* Only one run holds the lease. *)
LEMMA OneHolder ==
    ASSUME NEW w \in Workers, row'.lease = w, Holder(w)'
    PROVE  Holders'
<1>1. ASSUME NEW v \in Workers \ {w} PROVE Holder(v)'
  BY DEF Holder, Holds
<1>2. QED
  BY <1>1 DEF Holders

(* A run moves and the row stays as it is. *)
LEMMA HoldersKept ==
    ASSUME Holders, NEW w \in Workers, OthersRun(w), row' = row, Holder(w)'
    PROVE  Holders'
<1>1. ASSUME NEW v \in Workers \ {w} PROVE Holder(v)'
  BY DEF Holders, Holder, Holds, OthersRun
<1>2. QED
  BY <1>1 DEF Holders

(* Nobody holds the lease of a task that does not run. *)
LEMMA NoHolder ==
    ASSUME row'.status # "running"
    PROVE  Holders'
  BY DEF Holders, Holder, Holds

----------------------------------------------------------------------------
(* The states in the row and in the hands of requests                        *)

(* The furthest step grows, actions that were carried out stay so, and a link *)
(* is only replaced when there was none or its action was carried out.        *)
Grows ==
    /\ far <= far'
    /\ \A k \in Reviews : act[k] = "succeeded" => act'[k] = "succeeded"
    /\ row'.action = row.action \/ row.action = None \/ act[row.action] = "succeeded"

(* Such a step leaves a sound state sound. *)
LEMMA SoundKept ==
    ASSUME far \in 0..N, far' \in 0..N, Grows, NEW s \in State, Sound(s, far, row.action, act)
    PROVE  Sound(s, far', row'.action, act')
<1>1. s.next \in Nat
  BY SopAssumption DEF State
<1>2. s.next - 1 <= far'
  BY <1>1, SopAssumption DEF Sound, Grows
<1>3. Awaited(s, row'.action, act')
  BY DEF Sound, Awaited, Grows
<1>4. QED
  BY <1>2, <1>3 DEF Sound

LEMMA SoundReqsKept ==
    ASSUME SopTypeOK, far' \in 0..N, Grows, SoundReqs, req' = req
    PROVE  SoundReqs'
<1>1. ASSUME NEW c \in Clients PROVE Sound(req[c].state, far', row'.action, act')
  <2>1. req[c].state \in State
    BY TypeParts DEF ReqType
  <2>2. QED
    BY <2>1, SoundKept, TypeParts DEF SoundReqs
<1>2. QED
  BY <1>1 DEF SoundReqs

(* The empty state is sound. *)
LEMMA SoundFirst ==
    ASSUME NEW f \in 0..N, NEW link, NEW acts
    PROVE  Sound(FirstState, f, link, acts)
  BY SopAssumption DEF Sound, Recorded, Awaited, FirstState, None, Skipped, Steps

(* Recording step `next` leaves the steps before the new `next` recorded. *)
LEMMA RecordedAfter ==
    ASSUME row.state \in State, Recorded(row.state), NEW k \in Steps, k = row.state.next,
           NEW r \in Results \ {None}, r = Skipped => k \in Conditional \cup Optional,
           NEW s, s.next = k + 1, s.res = [row.state.res EXCEPT ![k] = r], s.answer # Skipped
    PROVE  Recorded(s)
<1>1. row.state.res \in [Steps -> Results]
  BY DEF State
<1>2. \A j \in Steps : s.res[j] = IF j = k THEN r ELSE row.state.res[j]
  BY <1>1
<1>3. \A j \in Steps : j < k + 1 <=> (j < k \/ j = k)
  BY SopAssumption DEF Steps
<1>4. QED
  BY <1>2, <1>3 DEF Recorded

----------------------------------------------------------------------------
(* The invariant, one group of actions at a time                             *)

(* What recording the step at hand comes to, whatever the step was. *)
Advances(w, r, s) ==
    /\ s \in State /\ r \in Results \ {None}
    /\ r = Skipped => run[w].k \in Conditional \cup Optional
    /\ s.next = run[w].k + 1
    /\ s.res = [row.state.res EXCEPT ![run[w].k] = r]
    /\ s.answer # Skipped
    /\ s.pendA \in {row.state.pendA, None}
    /\ run[w].pc \in AtStep
    /\ row.action = None
    /\ Checkpoint(w, s) /\ Continue(w, run[w].k + 1)
    /\ UNCHANGED <<act, moved, truthy, sop, stale, req, spent>>

(* Why it may be recorded: skipped, or done with the answer or the approval  *)
(* that a question or a review needs.                                        *)
Justified(w, r, s) ==
    \/ r = Skipped /\ s.answer = row.state.answer
    \/ /\ r # Skipped
       /\ run[w].k \in Asks => row.state.answer # None
       /\ s.answer = IF run[w].k \in Asks THEN None ELSE row.state.answer
       /\ run[w].k \in Reviews => act[run[w].k] = "succeeded"

LEMMA AdvanceInv ==
    ASSUME SopInv, NEW w \in Workers, NEW r, NEW s, Advances(w, r, s)
    PROVE  SopInv'
<1> DEFINE k == run[w].k
<1>1. /\ SopTypeOK /\ row \in RowType /\ row.state \in State /\ far \in 0..N
      /\ run \in [Workers -> RunType]
  BY TypeParts DEF SopInv, RowType
<1>2. k \in Steps /\ Holds(w) /\ k = row.state.next
  BY DEF SopInv, Advances, RunPoints, RunPoint, Holders, Holder, Checkpoint
<1>3. k + 1 \in 1..(N + 1)
  BY <1>2, SopAssumption DEF Steps
<1>4. /\ row' \in RowType /\ far' \in 0..N
      /\ row'.state = s /\ row'.status = row.status /\ row'.lease = row.lease
      /\ row'.action = row.action /\ far <= far' /\ s.next - 1 <= far'
  BY <1>1, CheckpointFields DEF Advances
<1>5. /\ run' \in [Workers -> RunType] /\ OthersRun(w)
      /\ \/ k + 1 \in Steps /\ run'[w].pc = "step" /\ run'[w].k = k + 1
         \/ k + 1 = N + 1 /\ run'[w].pc = "commit" /\ run'[w].result = "succeeded"
  BY <1>1, <1>3, ContinueFields DEF Advances
<1>6. SopTypeOK'
  BY <1>1, <1>4, <1>5, TypeParts, TypePartsNext DEF Advances
<1>7. RunPoint(w)'
  BY <1>5 DEF RunPoint, AtStep
<1>8. Holder(w)'
  BY <1>4, <1>5 DEF Holder, AtStep, Advances
<1>9. RunPoints' /\ Holders'
  BY <1>2, <1>4, <1>5, <1>7, <1>8, PointsKept, OneHolder DEF SopInv, Holds
<1>10. Grows
  BY <1>4 DEF Grows, Advances
<1>11. SoundReqs'
  BY <1>1, <1>4, <1>10, SoundReqsKept DEF SopInv, Advances
<1>12. SoundRow'
  <2>1. Recorded(row.state) /\ Awaited(row.state, row.action, act)
    BY DEF SopInv, SoundRow, Sound
  <2>2. Recorded(s)
    BY <1>1, <1>2, <2>1, RecordedAfter DEF Advances
  <2>3. Awaited(s, row.action, act)
    BY <2>1 DEF Awaited, Advances
  <2>4. QED
    BY <1>4, <2>2, <2>3 DEF SoundRow, Sound, Advances
<1>13. LinkedReview' /\ AskedWhenOpen'
  BY <1>4 DEF SopInv, LinkedReview, AskedWhenOpen, Advances
<1>14. QED
  BY <1>6, <1>9, <1>11, <1>12, <1>13 DEF SopInv

(* Every way in which a step is recorded is one of these.  The result is the  *)
(* approval's or the answer's step, the step's own, or Skipped.               *)
LEMMA Advancing ==
    ASSUME SopInv, NEW w \in Workers,
           \/ SkipWhen(w) \/ ConsumeApproval(w) \/ ConsumeAnswer(w) \/ Record(w) \/ SkipThrown(w)
    PROVE  \E r, s : Advances(w, r, s) /\ Justified(w, r, s)
<1> DEFINE k == run[w].k
<1>1. /\ row.state \in State /\ row.state.approval \in 0..N /\ row.state.answer \in Results
      /\ row.state.answer # Skipped
  BY TypeParts DEF SopInv, RowType, State, SoundRow, Sound, Recorded
<1>2. /\ run[w].pc \in AtStep /\ Holds(w) /\ k \in Steps /\ row.action = None
      /\ run[w].pc = "skip" => k \in Optional
      /\ run[w].pc = "record" => k \notin Asks \cup Reviews
  BY DEF SopInv, RunPoints, RunPoint, Holders, Holder, Checkpoint, SkipWhen, ConsumeApproval,
         ConsumeAnswer, Record, SkipThrown, Runs, At, AtStep
<1>3. /\ Skipped \in Results \ {None} /\ k \in Results \ {None, Skipped}
      /\ 0..N \subseteq Results /\ Skipped \notin 0..N /\ None \in 0..N /\ None \in Results
  BY <1>2, SopAssumption DEF Skipped, None, Results, Steps
<1>4. CASE SkipWhen(w) \/ SkipThrown(w)
  <2>1. k \in Conditional \cup Optional
    BY <1>2, <1>4 DEF SkipWhen, SkipThrown, At
  <2>2. Advances(w, Skipped, After(k, Skipped))
    BY <1>1, <1>2, <1>3, <1>4, <2>1, AfterFields DEF SkipWhen, SkipThrown, Advances
  <2>3. Justified(w, Skipped, After(k, Skipped))
    BY <1>1, <1>2, <1>3, AfterFields DEF Justified
  <2>4. QED
    BY <2>2, <2>3
<1>5. CASE Record(w)
  <2>1. Advances(w, k, After(k, k))
    BY <1>1, <1>2, <1>3, <1>5, AfterFields DEF Record, Advances
  <2>2. Justified(w, k, After(k, k))
    BY <1>1, <1>2, <1>3, <1>5, AfterFields DEF Record, At, Justified
  <2>3. QED
    BY <2>1, <2>2
<1>6. CASE ConsumeApproval(w)
  <2> DEFINE r == row.state.approval
             x == After(k, r)
             s == [x EXCEPT !.approval = None, !.pendA = None]
  <2>1. r \in Results \ {None, Skipped}
    BY <1>1, <1>3, <1>6 DEF ConsumeApproval, Consuming
  <2>2. /\ x \in State /\ x.next = k + 1 /\ x.res = [row.state.res EXCEPT ![k] = r]
        /\ x.answer = row.state.answer
    BY <1>1, <1>2, <2>1, AfterFields
  <2> HIDE DEF x
  <2>3. /\ s \in State /\ s.next = k + 1 /\ s.res = [row.state.res EXCEPT ![k] = r]
        /\ s.answer = row.state.answer /\ s.pendA = None
    BY <2>2, ClearFields
  <2>4. Advances(w, r, s)
    BY <1>1, <1>2, <1>6, <2>1, <2>3 DEF ConsumeApproval, Advances, x
  <2>5. k \in Reviews /\ k \notin Asks /\ act[k] = "succeeded"
    BY <1>2, <1>3, <1>6, SopAssumption
       DEF ConsumeApproval, Consuming, SopInv, SoundRow, Sound, Awaited
  <2>6. QED
    BY <2>1, <2>3, <2>4, <2>5 DEF Justified
<1>7. CASE ConsumeAnswer(w)
  <2> DEFINE r == row.state.answer
             x == After(k, r)
             s == [x EXCEPT !.answer = None, !.pend = None]
  <2>1. r \in Results \ {None, Skipped} /\ None # Skipped
    BY <1>1, <1>3, <1>7 DEF ConsumeAnswer
  <2>2. /\ x \in State /\ x.next = k + 1 /\ x.res = [row.state.res EXCEPT ![k] = r]
        /\ x.pendA = row.state.pendA
    BY <1>1, <1>2, <2>1, AfterFields
  <2> HIDE DEF x
  <2>3. /\ s \in State /\ s.next = k + 1 /\ s.res = [row.state.res EXCEPT ![k] = r]
        /\ s.answer = None /\ s.pendA = row.state.pendA
    BY <2>2, ClearFields
  <2>4. Advances(w, r, s)
    BY <1>1, <1>2, <1>7, <2>1, <2>3 DEF ConsumeAnswer, Advances, x
  <2>5. k \in Asks /\ k \notin Reviews
    BY <1>7, SopAssumption DEF ConsumeAnswer
  <2>6. QED
    BY <2>1, <2>3, <2>4, <2>5 DEF Justified
<1>8. QED
  BY <1>4, <1>5, <1>6, <1>7

(* The facts about one step that the invariant reduces to when the row keeps  *)
(* its state and no request moves.                                            *)
LEMMA SameState ==
    ASSUME SopInv, SopTypeOK', RunPoints', Holders', LinkedReview', Grows,
           row'.state = row.state, req' = req
    PROVE  SopInv'
<1>1. far \in 0..N /\ far' \in 0..N /\ row.state \in State /\ SopTypeOK
  BY TypeParts, TypePartsNext DEF SopInv, RowType
<1>2. SoundRow'
  BY <1>1, SoundKept DEF SopInv, SoundRow
<1>3. SoundReqs'
  BY <1>1, SoundReqsKept DEF SopInv
<1>4. QED
  BY <1>2, <1>3 DEF SopInv, AskedWhenOpen

(* A run moves, and does nothing else to the task. *)
LEMMA MoveInv ==
    ASSUME SopInv, NEW w \in Workers,
           run' \in [Workers -> RunType], OthersRun(w), RunPoint(w)', Holder(w)',
           SopTypeOK', UNCHANGED <<row, act, req, far>>
    PROVE  SopInv'
<1>1. RunPoints' /\ Holders'
  BY PointsKept, HoldersKept DEF SopInv
<1>2. Grows /\ LinkedReview'
  BY TypeParts, SopAssumption DEF Grows, SopInv, LinkedReview
<1>3. QED
  BY <1>1, <1>2, SameState

(* Loss of the lease, a crash, a stall, the end of a dead run's lease. *)
LEMMA LossInv ==
    ASSUME SopInv, NEW w \in Workers, Lost(w) \/ Crash(w) \/ Stall(w) \/ LeaseElapses(w)
    PROVE  SopInv'
<1>1. SopTypeOK /\ run \in [Workers -> RunType]
  BY TypeParts DEF SopInv
<1>2. spent' \in [faults : 0..MaxFaults, stops : 0..MaxStops, tells : 0..MaxTells]
  <2>1. spent \in [faults : 0..MaxFaults, stops : 0..MaxStops, tells : 0..MaxTells]
    BY <1>1, TypeParts
  <2>2. spent.faults < MaxFaults => spent.faults + 1 \in 0..MaxFaults
    BY <2>1, SopAssumption
  <2>3. QED
    BY <2>1, <2>2 DEF Lost, Crash, Stall, LeaseElapses
<1>3. CASE Lost(w) \/ Crash(w)
  <2>1. run' = [run EXCEPT ![w] = OffRun] /\ UNCHANGED <<row, act, moved, truthy, sop, stale, req, far>>
    BY <1>3 DEF Lost, Crash
  <2>2. run' \in [Workers -> RunType] /\ OthersRun(w) /\ run'[w].pc = "off"
    BY <1>1, <2>1, RunFields DEF PC
  <2>3. RunPoint(w)' /\ Holder(w)'
    BY <2>2 DEF RunPoint, Holder, AtStep
  <2>4. SopTypeOK'
    BY <1>1, <1>2, <2>1, <2>2, TypeParts, TypePartsNext
  <2>5. QED
    BY <2>1, <2>2, <2>3, <2>4, MoveInv
<1>4. CASE Stall(w) \/ LeaseElapses(w)
  <2>1. stale' \in BOOLEAN /\ UNCHANGED <<row, act, moved, truthy, sop, run, req, far>>
    BY <1>4 DEF Stall, LeaseElapses
  <2>2. SopTypeOK'
    BY <1>1, <1>2, <2>1, TypeParts, TypePartsNext
  <2>3. RunPoint(w)' /\ Holder(w)' /\ OthersRun(w)
    BY <2>1 DEF SopInv, RunPoints, Holders, RunPoint, Holder, Holds, OthersRun
  <2>4. QED
    BY <1>1, <2>1, <2>2, <2>3, MoveInv
<1>5. QED
  BY <1>3, <1>4

(* A run goes on without writing a row of the task's. *)
LEMMA LocalInv ==
    ASSUME SopInv, NEW w \in Workers,
           \/ BeginReviewed(w) \/ StartEdited(w) \/ ToolStep(w) \/ TransitionDenied(w)
           \/ StepThrows(w)
    PROVE  SopInv'
<1>1. SopTypeOK /\ run \in [Workers -> RunType] /\ moved \subseteq Transitions
  BY TypeParts DEF SopInv
<1>2. /\ UNCHANGED <<row, act, truthy, sop, stale, req, far, spent>>
      /\ moved' \subseteq Transitions
  BY <1>1 DEF BeginReviewed, StartEdited, ToolStep, TransitionDenied, StepThrows
<1>3. \/ Goto(w, "throw")
      \/ /\ run' = [run EXCEPT ![w].pc = "commit", ![w].result = "waiting_approval"]
      \/ /\ Goto(w, "record") /\ run[w].pc = "step" /\ run[w].k \notin Asks \cup Reviews
      \/ /\ Goto(w, "skip") /\ run[w].pc = "step" /\ run[w].k \in Optional
  BY DEF BeginReviewed, StartEdited, ToolStep, TransitionDenied, StepThrows, Goto, Runs, At
<1>4. /\ run' \in [Workers -> RunType] /\ OthersRun(w)
      /\ \/ run'[w].pc = "throw"
         \/ run'[w].pc = "commit" /\ run'[w].result = "waiting_approval"
         \/ run'[w].pc = "record" /\ run[w].pc = "step" /\ run'[w].k = run[w].k
               /\ run[w].k \notin Asks \cup Reviews
         \/ run'[w].pc = "skip" /\ run[w].pc = "step" /\ run'[w].k = run[w].k
               /\ run[w].k \in Optional
  BY <1>1, <1>3, RunFields DEF PC, Status
<1>5. RunPoint(w)
  BY DEF SopInv, RunPoints
<1>6. RunPoint(w)'
  BY <1>4, <1>5 DEF RunPoint, AtStep
<1>7. Holder(w)'
  BY <1>2, <1>4 DEF SopInv, Holders, Holder, Holds, AtStep
<1>8. SopTypeOK'
  BY <1>1, <1>2, <1>4, TypeParts, TypePartsNext
<1>9. QED
  BY <1>2, <1>4, <1>6, <1>7, <1>8, MoveInv

(* A run that holds the lease writes the row and keeps its status. *)
LEMMA WriteInv ==
    ASSUME SopInv, NEW w \in Workers, Holds(w),
           run' \in [Workers -> RunType], OthersRun(w), RunPoint(w)', Holder(w)',
           row' \in RowType, row'.lease = row.lease, LinkedReview', SoundRow', Grows,
           far' \in 0..N, sop' = sop, UNCHANGED <<act, moved, truthy, stale, req, spent>>
    PROVE  SopInv'
<1>1. SopTypeOK'
  BY TypeParts, TypePartsNext DEF SopInv
<1>2. RunPoints' /\ Holders'
  BY PointsKept, OneHolder DEF SopInv, Holds
<1>3. SoundReqs'
  BY SoundReqsKept DEF SopInv
<1>4. QED
  BY <1>1, <1>2, <1>3 DEF SopInv, AskedWhenOpen

(* A step that waits remembers itself in the state. *)
LEMMA WaitFields ==
    ASSUME row.state \in State, NEW k \in 0..N
    PROVE  /\ LET s == [row.state EXCEPT !.pend = k] IN
                 /\ s \in State /\ s.next = row.state.next /\ s.res = row.state.res
                 /\ s.answer = row.state.answer /\ s.pendA = row.state.pendA
           /\ LET s == [row.state EXCEPT !.pendA = k] IN
                 /\ s \in State /\ s.next = row.state.next /\ s.res = row.state.res
                 /\ s.answer = row.state.answer /\ s.pendA = k
  BY DEF State

LEMMA WaitInv ==
    ASSUME SopInv, NEW w \in Workers, Ask(w) \/ Await(w)
    PROVE  SopInv'
<1> DEFINE k == run[w].k
           s == IF Ask(w) THEN [row.state EXCEPT !.pend = k] ELSE [row.state EXCEPT !.pendA = k]
<1>1. /\ row \in RowType /\ row.state \in State /\ far \in 0..N /\ run \in [Workers -> RunType]
      /\ k \in 0..N
  BY TypeParts DEF SopInv, RowType, RunType
<1>2. Checkpoint(w, s) /\ UNCHANGED <<act, moved, truthy, sop, stale, req, spent>>
  BY DEF Ask, Await
<1>3. /\ s \in State /\ s.next = row.state.next /\ s.res = row.state.res
      /\ s.answer = row.state.answer
      /\ s.pendA = row.state.pendA \/ (s.pendA = k /\ run[w].pc = "pend")
  <2>1. \/ s = [row.state EXCEPT !.pend = k]
        \/ s = [row.state EXCEPT !.pendA = k] /\ run[w].pc = "pend"
    BY DEF Await, At
  <2> HIDE DEF s, k
  <2>2. CASE s = [row.state EXCEPT !.pend = k]
    BY <1>1, <2>2, WaitFields
  <2>3. CASE s = [row.state EXCEPT !.pendA = k] /\ run[w].pc = "pend"
    BY <1>1, <2>3, WaitFields
  <2>4. QED
    BY <2>1, <2>2, <2>3
<1> HIDE DEF s
<1>4. /\ row' \in RowType /\ far' \in 0..N
      /\ row'.state = s /\ row'.status = row.status /\ row'.lease = row.lease
      /\ row'.action = row.action /\ far <= far' /\ s.next - 1 <= far'
  BY <1>1, <1>2, <1>3, CheckpointFields
<1>5. Holds(w)
  BY <1>2 DEF Checkpoint
<1>6. \E r \in {"waiting_input", "waiting_approval"} :
         run' = [run EXCEPT ![w].pc = "commit", ![w].result = r]
  BY DEF Ask, Await
<1>7. /\ run' \in [Workers -> RunType] /\ OthersRun(w)
      /\ run'[w].pc = "commit" /\ run'[w].result \in {"waiting_input", "waiting_approval"}
  <2>1. PICK r \in {"waiting_input", "waiting_approval"} :
           run' = [run EXCEPT ![w].pc = "commit", ![w].result = r]
    BY <1>6
  <2>2. r \in Status
    BY DEF Status
  <2>3. run' \in [Workers -> RunType] /\ OthersRun(w) /\ run'[w].pc = "commit" /\ run'[w].result = r
    BY <1>1, <2>1, <2>2, ResultFields
  <2>4. QED
    BY <2>3
<1>8. RunPoint(w)' /\ Holder(w)'
  BY <1>7 DEF RunPoint, Holder, AtStep
<1>9. Grows /\ LinkedReview'
  BY <1>2, <1>4 DEF Grows, SopInv, LinkedReview
<1>10. SoundRow'
  <2>1. Recorded(s)
    BY <1>3 DEF SopInv, SoundRow, Sound, Recorded
  <2>2. run[w].pc = "pend" => k \in Reviews /\ row.action = k
    BY <1>5 DEF SopInv, RunPoints, RunPoint, Holders, Holder, AtStep
  <2>3. Awaited(s, row.action, act)
    BY <1>3, <2>2 DEF SopInv, SoundRow, Sound, Awaited
  <2>4. QED
    BY <1>2, <1>4, <2>1, <2>3 DEF SoundRow, Sound
<1>11. QED
  BY <1>2, <1>4, <1>5, <1>7, <1>8, <1>9, <1>10, WriteInv

(* The approved result is taken over: what its step waited for is done. *)
LEMMA ApprovedInv ==
    ASSUME SopInv, NEW w \in Workers, BeginApproved(w)
    PROVE  SopInv'
<1>1. /\ row \in RowType /\ row.state \in State /\ far \in 0..N /\ run \in [Workers -> RunType]
      /\ row.action \in 0..N
  BY TypeParts DEF SopInv, RowType
<1>2. /\ row' \in RowType
      /\ row'.status = row.status /\ row'.lease = row.lease /\ row'.action = None
      /\ row'.state = [row.state EXCEPT !.approval = row.action]
  BY <1>1, ApprovedFields
<1>3. /\ row'.state.next = row.state.next /\ row'.state.res = row.state.res
      /\ row'.state.answer = row.state.answer /\ row'.state.pendA = row.state.pendA
  BY <1>1, <1>2 DEF State
<1>4. /\ run' \in [Workers -> RunType] /\ OthersRun(w) /\ run'[w].pc = "start"
  BY <1>1, RunFields DEF BeginApproved, PC
<1>5. RunPoint(w)' /\ Holder(w)' /\ LinkedReview'
  BY <1>2, <1>4 DEF RunPoint, Holder, AtStep, LinkedReview
<1>6. Grows
  BY <1>1, SopAssumption DEF Grows, BeginApproved
<1>7. SoundRow'
  <2>1. Sound(row.state, far', row'.action, act')
    BY <1>1, <1>6, SoundKept DEF SopInv, SoundRow, BeginApproved
  <2>2. QED
    BY <1>3, <2>1 DEF SoundRow, Sound, Recorded, Awaited
<1>8. QED
  BY <1>1, <1>2, <1>4, <1>5, <1>6, <1>7, WriteInv DEF BeginApproved

(* Before step 1 nothing is recorded that a run could forget. *)
LEMMA StartKeeps ==
    ASSUME SopInv, NEW w \in Workers, Start(w)
    PROVE  /\ row'.state.next = row.state.next /\ row'.state.res = row.state.res
           /\ row'.state.answer = row.state.answer /\ row'.state.pendA = row.state.pendA
<1>1. row \in RowType /\ row.state \in State /\ sop \in Nat
  BY TypeParts DEF SopInv, RowType
<1>2. \/ row'.state = row.state
      \/ row.state.next = 1 /\ row'.state = [row.state EXCEPT !.res = FirstState.res]
  BY <1>1, StartFields
<1>3. row.state.next = 1 => row.state.res = FirstState.res
  <2>1. row.state.res \in [Steps -> Results]
    BY <1>1 DEF State
  <2>2. row.state.next = 1 => \A k \in Steps : row.state.res[k] = None
    BY SopAssumption DEF SopInv, SoundRow, Sound, Recorded, Steps
  <2>3. QED
    BY <2>1, <2>2 DEF FirstState
<1>4. QED
  BY <1>1, <1>2, <1>3 DEF State

LEMMA StartInv ==
    ASSUME SopInv, NEW w \in Workers, Start(w)
    PROVE  SopInv'
<1>1. /\ row \in RowType /\ row.state \in State /\ far \in 0..N /\ run \in [Workers -> RunType]
      /\ sop \in Nat /\ row.state.next \in 1..(N + 1)
  BY TypeParts DEF SopInv, RowType, State
<1>2. /\ row' \in RowType
      /\ row'.status = row.status /\ row'.lease = row.lease /\ row'.action = row.action
  BY <1>1, StartFields
<1>3. Continue(w, row.state.next) /\ UNCHANGED <<act, moved, truthy, sop, stale, req, far, spent>>
  BY DEF Start
<1>4. /\ run' \in [Workers -> RunType] /\ OthersRun(w)
      /\ \/ row.state.next \in Steps /\ run'[w].pc = "step" /\ run'[w].k = row.state.next
         \/ /\ row.state.next = N + 1
            /\ run'[w].pc = "commit" /\ run'[w].result = "succeeded"
  BY <1>1, <1>3, ContinueFields
<1>5. Holds(w) /\ row.action = None
  BY DEF Start, Ready, SopInv, Holders, Holder, At
<1>6. RunPoint(w)'
  BY <1>4 DEF RunPoint, AtStep
<1>7. Holder(w)'
  BY <1>2, <1>4, <1>5, StartKeeps DEF Holder, AtStep
<1>8. Grows /\ LinkedReview'
  BY <1>1, <1>2, <1>3, <1>5, SopAssumption DEF Grows, LinkedReview
<1>9. SoundRow'
  BY <1>2, <1>3, StartKeeps DEF SopInv, SoundRow, Sound, Recorded, Awaited
<1>10. QED
  BY <1>1, <1>2, <1>3, <1>4, <1>5, <1>6, <1>7, <1>8, <1>9, WriteInv

(* The proposal is linked: the step that stood at it had no link before. *)
LEMMA LinkInv ==
    ASSUME SopInv, NEW w \in Workers, Link(w)
    PROVE  SopInv'
<1>1. /\ row \in RowType /\ row.state \in State /\ far \in 0..N /\ run \in [Workers -> RunType]
  BY TypeParts DEF SopInv, RowType
<1>2. /\ row' \in RowType
      /\ row'.status = row.status /\ row'.lease = row.lease /\ row'.action = run[w].k
      /\ row'.state = row.state
  BY <1>1, LinkFields
<1>3. /\ run' \in [Workers -> RunType] /\ OthersRun(w) /\ run'[w].pc = "pend"
      /\ run'[w].k = run[w].k
  BY <1>1, RunFields DEF Link, PC
<1>4. /\ Holds(w) /\ row.action = None /\ run[w].k \in Reviews /\ run[w].k \in Steps
      /\ run[w].k = row.state.next
  BY DEF Link, SopInv, RunPoints, RunPoint, Holders, Holder, At, AtStep
<1>5. RunPoint(w)' /\ Holder(w)' /\ LinkedReview'
  BY <1>2, <1>3, <1>4 DEF RunPoint, Holder, AtStep, LinkedReview
<1>6. Grows
  BY <1>1, <1>4, SopAssumption DEF Grows, Link
<1>7. SoundRow'
  BY <1>1, <1>2, <1>6, SoundKept DEF SopInv, SoundRow, Link
<1>8. QED
  BY <1>1, <1>2, <1>3, <1>4, <1>5, <1>6, <1>7, WriteInv DEF Link

(* Proposals: whoever changes them, one that was carried out stays so. *)
LEMMA ActionFields ==
    ASSUME act \in [Reviews -> ActStatus], NEW k \in Reviews, NEW s \in ActStatus,
           act[k] # "succeeded" \/ s = "succeeded",
           act' = [act EXCEPT ![k] = s]
    PROVE  /\ act' \in [Reviews -> ActStatus]
           /\ \A j \in Reviews : act[j] = "succeeded" => act'[j] = "succeeded"
  OBVIOUS

LEMMA ProposeInv ==
    ASSUME SopInv, NEW w \in Workers, Propose(w) \/ Unlink(w)
    PROVE  SopInv'
<1> DEFINE k == run[w].k
<1>1. /\ SopTypeOK /\ run \in [Workers -> RunType] /\ act \in [Reviews -> ActStatus]
      /\ far \in 0..N
  BY TypeParts DEF SopInv
<1>2. k \in Reviews /\ k \in Steps
  BY SopAssumption DEF Propose, Unlink, Runs, At, AtStep, SopInv, RunPoints, RunPoint
<1>3. \/ act' = act
      \/ \E s \in ActStatus : /\ act[k] # "succeeded" \/ s = "succeeded"
                              /\ act' = [act EXCEPT ![k] = s]
  BY <1>1, <1>2 DEF Propose, Unlink, ActStatus
<1>4. /\ act' \in [Reviews -> ActStatus]
      /\ \A j \in Reviews : act[j] = "succeeded" => act'[j] = "succeeded"
  BY <1>1, <1>2, <1>3, ActionFields
<1>5. UNCHANGED <<row, moved, truthy, sop, stale, req, far, spent>>
  BY DEF Propose, Unlink
<1>6. /\ run' \in [Workers -> RunType] /\ OthersRun(w)
      /\ run'[w].pc = "off" \/ (run'[w].pc = "proposed" /\ run'[w].k = k /\ run[w].pc = "step")
  <2>1. CASE Propose(w)
    <3>1. PICK o \in BOOLEAN : run' = [run EXCEPT ![w].pc = "proposed", ![w].own = o]
      BY <2>1 DEF Propose
    <3>2. QED
      BY <1>1, <2>1, <3>1, RunFields DEF Propose, Runs, At, PC
  <2>2. CASE Unlink(w)
    BY <1>1, <2>2, RunFields DEF Unlink, PC
  <2>3. QED
    BY <2>1, <2>2
<1>7. SopTypeOK'
  BY <1>1, <1>4, <1>5, <1>6, TypeParts, TypePartsNext
<1>8. RunPoint(w)' /\ Holder(w)'
  BY <1>2, <1>5, <1>6 DEF SopInv, Holders, RunPoint, Holder, Holds, AtStep
<1>9. RunPoints' /\ Holders' /\ LinkedReview'
  BY <1>5, <1>6, <1>8, PointsKept, HoldersKept DEF SopInv, LinkedReview
<1>10. Grows
  BY <1>1, <1>4, <1>5, SopAssumption DEF Grows
<1>11. QED
  BY <1>5, <1>7, <1>9, <1>10, SameState

(* Reviewers and the provider. *)
LEMMA ReviewInv ==
    ASSUME SopInv, NEW k \in Reviews, Approve(k) \/ Outcome(k) \/ Deny(k)
    PROVE  SopInv'
<1>1. SopTypeOK /\ act \in [Reviews -> ActStatus] /\ far \in 0..N
  BY TypeParts DEF SopInv
<1>2. \E s \in ActStatus : act[k] # "succeeded" /\ act' = [act EXCEPT ![k] = s]
  BY DEF Approve, Outcome, Deny, ActStatus
<1>3. /\ act' \in [Reviews -> ActStatus]
      /\ \A j \in Reviews : act[j] = "succeeded" => act'[j] = "succeeded"
  BY <1>1, <1>2, ActionFields
<1>4. UNCHANGED <<row, moved, truthy, sop, stale, run, req, far, spent>>
  BY DEF Approve, Outcome, Deny
<1>5. SopTypeOK'
  BY <1>1, <1>3, <1>4, TypeParts, TypePartsNext
<1>6. RunPoints' /\ Holders' /\ LinkedReview' /\ Grows
  BY <1>1, <1>3, <1>4, SopAssumption
     DEF SopInv, RunPoints, RunPoint, Holders, Holder, Holds, LinkedReview, Grows
<1>7. QED
  BY <1>4, <1>5, <1>6, SameState

(* The SOP record is saved. *)
LEMMA EditInv ==
    ASSUME SopInv, EditSop
    PROVE  SopInv'
<1>1. SopTypeOK /\ far \in 0..N
  BY TypeParts DEF SopInv
<1>2. sop' \in Nat \ {0} /\ UNCHANGED <<row, act, moved, truthy, stale, run, req, far, spent>>
  BY <1>1, TypeParts DEF EditSop
<1>3. SopTypeOK'
  BY <1>1, <1>2, TypeParts, TypePartsNext
<1>4. RunPoints' /\ Holders' /\ LinkedReview' /\ Grows
  BY <1>1, <1>2, SopAssumption
     DEF SopInv, RunPoints, RunPoint, Holders, Holder, Holds, LinkedReview, Grows
<1>5. QED
  BY <1>2, <1>3, <1>4, SameState

(* The bounded counters keep their type. *)
LEMMA SpentType ==
    ASSUME SopTypeOK
    PROVE  /\ spent.stops < MaxStops /\ spent' = [spent EXCEPT !.stops = @ + 1] =>
                spent' \in [faults : 0..MaxFaults, stops : 0..MaxStops, tells : 0..MaxTells]
           /\ spent.tells < MaxTells /\ spent' = [spent EXCEPT !.tells = @ + 1] =>
                spent' \in [faults : 0..MaxFaults, stops : 0..MaxStops, tells : 0..MaxTells]
<1>1. spent \in [faults : 0..MaxFaults, stops : 0..MaxStops, tells : 0..MaxTells]
  BY TypeParts
<1>2. /\ spent.stops < MaxStops => spent.stops + 1 \in 0..MaxStops
      /\ spent.tells < MaxTells => spent.tells + 1 \in 0..MaxTells
  BY <1>1, SopAssumption
<1>3. QED
  BY <1>1, <1>2

(* The task is taken from its run, or is not running at all. *)
LEMMA ReleaseInv ==
    ASSUME SopInv, Pause \/ Resume \/ Retry \/ \E w \in Workers : Commit(w) \/ Fail(w)
    PROVE  SopInv'
<1>1. SopTypeOK /\ row \in RowType /\ run \in [Workers -> RunType] /\ far \in 0..N
  BY TypeParts DEF SopInv
<1>2. PICK s \in Status \ {"running"} : row' = [row EXCEPT !.status = s, !.lease = NoWorker]
  <2>1. ASSUME NEW w \in Workers, Commit(w)
        PROVE  run[w].result \in Status \ {"running"}
    BY <2>1 DEF Commit, At, SopInv, RunPoints, RunPoint, Status
  <2>2. QED
    BY <2>1 DEF Pause, Resume, Retry, Control, Requeued, Commit, Fail, Status
<1>3. /\ row' \in RowType /\ row'.state = row.state /\ row'.status # "running"
      /\ row'.action = row.action
  BY <1>1, <1>2, ReleaseFields
<1>4. spent' \in [faults : 0..MaxFaults, stops : 0..MaxStops, tells : 0..MaxTells]
  BY <1>1, SpentType, TypeParts DEF Pause, Resume, Retry, Commit, Fail
<1>5. UNCHANGED <<act, moved, truthy, sop, stale, req, far>>
  BY DEF Pause, Resume, Retry, Control, Commit, Fail
<1>6. run' \in [Workers -> RunType] /\ RunPoints'
  <2>1. CASE run' = run
    BY <1>1, <2>1 DEF SopInv, RunPoints, RunPoint
  <2>2. ASSUME NEW w \in Workers, run' = [run EXCEPT ![w] = OffRun]
        PROVE  run' \in [Workers -> RunType] /\ RunPoints'
    <3>1. run' \in [Workers -> RunType] /\ OthersRun(w) /\ run'[w].pc = "off"
      BY <1>1, <2>2, RunFields DEF PC
    <3>2. QED
      BY <3>1, PointsKept DEF SopInv, RunPoint, AtStep
  <2>3. QED
    BY <2>1, <2>2 DEF Pause, Resume, Retry, Control, Commit, Fail
<1>7. SopTypeOK' /\ Holders'
  BY <1>1, <1>3, <1>4, <1>5, <1>6, TypeParts, TypePartsNext, NoHolder
<1>8. LinkedReview' /\ Grows
  BY <1>1, <1>3, <1>5, SopAssumption DEF SopInv, LinkedReview, Grows
<1>9. QED
  BY <1>3, <1>5, <1>6, <1>7, <1>8, SameState

(* What a cancel leaves in the row. *)
LEMMA CancelFields ==
    ASSUME row \in RowType, Cancel
    PROVE  /\ row' \in RowType /\ row'.status = "cancelled" /\ row'.action = row.action
           /\ row'.state.next = row.state.next /\ row'.state.res = row.state.res
           /\ row'.state.answer = row.state.answer
           /\ row'.state.pendA \in {row.state.pendA, None}
<1> DEFINE s == IF row.action = None THEN row.state
                ELSE [row.state EXCEPT !.pend = None, !.pendA = None, !.approval = None]
<1>1. row' = [row EXCEPT !.status = "cancelled", !.lease = NoWorker, !.state = s]
  BY DEF Cancel
<1>2. None \in 0..N
  BY SopAssumption DEF None
<1>3. /\ s \in State /\ s.next = row.state.next /\ s.res = row.state.res
      /\ s.answer = row.state.answer /\ s.pendA \in {row.state.pendA, None}
  BY <1>2 DEF RowType, State
<1> HIDE DEF s
<1>4. QED
  BY <1>1, <1>3 DEF RowType, Status

LEMMA CancelInv ==
    ASSUME SopInv, Cancel
    PROVE  SopInv'
<1>1. /\ SopTypeOK /\ row \in RowType /\ act \in [Reviews -> ActStatus] /\ far \in 0..N
      /\ row.state \in State
  BY TypeParts DEF SopInv, RowType
<1>2. /\ row' \in RowType /\ row'.status = "cancelled" /\ row'.action = row.action
      /\ row'.state.next = row.state.next /\ row'.state.res = row.state.res
      /\ row'.state.answer = row.state.answer
      /\ row'.state.pendA \in {row.state.pendA, None}
  BY <1>1, CancelFields
<1>3. /\ act' \in [Reviews -> ActStatus]
      /\ \A j \in Reviews : act[j] = "succeeded" => act'[j] = "succeeded"
  <2>1. \/ act' = act
        \/ /\ row.action \in Reviews /\ act[row.action] # "succeeded"
           /\ act' = [act EXCEPT ![row.action] = "refused"]
    BY DEF Cancel, SopInv, LinkedReview
  <2>2. QED
    BY <1>1, <2>1, ActionFields DEF ActStatus
<1>4. UNCHANGED <<moved, truthy, sop, stale, run, req, far>>
  BY DEF Cancel
<1>5. SopTypeOK' /\ Holders'
  BY <1>1, <1>2, <1>3, <1>4, SpentType, TypeParts, TypePartsNext, NoHolder DEF Cancel
<1>6. RunPoints' /\ LinkedReview' /\ Grows
  BY <1>1, <1>2, <1>3, <1>4, SopAssumption DEF SopInv, RunPoints, RunPoint, LinkedReview, Grows
<1>7. SoundRow'
  <2>1. Sound(row.state, far', row'.action, act')
    BY <1>1, <1>4, <1>6, SoundKept DEF SopInv, SoundRow
  <2>2. QED
    BY <1>2, <2>1 DEF SoundRow, Sound, Recorded, Awaited
<1>8. SoundReqs' /\ AskedWhenOpen'
  BY <1>1, <1>4, <1>6, SoundReqsKept DEF SopInv, AskedWhenOpen
<1>9. QED
  BY <1>5, <1>6, <1>7, <1>8 DEF SopInv

(* A claim: the requests forget which lease of this process they saw. *)
LEMMA ClaimInv ==
    ASSUME SopInv, NEW w \in Workers, Claim(w)
    PROVE  SopInv'
<1>1. /\ SopTypeOK /\ row \in RowType /\ run \in [Workers -> RunType] /\ far \in 0..N
      /\ req \in [Clients -> ReqType] /\ row.state \in State
  BY TypeParts DEF SopInv, RowType
<1>2. /\ row' \in RowType /\ row'.state = row.state /\ row'.status = "running"
      /\ row'.lease = w /\ row'.action = row.action
  BY <1>1, ReleaseFields DEF Claim, Status
<1>3. run' \in [Workers -> RunType] /\ OthersRun(w) /\ run'[w].pc = "begin"
  BY <1>1, RunFields DEF Claim, PC
<1>4. RunPoint(w)' /\ Holder(w)'
  BY <1>3 DEF RunPoint, Holder, AtStep
<1>5. RunPoints' /\ Holders'
  BY <1>2, <1>3, <1>4, PointsKept, OneHolder DEF SopInv
<1>6. \A c \in Clients : /\ req'[c] \in ReqType /\ req'[c].state = req[c].state
                         /\ req'[c].pc = req[c].pc /\ req'[c].status = req[c].status
  <2>1. ASSUME NEW c \in Clients
        PROVE  [req[c] EXCEPT !.lease = Gone] \in ReqType
    BY <1>1 DEF ReqType
  <2>2. QED
    BY <1>1, <2>1 DEF Claim, ReqType
<1>7. req' \in [Clients -> ReqType]
  BY <1>6 DEF Claim
<1>8. UNCHANGED <<act, moved, truthy, sop, far, spent>> /\ stale' \in BOOLEAN
  BY DEF Claim
<1>9. SopTypeOK'
  BY <1>1, <1>2, <1>3, <1>7, <1>8, TypeParts, TypePartsNext
<1>10. SoundRow' /\ SoundReqs' /\ LinkedReview' /\ AskedWhenOpen'
  BY <1>2, <1>6, <1>8 DEF SopInv, SoundRow, SoundReqs, LinkedReview, AskedWhenOpen
<1>11. QED
  BY <1>5, <1>9, <1>10 DEF SopInv

(* A request reads the row. *)
LEMMA TellInv ==
    ASSUME SopInv, NEW c \in Clients, AnswerRead(c) \/ EscalateRead(c)
    PROVE  SopInv'
<1>1. /\ SopTypeOK /\ row \in RowType /\ far \in 0..N /\ req \in [Clients -> ReqType]
  BY TypeParts DEF SopInv
<1>2. PICK kind \in {"answer", "escalate"} :
         /\ Tell(c, kind)
         /\ kind = "escalate" => row.status \notin {"succeeded", "failed", "cancelled"}
  BY DEF AnswerRead, EscalateRead
<1> DEFINE q == [pc |-> kind, status |-> row.status, lease |-> row.lease, state |-> row.state]
<1>3. q \in ReqType
  BY <1>1 DEF RowType, ReqType
<1>4. req' = [req EXCEPT ![c] = q] /\ UNCHANGED <<row, act, moved, truthy, sop, stale, run, far>>
  BY <1>2 DEF Tell
<1>5. SopTypeOK'
  BY <1>1, <1>2, <1>3, <1>4, SpentType, TypeParts, TypePartsNext DEF Tell
<1>6. RunPoints' /\ Holders' /\ LinkedReview' /\ SoundRow'
  BY <1>4 DEF SopInv, RunPoints, RunPoint, Holders, Holder, Holds, LinkedReview, SoundRow
<1>7. req'[c] = q /\ \A d \in Clients \ {c} : req'[d] = req[d]
  BY <1>1, <1>4
<1>8. SoundReqs' /\ AskedWhenOpen'
  BY <1>2, <1>4, <1>7 DEF SopInv, SoundRow, SoundReqs, AskedWhenOpen
<1>9. QED
  BY <1>5, <1>6, <1>8 DEF SopInv

(* What a request writes back: the state it read, with its answer or its mark. *)
LEMMA SwapFields ==
    ASSUME SopInv, NEW c \in Clients, AnswerSwap(c) \/ EscalateSwap(c), row' # row
    PROVE  LET s == req[c].state IN
           /\ row' \in RowType /\ row'.action = row.action
           /\ row'.status \in {"queued", "waiting_input"}
           /\ row.status \notin {"succeeded", "failed", "cancelled"}
           /\ row'.state.next = s.next /\ row'.state.res = s.res /\ row'.state.pendA = s.pendA
           /\ row'.state.answer \in Results \ {Skipped}
<1> DEFINE s == req[c].state
<1>1. row \in RowType /\ s \in State /\ s.answer # Skipped
  BY TypeParts DEF SopInv, ReqType, SoundReqs, Sound, Recorded
<1>2. CASE AnswerSwap(c)
  <2> DEFINE a == IF s.escalated THEN Note ELSE s.pend
             x == [s EXCEPT !.answer = a, !.escalated = FALSE]
  <2>1. a \in Results \ {Skipped}
    BY <1>1, SopAssumption DEF State, Note, Results, Skipped
  <2>2. /\ row.status = "waiting_input"
        /\ row' = [row EXCEPT !.status = "queued", !.state = x]
    BY <1>2 DEF AnswerSwap
  <2> HIDE DEF a
  <2>3. /\ x \in State /\ x.next = s.next /\ x.res = s.res /\ x.pendA = s.pendA /\ x.answer = a
    BY <1>1, <2>1 DEF State
  <2> HIDE DEF x
  <2>4. QED
    BY <1>1, <2>1, <2>2, <2>3 DEF RowType, Status
<1>3. CASE EscalateSwap(c)
  <2> DEFINE x == [s EXCEPT !.escalated = TRUE]
  <2>1. /\ row.status = req[c].status /\ req[c].pc = "escalate"
        /\ row' = [row EXCEPT !.status = "waiting_input", !.lease = NoWorker, !.state = x]
    BY <1>3 DEF EscalateSwap
  <2>2. /\ x \in State /\ x.next = s.next /\ x.res = s.res /\ x.pendA = s.pendA
        /\ x.answer = s.answer
    BY <1>1 DEF State
  <2>3. s.answer \in Results
    BY <1>1 DEF State
  <2>4. row.status \notin {"succeeded", "failed", "cancelled"}
    BY <2>1 DEF SopInv, AskedWhenOpen
  <2> HIDE DEF x
  <2>5. QED
    BY <1>1, <2>1, <2>2, <2>3, <2>4 DEF RowType, Status
<1>4. QED
  BY <1>2, <1>3

LEMMA SwapInv ==
    ASSUME SopInv, NEW c \in Clients, AnswerSwap(c) \/ EscalateSwap(c)
    PROVE  SopInv'
<1>1. SopTypeOK /\ row \in RowType /\ far \in 0..N /\ req \in [Clients -> ReqType]
  BY TypeParts DEF SopInv
<1>2. /\ req' = [req EXCEPT ![c] = NoReq]
      /\ UNCHANGED <<act, moved, truthy, sop, stale, run, far, spent>>
  BY DEF AnswerSwap, EscalateSwap
<1>3. req' \in [Clients -> ReqType] /\ req'[c] = NoReq /\ \A d \in Clients \ {c} : req'[d] = req[d]
  BY <1>1, <1>2, FirstTypes
<1>4. row' \in RowType /\ row'.action = row.action
  BY <1>1, SwapFields
<1>5. SopTypeOK'
  BY <1>1, <1>2, <1>3, <1>4, TypeParts, TypePartsNext
<1>6. RunPoints' /\ LinkedReview'
  BY <1>2, <1>4 DEF SopInv, RunPoints, RunPoint, LinkedReview
<1>7. Holders'
  <2>1. CASE row' = row
    BY <1>2, <2>1 DEF SopInv, Holders, Holder, Holds
  <2>2. CASE row' # row
    BY <2>2, SwapFields, NoHolder
  <2>3. QED
    BY <2>1, <2>2
<1>8. SoundRow'
  <2>1. CASE row' = row
    BY <1>2, <2>1 DEF SopInv, SoundRow
  <2>2. CASE row' # row
    <3>1. Sound(req[c].state, far, row.action, act)
      BY DEF SopInv, SoundReqs
    <3>2. QED
      BY <1>2, <1>4, <2>2, <3>1, SwapFields DEF SoundRow, Sound, Recorded, Awaited
  <2>3. QED
    BY <2>1, <2>2
<1>9. SoundReqs' /\ AskedWhenOpen'
  <2>1. NoReq.state = FirstState /\ NoReq.pc = "none"
    BY DEF NoReq
  <2>2. Sound(NoReq.state, far, row.action, act)
    BY <1>1, <2>1, SoundFirst
  <2>3. QED
    BY <1>2, <1>3, <1>4, <2>1, <2>2 DEF SopInv, SoundReqs, AskedWhenOpen
<1>10. QED
  BY <1>5, <1>6, <1>7, <1>8, <1>9 DEF SopInv

----------------------------------------------------------------------------
(* The invariant holds in the beginning ... *)
LEMMA SopInvInit == Init => SopInv
<1> SUFFICES ASSUME Init PROVE SopInv
  OBVIOUS
<1>1. SopTypeOK
  <2>1. row \in RowType
    BY FirstTypes, SopAssumption DEF Init, RowType, Status, None
  <2>2. act \in [Reviews -> ActStatus]
    BY DEF Init, ActStatus
  <2>3. run \in [Workers -> RunType] /\ req \in [Clients -> ReqType]
    BY FirstTypes DEF Init
  <2>4. /\ far \in 0..N /\ sop \in Nat \ {0}
        /\ spent \in [faults : 0..MaxFaults, stops : 0..MaxStops, tells : 0..MaxTells]
    BY SopAssumption DEF Init
  <2>5. moved \subseteq Transitions /\ truthy \subseteq Conditional /\ stale \in BOOLEAN
    BY DEF Init
  <2>6. QED
    BY <2>1, <2>2, <2>3, <2>4, <2>5, TypeParts
<1>2. /\ row.state = FirstState /\ row.action = None /\ row.status = "queued"
      /\ \A w \in Workers : run[w].pc = "off"
      /\ \A c \in Clients : req[c].state = FirstState /\ req[c].pc = "none"
  BY DEF Init, OffRun, NoReq
<1>3. RunPoints /\ Holders /\ LinkedReview /\ AskedWhenOpen
  BY <1>2 DEF RunPoints, RunPoint, AtStep, Holders, Holder, Holds, LinkedReview, AskedWhenOpen
<1>4. SoundRow /\ SoundReqs
  BY <1>1, <1>2, SoundFirst, TypeParts DEF SoundRow, SoundReqs
<1>5. QED
  BY <1>1, <1>3, <1>4 DEF SopInv

(* ... and every step keeps it. *)
LEMMA SopInvNext == SopInv /\ [Next]_vars => SopInv'
<1> SUFFICES ASSUME SopInv, [Next]_vars PROVE SopInv'
  OBVIOUS
<1>1. ASSUME NEW w \in Workers, Runner(w) PROVE SopInv'
  <2>1. CASE SkipWhen(w) \/ ConsumeApproval(w) \/ ConsumeAnswer(w) \/ Record(w) \/ SkipThrown(w)
    BY <2>1, Advancing, AdvanceInv
  <2>2. CASE Commit(w) \/ Fail(w)
    BY <2>2, ReleaseInv
  <2>3. QED
    BY <1>1, <2>1, <2>2, ApprovedInv, LocalInv, StartInv, WaitInv, ProposeInv, LinkInv, LossInv
       DEF Runner, Execute, Loop, Step
<1>2. ASSUME People PROVE SopInv'
  BY <1>2, TellInv, SwapInv, ReviewInv, ReleaseInv, CancelInv, EditInv DEF People
<1>3. CASE UNCHANGED vars
  <2>1. Grows
    BY <1>3, TypeParts, SopAssumption DEF SopInv, Grows, vars
  <2>2. SopTypeOK'
    <3>1. /\ row' = row /\ act' = act /\ moved' = moved /\ truthy' = truthy /\ sop' = sop
          /\ stale' = stale /\ run' = run /\ req' = req /\ far' = far /\ spent' = spent
      BY <1>3 DEF vars
    <3>2. QED
      BY <3>1, TypeParts, TypePartsNext DEF SopInv
  <2>3. RunPoints' /\ Holders' /\ LinkedReview'
    BY <1>3 DEF SopInv, RunPoints, RunPoint, Holders, Holder, Holds, LinkedReview, vars
  <2>4. QED
    BY <1>3, <2>1, <2>2, <2>3, SameState DEF vars
<1>4. QED
  BY <1>1, <1>2, <1>3, ClaimInv, LossInv DEF Next

(* The task's row, its proposals, its runs and the requests on their way keep *)
(* their types, whatever a run is overtaken by (SOPExecutor, TaskWorker).     *)
THEOREM SopTyped == Spec => []SopTypeOK
<1>1. SopInv => SopTypeOK
  BY DEF SopInv
<1>2. QED
  BY <1>1, SopInvInit, SopInvNext, PTL DEF Spec

----------------------------------------------------------------------------
(* The refinement                                                            *)

(* What the procedure shows of the results, the status and the proposals. *)
Shown(res) == [k \in Steps |-> IF res[k] = None THEN "none"
                               ELSE IF res[k] = Skipped THEN "skipped" ELSE "done"]
PhaseOf(status) == IF status = "succeeded" THEN "done"
                   ELSE IF status \in {"paused", "failed", "cancelled"} THEN "stopped" ELSE "open"
CarriedOut(acts) == {k \in Reviews : acts[k] = "succeeded"}

(* A step of the procedure that leaves what was recorded alone. *)
SameRecord ==
    /\ row'.state.next = row.state.next /\ row'.state.res = row.state.res
    /\ row'.state.answer = row.state.answer /\ far' = far

LEMMA Stutters ==
    ASSUME SameRecord, CarriedOut(act') = CarriedOut(act),
           PhaseOf(row'.status) = PhaseOf(row.status)
    PROVE  UNCHANGED P!procedureVars
  BY DEF SameRecord, CarriedOut, PhaseOf, P!procedureVars

LEMMA Phases ==
    ASSUME SameRecord, CarriedOut(act') = CarriedOut(act)
    PROVE  /\ PhaseOf(row.status) = "open" /\ PhaseOf(row'.status) = "stopped" => P!Stop
           /\ PhaseOf(row.status) = "stopped" /\ PhaseOf(row'.status) = "open" => P!Reopen
           /\ /\ PhaseOf(row.status) = "open" /\ PhaseOf(row'.status) = "done"
              /\ row.state.next - 1 = N
              => P!Finish
  BY DEF SameRecord, CarriedOut, PhaseOf, P!Stop, P!Reopen, P!Finish

(* Recording a step is doing or skipping it. *)
LEMMA AdvanceDoes ==
    ASSUME SopInv, NEW w \in Workers, NEW r, NEW s, Advances(w, r, s), Justified(w, r, s)
    PROVE  \E k \in 1..N : P!Do(k) \/ P!Skip(k)
<1>1. /\ row \in RowType /\ row.state \in State /\ row.state.res \in [Steps -> Results]
      /\ far \in 0..N
  BY TypeParts DEF SopInv, RowType, State
<1>2. PICK k \in 1..N : k = run[w].k /\ Holds(w) /\ k = row.state.next
  BY DEF SopInv, Advances, RunPoints, RunPoint, Holders, Holder, Checkpoint, Steps
<1>3. row'.state = s /\ row'.status = "running" /\ row.status = "running"
  BY <1>1, <1>2, CheckpointFields DEF Advances, Holds
<1>4. /\ row.state.next - 1 + 1 = k
      /\ row'.state.next - 1 = k
      /\ far' = IF k > far THEN k ELSE far
  BY <1>1, <1>2, <1>3, SopAssumption DEF Advances, Checkpoint
<1>5. /\ r # Skipped => Shown(row'.state.res) = [Shown(row.state.res) EXCEPT ![k] = "done"]
      /\ r = Skipped => Shown(row'.state.res) = [Shown(row.state.res) EXCEPT ![k] = "skipped"]
  BY <1>1, <1>2, <1>3 DEF Shown, Advances
<1>6. act' = act
  BY DEF Advances
<1>7. CASE r = Skipped
  <2>1. k \in Conditional \cup Optional /\ s.answer = row.state.answer
    BY <1>2, <1>7 DEF Advances, Justified
  <2>2. P!Skip(k)
    BY <1>3, <1>4, <1>5, <1>6, <1>7, <2>1 DEF P!Skip, P!Furthest, Shown
  <2>3. QED
    BY <2>2
<1>8. CASE r # Skipped
  <2>1. P!Do(k)
    BY <1>2, <1>3, <1>4, <1>5, <1>6, <1>8, SopAssumption DEF P!Do, P!Furthest, Shown, Justified
  <2>2. QED
    BY <2>1
<1>9. QED
  BY <1>7, <1>8

(* An answer or an escalation that is accepted tells the procedure where to    *)
(* go on, with what it had seen recorded.                                      *)
LEMMA SwapTells ==
    ASSUME SopInv, NEW c \in Clients, AnswerSwap(c) \/ EscalateSwap(c), row' # row
    PROVE  \E p \in 0..N : P!Tell(p)
<1> DEFINE s == req[c].state
<1>0. PICK p \in 0..N : p = s.next - 1
  BY TypeParts, SopAssumption DEF SopInv, ReqType, State
<1> DEFINE o == [k \in 1..p |-> IF s.res[k] = Skipped THEN "skipped" ELSE "done"]
<1>1. /\ s \in State /\ s.next \in 1..(N + 1) /\ s.res \in [Steps -> Results]
      /\ p <= far /\ far \in 0..N /\ Recorded(s)
  BY <1>0, TypeParts DEF SopInv, ReqType, State, SoundReqs, Sound
<1>2. p \in 0..N /\ \A k \in 1..N : k <= p <=> k < s.next
  BY <1>0, <1>1, SopAssumption
<1>3. /\ row'.status \in {"queued", "waiting_input"}
      /\ row.status \notin {"succeeded", "failed", "cancelled"}
      /\ row'.state.next = s.next /\ row'.state.res = s.res
      /\ act' = act /\ far' = far
  BY SwapFields DEF AnswerSwap, EscalateSwap
<1>4. \A k \in 1..p : k \in Steps /\ s.res[k] # None
                      /\ (s.res[k] = Skipped => k \in Conditional \cup Optional)
  BY <1>1, <1>2, SopAssumption DEF Recorded, Steps
<1>5. /\ o \in [1..p -> {"done", "skipped"}]
      /\ \A k \in 1..p : o[k] = "skipped" => k \in Conditional \cup Optional
  BY <1>4
<1>6. Shown(row'.state.res) = [k \in 1..N |-> IF k <= p THEN o[k] ELSE "none"]
  <2>1. \A k \in 1..N : k <= p => k \in 1..p
    BY <1>2, SopAssumption
  <2>2. ASSUME NEW k \in 1..N
        PROVE  Shown(s.res)[k] = IF k <= p THEN o[k] ELSE "none"
    BY <1>1, <1>2, <1>4, <2>1 DEF Shown, Recorded, Steps
  <2>3. QED
    BY <1>3, <2>2 DEF Shown, Steps
<1> HIDE DEF o
<1>7. P!Tell(p)
  BY <1>0, <1>1, <1>3, <1>5, <1>6 DEF P!Tell, Shown
<1>8. QED
  BY <1>2, <1>7

(* Runs that read, move, wait, take an approval over, propose or disappear     *)
(* show nothing.                                                               *)
LEMMA RunnerStutters ==
    ASSUME SopInv, NEW w \in Workers,
           \/ Claim(w) \/ Lost(w) \/ Crash(w) \/ Stall(w) \/ LeaseElapses(w)
           \/ BeginApproved(w) \/ BeginReviewed(w) \/ Start(w) \/ StartEdited(w)
           \/ Ask(w) \/ Await(w) \/ Propose(w) \/ Link(w) \/ Unlink(w)
           \/ ToolStep(w) \/ TransitionDenied(w) \/ StepThrows(w)
    PROVE  UNCHANGED P!procedureVars
<1>1. /\ row \in RowType /\ row.state \in State /\ far \in 0..N /\ run \in [Workers -> RunType]
      /\ act \in [Reviews -> ActStatus] /\ sop \in Nat
  BY TypeParts DEF SopInv, RowType
<1>2. CASE Claim(w)
  <2>1. row'.state = row.state /\ row'.status = "running"
    BY <1>1, <1>2, ReleaseFields DEF Claim, Status
  <2>2. PhaseOf(row.status) = "open" /\ PhaseOf(row'.status) = "open"
    BY <1>2, <2>1 DEF Claim, PhaseOf
  <2>3. QED
    BY <1>2, <2>1, <2>2, Stutters DEF Claim, SameRecord
<1>3. CASE \/ Lost(w) \/ Crash(w) \/ Stall(w) \/ LeaseElapses(w) \/ BeginReviewed(w)
           \/ StartEdited(w) \/ ToolStep(w) \/ TransitionDenied(w) \/ StepThrows(w)
  <2>1. UNCHANGED <<row, act, far>>
    BY <1>3 DEF Lost, Crash, Stall, LeaseElapses, BeginReviewed, StartEdited, ToolStep,
                TransitionDenied, StepThrows
  <2>2. QED
    BY <2>1, Stutters DEF SameRecord
<1>4. CASE BeginApproved(w)
  <2>1. row'.status = row.status /\ row'.state = [row.state EXCEPT !.approval = row.action]
    BY <1>1, <1>4, ApprovedFields
  <2>2. SameRecord /\ act' = act
    BY <1>1, <1>4, <2>1 DEF SameRecord, BeginApproved, State
  <2>3. QED
    BY <2>1, <2>2, Stutters
<1>5. CASE Start(w)
  <2>1. row'.status = row.status
    BY <1>1, <1>5, StartFields
  <2>2. QED
    BY <1>5, <2>1, StartKeeps, Stutters DEF SameRecord, Start
<1>6. CASE Link(w)
  BY <1>1, <1>6, LinkFields, Stutters DEF SameRecord, Link
<1>7. CASE Propose(w) \/ Unlink(w)
  <2>1. row' = row /\ far' = far
    BY <1>7 DEF Propose, Unlink
  <2>2. run[w].k \in Reviews
    BY <1>7 DEF Propose, Unlink, At, SopInv, RunPoints, RunPoint
  <2>3. \/ act' = act
        \/ \E s \in {"awaiting_review", "refused"} :
              act[run[w].k] # "succeeded" /\ act' = [act EXCEPT ![run[w].k] = s]
    BY <1>1, <1>7, <2>2 DEF Propose, Unlink
  <2>4. CarriedOut(act') = CarriedOut(act)
    BY <1>1, <2>2, <2>3 DEF CarriedOut
  <2>5. QED
    BY <2>1, <2>4, Stutters DEF SameRecord
<1>8. CASE Ask(w) \/ Await(w)
  <2>1. PICK x \in State : /\ Checkpoint(w, x) /\ x.next = row.state.next /\ x.res = row.state.res
                           /\ x.answer = row.state.answer
    <3>1. run[w].k \in 0..N
      BY <1>1 DEF RunType
    <3>2. QED
      BY <1>1, <1>8, <3>1, WaitFields DEF Ask, Await
  <2>2. row'.state = x /\ row'.status = row.status
    BY <1>1, <2>1, CheckpointFields
  <2>3. row.state.next - 1 <= far /\ row.state.next - 1 \in 0..N
    BY <1>1, SopAssumption DEF SopInv, SoundRow, Sound, State
  <2>4. far' = far
    BY <1>1, <2>1, <2>3, SopAssumption DEF Checkpoint
  <2>5. QED
    BY <1>8, <2>1, <2>2, <2>4, Stutters DEF SameRecord, Ask, Await
<1>9. QED
  BY <1>2, <1>3, <1>4, <1>5, <1>6, <1>7, <1>8

(* The task ends, stops or is taken up again. *)
LEMMA ReleaseShows ==
    ASSUME SopInv, Pause \/ Resume \/ Retry \/ Cancel \/ \E w \in Workers : Commit(w) \/ Fail(w)
    PROVE  P!Stop \/ P!Reopen \/ P!Finish \/ UNCHANGED P!procedureVars
<1>1. /\ row \in RowType /\ row.state \in State /\ act \in [Reviews -> ActStatus]
      /\ row.state.next \in 1..(N + 1)
  BY TypeParts DEF SopInv, RowType, State
<1>2. CASE Pause \/ Resume \/ Retry \/ \E w \in Workers : Fail(w)
  <2>1. PICK s \in Status : row' = [row EXCEPT !.status = s, !.lease = NoWorker]
    BY <1>2 DEF Pause, Resume, Retry, Control, Requeued, Fail, Status
  <2>2. row'.status = s /\ row'.state = row.state
    BY <1>1, <2>1, ReleaseFields
  <2>3. act' = act /\ far' = far
    BY <1>2 DEF Pause, Resume, Retry, Control, Fail
  <2>4. \/ PhaseOf(row.status) = "open" /\ PhaseOf(row'.status) = "stopped"
        \/ PhaseOf(row.status) = "stopped" /\ PhaseOf(row'.status) = "open"
    <3>1. CASE Pause \/ \E w \in Workers : Fail(w)
      <4>1. row.status \in {"queued", "running", "waiting_input", "waiting_approval"}
        BY <3>1 DEF Pause, Control, Fail, Holds
      <4>2. row'.status \in {"paused", "failed"}
        BY <1>1, <3>1 DEF Pause, Control, Fail, RowType
      <4>3. QED
        BY <4>1, <4>2 DEF PhaseOf
    <3>2. CASE Resume \/ Retry
      <4>1. row.status \in {"paused", "failed"}
        BY <3>2 DEF Resume, Retry, Control
      <4>2. row'.status \in {"queued", "waiting_approval"}
        BY <1>1, <3>2 DEF Resume, Retry, Control, Requeued, RowType
      <4>3. QED
        BY <4>1, <4>2 DEF PhaseOf
    <3>3. QED
      BY <1>2, <3>1, <3>2
  <2>5. QED
    BY <2>2, <2>3, <2>4, Phases DEF SameRecord
<1>3. ASSUME NEW w \in Workers, Commit(w)
      PROVE  P!Finish \/ UNCHANGED P!procedureVars
  <2>1. run[w].result \in {"waiting_input", "waiting_approval", "succeeded"}
    BY <1>3 DEF Commit, At, SopInv, RunPoints, RunPoint
  <2>2. row'.status = run[w].result /\ row'.state = row.state
    BY <1>1, <1>3, <2>1, ReleaseFields DEF Commit, Status
  <2>3. PhaseOf(row.status) = "open" /\ act' = act /\ far' = far
    BY <1>3 DEF Commit, Holds, PhaseOf
  <2>4. CASE run[w].result = "succeeded"
    <3>1. row.state.next = N + 1
      BY <1>3, <2>4 DEF Commit, At, SopInv, Holders, Holder
    <3>2. row.state.next - 1 = N /\ PhaseOf(row'.status) = "done"
      BY <2>2, <2>4, <3>1, SopAssumption DEF PhaseOf
    <3>3. QED
      BY <2>2, <2>3, <3>2, Phases DEF SameRecord
  <2>5. CASE run[w].result # "succeeded"
    <3>1. PhaseOf(row'.status) = "open"
      BY <2>1, <2>2, <2>5 DEF PhaseOf
    <3>2. QED
      BY <2>2, <2>3, <3>1, Stutters DEF SameRecord
  <2>6. QED
    BY <2>4, <2>5
<1>4. CASE Cancel
  <2>1. SameRecord /\ row'.status = "cancelled"
    BY <1>1, <1>4, CancelFields DEF SameRecord, Cancel
  <2>2. CarriedOut(act') = CarriedOut(act)
    <3>1. \/ act' = act
          \/ /\ row.action \in Reviews /\ act[row.action] # "succeeded"
             /\ act' = [act EXCEPT ![row.action] = "refused"]
      BY <1>4 DEF Cancel, SopInv, LinkedReview
    <3>2. QED
      BY <1>1, <3>1 DEF CarriedOut
  <2>3. PhaseOf(row'.status) = "stopped" /\ PhaseOf(row.status) \in {"open", "stopped"}
    BY <1>4, <2>1 DEF Cancel, PhaseOf
  <2>4. QED
    BY <2>1, <2>2, <2>3, Stutters, Phases
<1>5. QED
  BY <1>2, <1>3, <1>4

(* Reviewers and the provider: an action is carried out, or nothing shows. *)
LEMMA ReviewShows ==
    ASSUME SopInv, NEW k \in Reviews, Approve(k) \/ Outcome(k) \/ Deny(k)
    PROVE  P!CarryOut(k) \/ UNCHANGED P!procedureVars
<1>1. act \in [Reviews -> ActStatus] /\ act[k] # "succeeded" /\ UNCHANGED <<row, far>>
  BY TypeParts DEF SopInv, Approve, Outcome, Deny
<1>2. PICK s \in ActStatus : act' = [act EXCEPT ![k] = s]
  BY DEF Approve, Outcome, Deny, ActStatus
<1>3. CASE s = "succeeded"
  <2>1. k \in Reviews \ CarriedOut(act) /\ CarriedOut(act') = CarriedOut(act) \cup {k}
    BY <1>1, <1>2, <1>3 DEF CarriedOut
  <2>2. P!CarryOut(k)
    BY <1>1, <2>1 DEF P!CarryOut, CarriedOut
  <2>3. QED
    BY <2>2
<1>4. CASE s # "succeeded"
  <2>1. CarriedOut(act') = CarriedOut(act)
    BY <1>1, <1>2, <1>4 DEF CarriedOut
  <2>2. QED
    BY <1>1, <2>1, Stutters DEF SameRecord
<1>5. QED
  BY <1>3, <1>4

(* The first state of a task is the first state of a procedure. *)
LEMMA RefinesInit == Init => P!ProcedureInit
<1> SUFFICES ASSUME Init PROVE P!ProcedureInit
  OBVIOUS
<1>1. /\ row.state.next = 1 /\ row.state.answer = None /\ row.status = "queued"
      /\ row.state.res = [k \in Steps |-> None]
  BY DEF Init, FirstState
<1>2. row.state.next - 1 = 0 /\ far = 0
  BY <1>1 DEF Init
<1>3. Shown(row.state.res) = [k \in 1..N |-> "none"]
  BY <1>1 DEF Shown, Steps
<1>4. CarriedOut(act) = {}
  BY DEF Init, CarriedOut
<1>5. QED
  BY <1>1, <1>2, <1>3, <1>4 DEF P!ProcedureInit, Shown, CarriedOut

(* Every step of the task is a step of the procedure or shows nothing. *)
LEMMA RefinesNext == SopInv /\ [Next]_vars => [P!ProcedureNext]_(P!procedureVars)
<1> SUFFICES ASSUME SopInv, [Next]_vars PROVE P!ProcedureNext \/ UNCHANGED P!procedureVars
  OBVIOUS
<1>1. ASSUME NEW w \in Workers, Claim(w) \/ Runner(w) \/ Crash(w) \/ Stall(w) \/ LeaseElapses(w)
      PROVE  P!ProcedureNext \/ UNCHANGED P!procedureVars
  <2>1. CASE SkipWhen(w) \/ ConsumeApproval(w) \/ ConsumeAnswer(w) \/ Record(w) \/ SkipThrown(w)
    BY <2>1, Advancing, AdvanceDoes DEF P!ProcedureNext
  <2>2. CASE Commit(w) \/ Fail(w)
    BY <2>2, ReleaseShows DEF P!ProcedureNext
  <2>3. QED
    BY <1>1, <2>1, <2>2, RunnerStutters DEF Runner, Execute, Loop, Step
<1>2. ASSUME NEW c \in Clients, AnswerSwap(c) \/ EscalateSwap(c)
      PROVE  P!ProcedureNext \/ UNCHANGED P!procedureVars
  <2>1. CASE row' = row
    BY <1>2, <2>1, Stutters DEF SameRecord, AnswerSwap, EscalateSwap
  <2>2. CASE row' # row
    BY <1>2, <2>2, SwapTells DEF P!ProcedureNext
  <2>3. QED
    BY <2>1, <2>2
<1>3. ASSUME NEW c \in Clients, AnswerRead(c) \/ EscalateRead(c)
      PROVE  UNCHANGED P!procedureVars
  BY <1>3, Stutters DEF SameRecord, AnswerRead, EscalateRead, Tell
<1>4. ASSUME NEW k \in Reviews, Approve(k) \/ Outcome(k) \/ Deny(k)
      PROVE  P!ProcedureNext \/ UNCHANGED P!procedureVars
  <2>1. k \in 1..N
    BY SopAssumption DEF Steps
  <2>2. QED
    BY <1>4, <2>1, ReviewShows DEF P!ProcedureNext
<1>5. CASE Pause \/ Resume \/ Retry \/ Cancel
  BY <1>5, ReleaseShows DEF P!ProcedureNext
<1>6. CASE EditSop \/ UNCHANGED vars
  BY <1>6, Stutters DEF SameRecord, EditSop, vars
<1>7. QED
  BY <1>1, <1>2, <1>3, <1>4, <1>5, <1>6 DEF Next, People

(* A SOP does what it promises whatever crashes, stalls, retries, pauses and   *)
(* overtaken runs do: its steps are recorded one after the other, a question   *)
(* with an answer that is then used up, a review once its action was carried   *)
(* out, and it succeeds with every step recorded (execute, runStep, prepare).  *)
THEOREM SopImplementsProcedure == Spec => ImplementsProcedure
<1>1. Spec => []SopInv
  BY SopInvInit, SopInvNext, PTL DEF Spec
<1>2. QED
  BY <1>1, RefinesInit, RefinesNext, PTL DEF Spec, ImplementsProcedure, P!ProcedureSpec
============================================================================
