--------------------------- MODULE ComputerProofs ---------------------------
(* The computer's lease keeps one command at a time in the container, for any *)
(* number of calls and commands, any deaths and any failures of Docker.       *)
EXTENDS Computer, TLAPS

(* A call that has no lease of its own yet. *)
Early == {"new", "acquire", "claim"}

(* Tokens are fresh: a call that has no lease is nobody's token. *)
FreshTokens == \A k \in Calls : call[k].pc \in Early =>
            lease.token # k /\ \A j \in Calls : call[j].seen.token # k

(* What a call remembers of the lease it read or took. *)
Remembers(j) ==
    /\ call[j].seen.token = lease.token => call[j].seen.command = lease.command
    /\ call[j].pc = "claim" => call[j].seen.exp # "live"
    /\ call[j].pc = "swap" =>
          call[j].seen.token = j \/ call[j].seen.command \/ call[j].seen.stopping
    /\ Inside(j) => call[j].seen.token = j

(* A call at work in the container has the lease.  A Stop may have joined it   *)
(* only if it is a command, whose executor is then not done.                   *)
AtWork(k) ==
    Inside(k) =>
       /\ lease.token = k /\ lease.exp = "live"
       /\ lease.command => ~lease.done
       /\ lease.stopping => lease.command
       /\ call[k].kind = "start" => ~lease.command
       /\ execs \subseteq {call[k].id}
       /\ call[k].pc \in {"inside", "saved", "exec"} => execs = {}

(* A stop that Docker confirmed has emptied the container, and it stays empty  *)
(* as long as the lease is quarantined.                                        *)
Stopped == box = "stopped" /\ execs = {}
Quarantine ==
    /\ lease.attempt # NoToken => lease.stopping
    /\ lease.confirmed => lease.stopping /\ Stopped
    /\ \A j \in Calls : call[j].pc = "confirm" /\ call[j].ok /\ lease.attempt = j => Stopped

(* A call that is through leaves nothing behind, or its lease is quarantined. *)
Through == {"mark", "dockerStop", "confirm", "final", "done1", "done2"}
LeavesNothing ==
    \A k \in Calls : call[k].pc \in Through /\ lease.token = k /\ ~lease.stopping => execs = {}

(* The receipt is inserted before the command begins, by one call. *)
ReceiptFirst ==
    /\ \A c \in Cmds : cmd[c] = "absent" => began[c] = 0
    /\ \A k \in Calls : call[k].pc \in {"saved", "exec"} =>
          began[call[k].id] = 0 /\ cmd[call[k].id] # "absent"

ComputerInv ==
    /\ ComputerTypeOK /\ FreshTokens
    /\ \A k \in Calls : Remembers(k) /\ AtWork(k)
    /\ FreeIsQuiet /\ Quarantine /\ LeavesNothing
    /\ ReceiptFirst /\ RunsOnce

----------------------------------------------------------------------------
(* What the forms of call' and lease' mean, field by field. *)
CallRec == [pc : CallPC, kind : Kinds, id : Cmds, seen : Lease, result : Ended, ok : BOOLEAN]

LeaseTyped == lease \in Lease
LeaseTypedNext == lease' \in Lease
CallsTyped == call \in [Calls -> CallRec]
CallsTypedNext == call' \in [Calls -> CallRec]

(* Only the record of k changes. *)
Elsewhere(k) == \A j \in Calls : j # k => call'[j] = call[j]

(* k moves to pc and keeps what it was called with and what it remembers. *)
MovesTo(k, pc) ==
    /\ Elsewhere(k) /\ call'[k].pc = pc /\ call'[k].kind = call[k].kind
    /\ call'[k].id = call[k].id /\ call'[k].seen = call[k].seen

LEMMA GotoFields ==
    ASSUME NEW k \in Calls, NEW pc \in CallPC, CallsTyped, CallGoto(k, pc)
    PROVE  CallsTypedNext /\ MovesTo(k, pc) /\ call'[k].ok = call[k].ok
  BY DEF CallsTyped, CallsTypedNext, CallGoto, MovesTo, Elsewhere, CallRec

LEMMA ResultFields ==
    ASSUME NEW k \in Calls, NEW pc \in CallPC, NEW r \in Ended, CallsTyped,
           call' = [call EXCEPT ![k].pc = pc, ![k].result = r]
    PROVE  CallsTypedNext /\ MovesTo(k, pc) /\ call'[k].ok = call[k].ok
  BY DEF CallsTyped, CallsTypedNext, MovesTo, Elsewhere, CallRec

LEMMA OkFields ==
    ASSUME NEW k \in Calls, NEW pc \in CallPC, NEW b \in BOOLEAN, CallsTyped,
           call' = [call EXCEPT ![k].pc = pc, ![k].ok = b]
    PROVE  CallsTypedNext /\ MovesTo(k, pc) /\ call'[k].ok = b
  BY DEF CallsTyped, CallsTypedNext, MovesTo, Elsewhere, CallRec

LEMMA SeenFields ==
    ASSUME NEW k \in Calls, NEW pc \in CallPC, NEW s \in Lease, CallsTyped,
           call' = [call EXCEPT ![k].seen = s, ![k].pc = pc]
    PROVE  /\ CallsTypedNext /\ Elsewhere(k) /\ call'[k].pc = pc /\ call'[k].seen = s
           /\ call'[k].kind = call[k].kind /\ call'[k].id = call[k].id
  BY DEF CallsTyped, CallsTypedNext, Elsewhere, CallRec

LEMMA BeginFields ==
    ASSUME NEW k \in Calls, NEW pc \in CallPC, NEW kind \in Kinds, NEW c \in Cmds, CallsTyped,
           call' = [call EXCEPT ![k].kind = kind, ![k].id = c, ![k].pc = pc]
    PROVE  /\ CallsTypedNext /\ Elsewhere(k) /\ call'[k].pc = pc
           /\ call'[k].seen = call[k].seen
  BY DEF CallsTyped, CallsTypedNext, Elsewhere, CallRec

LEMMA NewLeaseFields ==
    ASSUME NEW k \in Calls, NEW b \in BOOLEAN
    PROVE  /\ NewLease(k, b) \in Lease
           /\ NewLease(k, b).token = k /\ NewLease(k, b).exp = "live"
           /\ ~NewLease(k, b).stopping /\ NewLease(k, b).attempt = NoToken
           /\ ~NewLease(k, b).confirmed
           /\ NewLease(k, b).done = ~b /\ NewLease(k, b).command = b
  BY DEF NewLease, Lease

(* Whose lease it is, of which kind, and whether its executor is done. *)
SameHolder ==
    /\ lease'.token = lease.token /\ lease'.command = lease.command
    /\ lease'.done = lease.done

LEMMA QuarantineFields ==
    ASSUME NEW k \in Calls, LeaseTyped,
           lease' = [lease EXCEPT !.stopping = TRUE, !.inFlight = TRUE, !.attempt = k,
                                  !.confirmed = FALSE, !.exp = "live"]
    PROVE  /\ LeaseTypedNext /\ SameHolder /\ lease'.stopping /\ lease'.attempt = k
           /\ ~lease'.confirmed /\ lease'.exp = "live"
  BY DEF LeaseTyped, LeaseTypedNext, SameHolder, Lease

LEMMA DoneFields ==
    ASSUME LeaseTyped, lease' = [lease EXCEPT !.done = TRUE]
    PROVE  /\ LeaseTypedNext /\ lease'.token = lease.token /\ lease'.command = lease.command
           /\ lease'.stopping = lease.stopping /\ lease'.attempt = lease.attempt
           /\ lease'.confirmed = lease.confirmed /\ lease'.exp = lease.exp
  BY DEF LeaseTyped, LeaseTypedNext, Lease

LEMMA ExpFields ==
    ASSUME NEW e \in {"live", "lapsed", "zero"}, LeaseTyped, lease' = [lease EXCEPT !.exp = e]
    PROVE  /\ LeaseTypedNext /\ SameHolder /\ lease'.exp = e
           /\ lease'.stopping = lease.stopping /\ lease'.attempt = lease.attempt
           /\ lease'.confirmed = lease.confirmed
  BY DEF LeaseTyped, LeaseTypedNext, SameHolder, Lease

LEMMA ConfirmFields ==
    ASSUME NEW b \in BOOLEAN, LeaseTyped,
           lease' = [lease EXCEPT !.inFlight = FALSE, !.confirmed = b]
    PROVE  /\ LeaseTypedNext /\ SameHolder /\ lease'.exp = lease.exp /\ lease'.confirmed = b
           /\ lease'.stopping = lease.stopping /\ lease'.attempt = lease.attempt
  BY DEF LeaseTyped, LeaseTypedNext, SameHolder, Lease

LEMMA TypeParts ==
    ComputerTypeOK <=>
       /\ CallsTyped /\ LeaseTyped
       /\ box \in {"stopped", "running"} /\ execs \subseteq Cmds
       /\ cmd \in [Cmds -> {"absent", "running"} \cup Ended] /\ began \in [Cmds -> Nat]
       /\ boxSpent \in [deaths : 0..MaxDeaths, errors : 0..MaxDockerErrors]
  BY DEF ComputerTypeOK, CallsTyped, LeaseTyped, CallRec

LEMMA TypePartsNext ==
    ComputerTypeOK' <=>
       /\ CallsTypedNext /\ LeaseTypedNext
       /\ box' \in {"stopped", "running"} /\ execs' \subseteq Cmds
       /\ cmd' \in [Cmds -> {"absent", "running"} \cup Ended] /\ began' \in [Cmds -> Nat]
       /\ boxSpent' \in [deaths : 0..MaxDeaths, errors : 0..MaxDockerErrors]
  BY DEF ComputerTypeOK, CallsTypedNext, LeaseTypedNext, CallRec

----------------------------------------------------------------------------
(* The invariant in two halves: the lease and the container, and the receipts. *)
LeaseHalf ==
    /\ FreshTokens /\ (\A k \in Calls : Remembers(k) /\ AtWork(k))
    /\ FreeIsQuiet /\ Quarantine /\ LeavesNothing
ReceiptHalf == ReceiptFirst /\ RunsOnce

(* The call at work has the lease, so there is one. *)
LEMMA HolderIsOne ==
    ASSUME LeaseHalf, NEW j \in Calls, NEW k \in Calls, Inside(k), j # k
    PROVE  ~Inside(j) /\ lease.token = k
  BY DEF LeaseHalf, AtWork

(* A call that moves on under the same lease, at most emptying the container. *)
LEMMA QuietCall ==
    ASSUME LeaseHalf, CallsTyped, LeaseTyped, NEW k \in Calls, NEW pc \in CallPC,
           MovesTo(k, pc), lease' = lease, execs' \subseteq execs,
           pc \notin Early \cup {"swap"}, Inside(k)' => Inside(k),
           pc \in {"inside", "saved", "exec"} => call[k].pc \in {"inside", "saved", "exec"},
           lease.stopping /\ Stopped => Stopped',
           pc = "confirm" /\ call'[k].ok => Stopped',
           pc \in Through /\ lease.token = k /\ ~lease.stopping => execs' = {}
    PROVE  LeaseHalf'
<1>0. NoToken \notin Calls
  BY ComputerAssumption
<1>1. FreshTokens'
  BY DEF LeaseHalf, FreshTokens, MovesTo, Elsewhere
<1>2. ASSUME NEW j \in Calls PROVE Remembers(j)' /\ AtWork(j)'
  <2>1. CASE j = k
    BY <2>1 DEF LeaseHalf, Remembers, AtWork, MovesTo, Early, Inside
  <2>2. CASE j # k
    BY <2>2 DEF LeaseHalf, Remembers, AtWork, MovesTo, Elsewhere, Inside
  <2>3. QED BY <2>1, <2>2
<1>3. FreeIsQuiet'
  BY DEF LeaseHalf, FreeIsQuiet
<1>4. Quarantine'
  BY <1>0 DEF LeaseHalf, Quarantine, MovesTo, Elsewhere
<1>5. LeavesNothing'
  BY DEF LeaseHalf, LeavesNothing, MovesTo, Elsewhere
<1>6. QED
  BY <1>1, <1>2, <1>3, <1>4, <1>5 DEF LeaseHalf

(* The tokens and the memories of the calls outlast any change of a lease that *)
(* stays with its holder. *)
LEMMA MemoryStep ==
    ASSUME LeaseHalf, NEW k \in Calls, NEW pc \in CallPC, MovesTo(k, pc),
           lease'.token = lease.token, lease'.command = lease.command,
           pc \notin Early \cup {"swap"}, Inside(k)' => Inside(k)
    PROVE  FreshTokens' /\ \A j \in Calls : Remembers(j)'
<1>1. FreshTokens'
  BY DEF LeaseHalf, FreshTokens, MovesTo, Elsewhere
<1>2. ASSUME NEW j \in Calls PROVE Remembers(j)'
  <2>1. CASE j = k
    BY <2>1 DEF LeaseHalf, Remembers, MovesTo, Early, Inside
  <2>2. CASE j # k
    BY <2>2 DEF LeaseHalf, Remembers, MovesTo, Elsewhere, Inside
  <2>3. QED BY <2>1, <2>2
<1>3. QED BY <1>1, <1>2

(* A Stop, or the cleanup of a command, quarantines the lease. *)
LEMMA QuarantineStep ==
    ASSUME LeaseHalf, LeaseTyped, NEW k \in Calls, NEW pc \in {"mark", "dockerStop"},
           MovesTo(k, pc), UNCHANGED <<box, execs>>,
           lease' = [lease EXCEPT !.stopping = TRUE, !.inFlight = TRUE, !.attempt = k,
                                  !.confirmed = FALSE, !.exp = "live"],
           \A j \in Calls : j # k /\ Inside(j) => lease.command
    PROVE  LeaseHalf'
<1>0. /\ SameHolder /\ lease'.stopping /\ lease'.attempt = k
      /\ ~lease'.confirmed /\ lease'.exp = "live"
  BY QuarantineFields
<1>a. ~Inside(k)' /\ pc \in CallPC /\ pc \notin Early \cup {"swap"}
  BY DEF Inside, MovesTo, CallPC, Early
<1>1. FreshTokens' /\ \A j \in Calls : Remembers(j)'
  BY <1>0, <1>a, MemoryStep DEF SameHolder
<1>2. ASSUME NEW j \in Calls, Inside(j)' PROVE AtWork(j)'
  <2>1. j # k /\ call'[j] = call[j] /\ Inside(j)
    BY <1>2, <1>a DEF MovesTo, Elsewhere, Inside
  <2>2. QED
    BY <2>1, <1>0 DEF LeaseHalf, AtWork, SameHolder
<1>3. FreeIsQuiet'
  BY <1>0 DEF FreeIsQuiet
<1>4. Quarantine'
  BY <1>0 DEF Quarantine, MovesTo
<1>5. LeavesNothing'
  BY <1>0 DEF LeavesNothing
<1>6. \A j \in Calls : AtWork(j)'
  BY <1>2 DEF AtWork
<1>7. QED
  BY <1>1, <1>3, <1>4, <1>5, <1>6 DEF LeaseHalf

(* A lease may come free when nothing is alive in the container and no call is *)
(* at work there. *)
LEMMA FreeStep ==
    ASSUME LeaseHalf, LeaseTyped, NEW k \in Calls, NEW pc \in {"release", "over"},
           MovesTo(k, pc), UNCHANGED <<box, execs>>, lease' = [lease EXCEPT !.exp = "zero"],
           execs = {}, \A j \in Calls : j # k => ~Inside(j)
    PROVE  LeaseHalf'
<1>0. /\ SameHolder /\ lease'.stopping = lease.stopping /\ lease'.attempt = lease.attempt
      /\ lease'.confirmed = lease.confirmed
  BY ExpFields
<1>a. ~Inside(k)' /\ pc \in CallPC /\ pc \notin Early \cup {"swap"}
  BY DEF Inside, MovesTo, CallPC, Early
<1>1. FreshTokens' /\ \A j \in Calls : Remembers(j)'
  BY <1>0, <1>a, MemoryStep DEF SameHolder
<1>2. \A j \in Calls : ~Inside(j)'
  BY <1>a DEF MovesTo, Elsewhere, Inside
<1>3. FreeIsQuiet'
  BY DEF FreeIsQuiet
<1>4. Quarantine'
  BY <1>0 DEF LeaseHalf, Quarantine, MovesTo, Elsewhere, Stopped
<1>5. LeavesNothing'
  BY DEF LeavesNothing
<1>6. QED
  BY <1>1, <1>2, <1>3, <1>4, <1>5 DEF LeaseHalf, AtWork

(* The receipts, when nothing is started. *)
LEMMA ReceiptStep ==
    ASSUME ReceiptHalf, CallsTyped, NEW k \in Calls, NEW pc, MovesTo(k, pc), began' = began,
           \A c \in Cmds : cmd'[c] = "absent" => cmd[c] = "absent",
           pc \in {"saved", "exec"} => began[call[k].id] = 0 /\ cmd'[call[k].id] # "absent"
    PROVE  ReceiptHalf'
<1>1. \A j \in Calls : call[j].id \in Cmds
  BY DEF CallsTyped, CallRec
<1>2. QED
  BY <1>1 DEF ReceiptHalf, ReceiptFirst, RunsOnce, MovesTo, Elsewhere

LEMMA Halves == ComputerInv <=> ComputerTypeOK /\ LeaseHalf /\ ReceiptHalf
  BY DEF ComputerInv, LeaseHalf, ReceiptHalf

LEMMA HalvesNext == ComputerInv' <=> ComputerTypeOK' /\ LeaseHalf' /\ ReceiptHalf'
  BY DEF ComputerInv, LeaseHalf, ReceiptHalf

(* A Docker command that fails is counted. *)
LEMMA FailsTyped ==
    ASSUME ComputerTypeOK, DockerFails
    PROVE  boxSpent' \in [deaths : 0..MaxDeaths, errors : 0..MaxDockerErrors]
  BY ComputerAssumption DEF ComputerTypeOK, DockerFails

----------------------------------------------------------------------------
(* start(), the file operations, and a process that dies. *)
LEMMA InsideSteps ==
    ASSUME ComputerInv, NEW k \in Calls, StartBox(k) \/ StartFails(k) \/ UseFile(k)
    PROVE  ComputerInv'
<1>0. ComputerTypeOK /\ LeaseHalf /\ ReceiptHalf /\ CallsTyped /\ LeaseTyped
  BY Halves, TypeParts
<1>1. /\ CallGoto(k, "done2") /\ call[k].pc = "inside" /\ call[k].kind \in {"start", "file"}
      /\ box' = box \/ (box' = "running" /\ call[k].kind = "start")
      /\ UNCHANGED <<execs, lease, cmd, began>> /\ (boxSpent' = boxSpent \/ DockerFails)
  BY DEF StartBox, StartFails, UseFile, InCall
<1>2. CallsTypedNext /\ MovesTo(k, "done2") /\ call'[k].ok = call[k].ok
  BY <1>0, <1>1, GotoFields DEF CallPC
<1>3. ComputerTypeOK'
  BY <1>0, <1>1, <1>2, TypeParts, TypePartsNext, FailsTyped DEF LeaseTyped, LeaseTypedNext
<1>4. execs = {} /\ (lease.stopping /\ Stopped => Stopped')
  BY <1>0, <1>1 DEF LeaseHalf, AtWork, Inside, Stopped
<1>5. LeaseHalf'
  BY <1>0, <1>1, <1>2, <1>4, QuietCall DEF MovesTo, Inside, Early, CallPC
<1>6. ReceiptHalf'
  BY <1>0, <1>1, <1>2, ReceiptStep
<1>7. QED
  BY <1>3, <1>5, <1>6, HalvesNext

LEMMA DiesStep ==
    ASSUME ComputerInv, NEW k \in Calls, Dies(k)
    PROVE  ComputerInv'
<1>0. ComputerTypeOK /\ LeaseHalf /\ ReceiptHalf /\ CallsTyped /\ LeaseTyped
  BY Halves, TypeParts
<1>1. CallGoto(k, "over") /\ UNCHANGED <<box, execs, lease, cmd, began>>
  BY DEF Dies
<1>2. CallsTypedNext /\ MovesTo(k, "over")
  BY <1>0, <1>1, GotoFields DEF CallPC
<1>3. boxSpent' \in [deaths : 0..MaxDeaths, errors : 0..MaxDockerErrors]
  BY <1>0, ComputerAssumption DEF Dies, ComputerTypeOK
<1>4. ComputerTypeOK'
  BY <1>0, <1>1, <1>2, <1>3, TypeParts, TypePartsNext DEF LeaseTyped, LeaseTypedNext
<1>5. LeaseHalf'
  BY <1>0, <1>1, <1>2, QuietCall DEF MovesTo, Inside, Early, CallPC, Stopped, Through
<1>6. ReceiptHalf'
  BY <1>0, <1>1, <1>2, ReceiptStep
<1>7. QED
  BY <1>4, <1>5, <1>6, HalvesNext

----------------------------------------------------------------------------
(* execute() *)
LEMMA SaveReceiptStep ==
    ASSUME ComputerInv, NEW k \in Calls, SaveReceipt(k)
    PROVE  ComputerInv'
<1>0. ComputerTypeOK /\ LeaseHalf /\ ReceiptHalf /\ CallsTyped /\ LeaseTyped
  BY Halves, TypeParts
<1> DEFINE c == call[k].id
           fresh == box = "running" /\ cmd[c] = "absent"
           pc == IF fresh THEN "saved" ELSE "done1"
<1>1. /\ CallGoto(k, pc) /\ call[k].pc = "inside" /\ UNCHANGED <<box, execs, lease, began, boxSpent>>
      /\ cmd' = IF fresh THEN [cmd EXCEPT ![c] = "running"] ELSE cmd
  BY DEF SaveReceipt, InCall
<1>2. c \in Cmds /\ cmd \in [Cmds -> {"absent", "running"} \cup Ended]
  BY <1>0 DEF CallsTyped, CallRec, ComputerTypeOK
<1>3. /\ cmd' \in [Cmds -> {"absent", "running"} \cup Ended]
      /\ \A d \in Cmds : cmd'[d] = "absent" => cmd[d] = "absent"
      /\ fresh => cmd'[c] # "absent"
  BY <1>1, <1>2
<1>4. fresh => began[c] = 0
  BY <1>0, <1>2 DEF ReceiptHalf, ReceiptFirst
<1>a. pc \in {"saved", "done1"} /\ (pc = "saved" => fresh)
  OBVIOUS
<1> HIDE DEF pc, fresh
<1>5. CallsTypedNext /\ MovesTo(k, pc)
  BY <1>0, <1>1, <1>a, GotoFields DEF CallPC
<1>6. ComputerTypeOK'
  BY <1>0, <1>1, <1>3, <1>5, TypeParts, TypePartsNext DEF LeaseTyped, LeaseTypedNext
<1>7. execs = {}
  BY <1>0, <1>1 DEF LeaseHalf, AtWork, Inside
<1>8. LeaseHalf'
  <2>1. pc \in CallPC /\ pc \notin Early \cup {"swap"} /\ pc # "confirm" /\ Inside(k)
    BY <1>1, <1>a DEF CallPC, Early, Inside
  <2>2. QED
    BY <2>1, <1>0, <1>1, <1>5, <1>7, QuietCall DEF Stopped
<1>9. ReceiptHalf'
  BY <1>0, <1>1, <1>3, <1>4, <1>5, <1>a, ReceiptStep
<1>10. QED
  BY <1>6, <1>8, <1>9, HalvesNext

LEMMA CheckLeaseStep ==
    ASSUME ComputerInv, NEW k \in Calls, CheckLease(k)
    PROVE  ComputerInv'
<1>0. ComputerTypeOK /\ LeaseHalf /\ ReceiptHalf /\ CallsTyped /\ LeaseTyped
  BY Halves, TypeParts
<1>1. PICK pc \in {"exec", "done1"} :
         /\ CallGoto(k, pc) /\ call[k].pc = "saved" /\ UNCHANGED <<box, execs, lease, began, boxSpent>>
         /\ cmd' = cmd \/ cmd' = [cmd EXCEPT ![call[k].id] = "interrupted"]
  BY DEF CheckLease, InCall
<1>2. call[k].id \in Cmds /\ cmd \in [Cmds -> {"absent", "running"} \cup Ended]
  BY <1>0 DEF CallsTyped, CallRec, ComputerTypeOK
<1>3. /\ cmd' \in [Cmds -> {"absent", "running"} \cup Ended]
      /\ \A d \in Cmds : cmd'[d] = "absent" => cmd[d] = "absent"
  BY <1>1, <1>2 DEF Ended
<1>4. CallsTypedNext /\ MovesTo(k, pc)
  BY <1>0, <1>1, GotoFields DEF CallPC
<1>5. ComputerTypeOK'
  BY <1>0, <1>1, <1>3, <1>4, TypeParts, TypePartsNext DEF LeaseTyped, LeaseTypedNext
<1>6. execs = {}
  BY <1>0, <1>1 DEF LeaseHalf, AtWork, Inside
<1>7. LeaseHalf'
  <2>1. pc \in CallPC /\ pc \notin Early \cup {"swap"} /\ pc # "confirm" /\ Inside(k)
    BY <1>1 DEF CallPC, Early, Inside
  <2>2. QED
    BY <2>1, <1>0, <1>1, <1>4, <1>6, QuietCall DEF Stopped
<1>8. ReceiptHalf'
  <2>1. began[call[k].id] = 0 /\ cmd'[call[k].id] # "absent"
    BY <1>0, <1>1, <1>2, <1>3 DEF ReceiptHalf, ReceiptFirst
  <2>2. QED
    BY <2>1, <1>0, <1>1, <1>3, <1>4, ReceiptStep
<1>9. QED
  BY <1>5, <1>7, <1>8, HalvesNext

(* docker exec starts the command of the one call that is at work. *)
LEMMA ExecStep ==
    ASSUME ComputerInv, NEW k \in Calls, Exec(k)
    PROVE  ComputerInv'
<1>0. ComputerTypeOK /\ LeaseHalf /\ ReceiptHalf /\ CallsTyped /\ LeaseTyped
  BY Halves, TypeParts
<1>a. call[k].pc = "exec" /\ UNCHANGED <<box, lease, cmd, boxSpent>> /\ call[k].id \in Cmds
  BY <1>0 DEF Exec, InCall, CallsTyped, CallRec
<1>b. /\ Inside(k) /\ execs = {} /\ lease.token = k /\ lease.exp = "live"
      /\ \A j \in Calls : j # k => ~Inside(j)
  BY <1>0, <1>a DEF LeaseHalf, AtWork, Inside
<1>c. began[call[k].id] = 0 /\ cmd[call[k].id] # "absent"
  BY <1>0, <1>a DEF ReceiptHalf, ReceiptFirst
<1>1. CASE box = "running"
  <2>1. /\ execs' = {call[k].id} /\ began' = [began EXCEPT ![call[k].id] = @ + 1]
        /\ CallGoto(k, "wait")
    BY <1>1, <1>b DEF Exec
  <2>2. CallsTypedNext /\ MovesTo(k, "wait")
    BY <2>1, <1>0, GotoFields DEF CallPC
  <2>3. /\ began' \in [Cmds -> Nat] /\ began'[call[k].id] = 1
        /\ \A c \in Cmds : c # call[k].id => began'[c] = began[c]
    BY <2>1, <1>0, <1>a, <1>c DEF ComputerTypeOK
  <2>4. ComputerTypeOK'
    BY <2>1, <2>2, <2>3, <1>0, <1>a, TypeParts, TypePartsNext DEF LeaseTyped, LeaseTypedNext
  <2>5. FreshTokens' /\ \A j \in Calls : Remembers(j)'
    BY <2>2, <1>0, <1>a, <1>b, MemoryStep DEF Early, CallPC
  <2>6. ASSUME NEW j \in Calls, Inside(j)' PROVE AtWork(j)'
    <3>1. j = k
      BY <2>2, <2>6, <1>b DEF MovesTo, Elsewhere, Inside
    <3>2. QED
      BY <3>1, <2>1, <2>2, <1>0, <1>a, <1>b DEF LeaseHalf, AtWork, MovesTo
  <2>7. FreeIsQuiet'
    BY <1>a, <1>b DEF FreeIsQuiet
  <2>8. Quarantine'
    BY <2>2, <1>0, <1>1, <1>a DEF LeaseHalf, Quarantine, Stopped, MovesTo, Elsewhere
  <2>9. LeavesNothing'
    BY <2>2, <1>a, <1>b DEF LeavesNothing, MovesTo, Through
  <2>10. LeaseHalf'
    BY <2>5, <2>6, <2>7, <2>8, <2>9 DEF LeaseHalf, AtWork
  <2>11. ReceiptFirst'
    BY <2>2, <2>3, <1>0, <1>a, <1>b, <1>c
       DEF ReceiptHalf, ReceiptFirst, MovesTo, Elsewhere, Inside, CallsTyped, CallRec
  <2>12. RunsOnce'
    BY <2>3, <1>0 DEF ReceiptHalf, RunsOnce
  <2>13. QED
    BY <2>4, <2>10, <2>11, <2>12, HalvesNext DEF ReceiptHalf
<1>2. CASE box # "running"
  <2>1. UNCHANGED <<execs, began>> /\ call' = [call EXCEPT ![k].pc = "final", ![k].result = "failed"]
    BY <1>2 DEF Exec
  <2>2. CallsTypedNext /\ MovesTo(k, "final")
    BY <2>1, <1>0, ResultFields DEF CallPC, Ended
  <2>3. ComputerTypeOK'
    BY <2>1, <2>2, <1>0, <1>a, TypeParts, TypePartsNext DEF LeaseTyped, LeaseTypedNext
  <2>4. LeaseHalf'
    BY <2>1, <2>2, <1>0, <1>a, <1>b, QuietCall DEF Stopped, MovesTo, Inside, Early, CallPC
  <2>5. ReceiptHalf'
    BY <2>1, <2>2, <1>0, <1>a, ReceiptStep
  <2>6. QED
    BY <2>3, <2>4, <2>5, HalvesNext
<1>3. QED BY <1>1, <1>2

(* The command ends, or its Docker client gives it up. *)
LEMMA ExecEnds ==
    ASSUME ComputerInv, NEW k \in Calls, ExecExits(k) \/ ExecLost(k)
    PROVE  ComputerInv'
<1>0. ComputerTypeOK /\ LeaseHalf /\ ReceiptHalf /\ CallsTyped /\ LeaseTyped
  BY Halves, TypeParts
<1>1. PICK pc \in {"final", "cleanup"}, r \in Ended :
         /\ call[k].pc = "wait" /\ call' = [call EXCEPT ![k].pc = pc, ![k].result = r]
         /\ pc = "final" => execs' = execs \ {call[k].id}
         /\ execs' \subseteq execs /\ UNCHANGED <<box, lease, cmd, began>>
         /\ boxSpent' = boxSpent \/ DockerFails
  BY DEF ExecExits, ExecLost, InCall, Ended
<1>2. CallsTypedNext /\ MovesTo(k, pc)
  BY <1>0, <1>1, ResultFields DEF CallPC
<1>3. ComputerTypeOK'
  BY <1>0, <1>1, <1>2, TypeParts, TypePartsNext, FailsTyped DEF LeaseTyped, LeaseTypedNext
<1>4. execs \subseteq {call[k].id}
  BY <1>0, <1>1 DEF LeaseHalf, AtWork, Inside
<1>5. LeaseHalf'
  <2>1. pc \in CallPC /\ pc \notin Early \cup {"swap"} /\ pc # "confirm" /\ Inside(k)
    BY <1>1 DEF CallPC, Early, Inside
  <2>2. pc \in Through => execs' = {}
    BY <1>1, <1>4 DEF Through
  <2>3. Stopped => Stopped'
    BY <1>1 DEF Stopped
  <2>4. QED
    BY <2>1, <2>2, <2>3, <1>0, <1>1, <1>2, QuietCall
<1>6. ReceiptHalf'
  BY <1>0, <1>1, <1>2, ReceiptStep
<1>7. QED
  BY <1>3, <1>5, <1>6, HalvesNext

LEMMA CleanupStep ==
    ASSUME ComputerInv, NEW k \in Calls, Cleanup(k)
    PROVE  ComputerInv'
<1>0. ComputerTypeOK /\ LeaseHalf /\ ReceiptHalf /\ CallsTyped /\ LeaseTyped
  BY Halves, TypeParts
<1>a. call[k].pc = "cleanup" /\ UNCHANGED <<box, execs, cmd, began, boxSpent>>
  BY DEF Cleanup, InCall
<1>b. lease.token = k /\ \A j \in Calls : j # k => ~Inside(j)
  BY <1>0, <1>a DEF LeaseHalf, AtWork, Inside
<1>1. CASE ~lease.stopping
  <2>1. /\ CallGoto(k, "dockerStop")
        /\ lease' = [lease EXCEPT !.stopping = TRUE, !.inFlight = TRUE, !.attempt = k,
                                  !.confirmed = FALSE, !.exp = "live"]
    BY <1>1, <1>b DEF Cleanup
  <2>2. CallsTypedNext /\ MovesTo(k, "dockerStop") /\ LeaseTypedNext
    BY <2>1, <1>0, GotoFields, QuarantineFields DEF CallPC
  <2>3. ComputerTypeOK'
    BY <2>2, <1>0, <1>a, TypeParts, TypePartsNext
  <2>4. LeaseHalf'
    BY <2>1, <2>2, <1>0, <1>a, <1>b, QuarantineStep
  <2>5. ReceiptHalf'
    BY <2>2, <1>0, <1>a, ReceiptStep
  <2>6. QED
    BY <2>3, <2>4, <2>5, HalvesNext
<1>2. CASE lease.stopping
  <2>1. CallGoto(k, "final") /\ lease' = lease
    BY <1>2, <1>b DEF Cleanup
  <2>2. CallsTypedNext /\ MovesTo(k, "final")
    BY <2>1, <1>0, GotoFields DEF CallPC
  <2>3. ComputerTypeOK'
    BY <2>1, <2>2, <1>0, <1>a, TypeParts, TypePartsNext DEF LeaseTyped, LeaseTypedNext
  <2>4. LeaseHalf'
    BY <2>1, <2>2, <1>0, <1>2, <1>a, QuietCall DEF Stopped, MovesTo, Inside, Early, CallPC
  <2>5. ReceiptHalf'
    BY <2>2, <1>0, <1>a, ReceiptStep
  <2>6. QED
    BY <2>3, <2>4, <2>5, HalvesNext
<1>3. QED BY <1>1, <1>2

LEMMA FinishStep ==
    ASSUME ComputerInv, NEW k \in Calls, Finish(k)
    PROVE  ComputerInv'
<1>0. ComputerTypeOK /\ LeaseHalf /\ ReceiptHalf /\ CallsTyped /\ LeaseTyped
  BY Halves, TypeParts
<1>1. /\ CallGoto(k, "done1") /\ call[k].pc = "final"
      /\ UNCHANGED <<box, execs, lease, began, boxSpent>>
      /\ cmd' = [cmd EXCEPT ![call[k].id] = IF @ = "running" THEN call[k].result
                                            ELSE "interrupted"]
  BY DEF Finish, InCall
<1>2. /\ call[k].id \in Cmds /\ call[k].result \in Ended
      /\ cmd \in [Cmds -> {"absent", "running"} \cup Ended]
  BY <1>0 DEF CallsTyped, CallRec, ComputerTypeOK
<1>3. /\ cmd' \in [Cmds -> {"absent", "running"} \cup Ended]
      /\ \A d \in Cmds : cmd'[d] = "absent" => cmd[d] = "absent"
  BY <1>1, <1>2 DEF Ended
<1>4. CallsTypedNext /\ MovesTo(k, "done1")
  BY <1>0, <1>1, GotoFields DEF CallPC
<1>5. ComputerTypeOK'
  BY <1>0, <1>1, <1>3, <1>4, TypeParts, TypePartsNext DEF LeaseTyped, LeaseTypedNext
<1>6. lease.token = k /\ ~lease.stopping => execs = {}
  BY <1>0, <1>1 DEF LeaseHalf, LeavesNothing, Through
<1>7. LeaseHalf'
  BY <1>0, <1>1, <1>4, <1>6, QuietCall DEF Stopped, MovesTo, Inside, Early, CallPC
<1>8. ReceiptHalf'
  BY <1>0, <1>1, <1>3, <1>4, ReceiptStep
<1>9. QED
  BY <1>5, <1>7, <1>8, HalvesNext

----------------------------------------------------------------------------
(* exclusive()'s finally *)
LEMMA ExecutorDoneStep ==
    ASSUME ComputerInv, NEW k \in Calls, ExecutorDone(k)
    PROVE  ComputerInv'
<1>0. ComputerTypeOK /\ LeaseHalf /\ ReceiptHalf /\ CallsTyped /\ LeaseTyped
  BY Halves, TypeParts
<1>1. /\ CallGoto(k, "done2") /\ call[k].pc = "done1"
      /\ UNCHANGED <<box, execs, cmd, began, boxSpent>>
      /\ lease' = IF lease.token = k THEN [lease EXCEPT !.done = TRUE] ELSE lease
  BY DEF ExecutorDone, InCall
<1>2. CallsTypedNext /\ MovesTo(k, "done2")
  BY <1>0, <1>1, GotoFields DEF CallPC
<1>3. /\ LeaseTypedNext /\ lease'.token = lease.token /\ lease'.command = lease.command
      /\ lease'.stopping = lease.stopping /\ lease'.attempt = lease.attempt
      /\ lease'.confirmed = lease.confirmed /\ lease'.exp = lease.exp
      /\ lease.token = k \/ lease' = lease
  BY <1>0, <1>1, DoneFields DEF LeaseTyped, LeaseTypedNext
<1>4. ComputerTypeOK'
  BY <1>0, <1>1, <1>2, <1>3, TypeParts, TypePartsNext
<1>5. ~Inside(k) /\ ~Inside(k)'
  BY <1>1, <1>2 DEF Inside, MovesTo
<1>6. FreshTokens' /\ \A j \in Calls : Remembers(j)'
  BY <1>0, <1>2, <1>3, <1>5, MemoryStep DEF Early, CallPC
<1>7. ASSUME NEW j \in Calls, Inside(j)' PROVE AtWork(j)'
  <2>1. j # k /\ call'[j] = call[j] /\ Inside(j)
    BY <1>2, <1>5, <1>7 DEF MovesTo, Elsewhere, Inside
  <2>2. AtWork(j) /\ lease' = lease
    BY <2>1, <1>0, <1>3 DEF LeaseHalf, AtWork
  <2>3. QED
    BY <2>1, <2>2, <1>1 DEF AtWork
<1>8. FreeIsQuiet'
  BY <1>0, <1>1, <1>3 DEF LeaseHalf, FreeIsQuiet
<1>9. Quarantine'
  BY <1>0, <1>1, <1>2, <1>3 DEF LeaseHalf, Quarantine, Stopped, MovesTo, Elsewhere
<1>10. LeavesNothing'
  BY <1>0, <1>1, <1>2, <1>3 DEF LeaseHalf, LeavesNothing, Through, MovesTo, Elsewhere
<1>11. LeaseHalf'
  BY <1>6, <1>7, <1>8, <1>9, <1>10 DEF LeaseHalf, AtWork
<1>12. ReceiptHalf'
  BY <1>0, <1>1, <1>2, ReceiptStep
<1>13. QED
  BY <1>4, <1>11, <1>12, HalvesNext

(* A lease is let go only over an empty container with nobody at work: by the *)
(* call that has it and is through, or once a stop is confirmed and the       *)
(* executor is done. *)
LEMMA ReleaseSteps ==
    ASSUME ComputerInv, NEW k \in Calls, Release(k) \/ ReleaseStopped(k)
    PROVE  ComputerInv'
<1>0. ComputerTypeOK /\ LeaseHalf /\ ReceiptHalf /\ CallsTyped /\ LeaseTyped
  BY Halves, TypeParts
<1>1. PICK pc \in {"release", "over"} :
         /\ CallGoto(k, pc) /\ call[k].pc \in {"done2", "release"}
         /\ UNCHANGED <<box, execs, cmd, began, boxSpent>>
         /\ \/ lease' = lease
            \/ /\ lease' = [lease EXCEPT !.exp = "zero"]
               /\ \/ call[k].pc = "done2" /\ lease.token = k /\ ~lease.stopping
                  \/ lease.confirmed /\ lease.done /\ lease.stopping
  BY DEF Release, ReleaseStopped, InCall
<1>2. CallsTypedNext /\ MovesTo(k, pc) /\ call'[k].ok = call[k].ok
  BY <1>0, <1>1, GotoFields DEF CallPC
<1>3. LeaseTypedNext
  BY <1>0, <1>1, ExpFields DEF LeaseTyped, LeaseTypedNext
<1>4. ComputerTypeOK'
  BY <1>0, <1>1, <1>2, <1>3, TypeParts, TypePartsNext
<1>5. ASSUME lease' = lease PROVE LeaseHalf'
  BY <1>0, <1>1, <1>2, <1>5, QuietCall DEF Stopped, MovesTo, Inside, Early, CallPC, Through
<1>6. ASSUME lease' = [lease EXCEPT !.exp = "zero"],
             call[k].pc = "done2", lease.token = k, ~lease.stopping
      PROVE  LeaseHalf'
  <2>1. execs = {}
    BY <1>0, <1>6 DEF LeaseHalf, LeavesNothing, Through
  <2>2. \A j \in Calls : j # k => ~Inside(j)
    BY <1>0, <1>6 DEF LeaseHalf, AtWork
  <2>3. QED
    BY <2>1, <2>2, <1>0, <1>1, <1>2, <1>6, FreeStep
<1>7. ASSUME lease' = [lease EXCEPT !.exp = "zero"],
             lease.confirmed, lease.done, lease.stopping
      PROVE  LeaseHalf'
  <2>1. execs = {}
    BY <1>0, <1>7 DEF LeaseHalf, Quarantine, Stopped
  <2>2. \A j \in Calls : ~Inside(j)
    BY <1>0, <1>7 DEF LeaseHalf, AtWork
  <2>3. QED
    BY <2>1, <2>2, <1>0, <1>1, <1>2, <1>7, FreeStep
<1>8. ReceiptHalf'
  BY <1>0, <1>1, <1>2, ReceiptStep
<1>9. QED
  BY <1>1, <1>4, <1>5, <1>6, <1>7, <1>8, HalvesNext

----------------------------------------------------------------------------
(* stop() *)
LEMMA StopSwapStep ==
    ASSUME ComputerInv, NEW k \in Calls, StopSwap(k)
    PROVE  ComputerInv'
<1>0. ComputerTypeOK /\ LeaseHalf /\ ReceiptHalf /\ CallsTyped /\ LeaseTyped
  BY Halves, TypeParts
<1>a. call[k].pc = "swap" /\ UNCHANGED <<box, execs, cmd, began, boxSpent>>
  BY DEF StopSwap, InCall
<1>1. CASE /\ lease.token = call[k].seen.token /\ lease.stopping = call[k].seen.stopping
           /\ lease.attempt = call[k].seen.attempt
  <2>1. /\ CallGoto(k, "mark")
        /\ lease' = [lease EXCEPT !.stopping = TRUE, !.inFlight = TRUE, !.attempt = k,
                                  !.confirmed = FALSE, !.exp = "live"]
    BY <1>1 DEF StopSwap
  <2>2. CallsTypedNext /\ MovesTo(k, "mark") /\ LeaseTypedNext
    BY <2>1, <1>0, GotoFields, QuarantineFields DEF CallPC
  <2>3. ComputerTypeOK'
    BY <2>2, <1>0, <1>a, TypeParts, TypePartsNext
  <2>4. ASSUME NEW j \in Calls, j # k, Inside(j) PROVE lease.command
    <3>1. lease.token = j /\ (lease.stopping => lease.command)
      BY <2>4, <1>0 DEF LeaseHalf, AtWork
    <3>2. call[k].seen.command \/ call[k].seen.stopping
      BY <3>1, <2>4, <1>0, <1>1, <1>a DEF LeaseHalf, Remembers
    <3>3. QED
      BY <3>1, <3>2, <1>0, <1>1 DEF LeaseHalf, Remembers
  <2>5. LeaseHalf'
    BY <2>1, <2>2, <2>4, <1>0, <1>a, QuarantineStep
  <2>6. ReceiptHalf'
    BY <2>2, <1>0, <1>a, ReceiptStep
  <2>7. QED
    BY <2>3, <2>5, <2>6, HalvesNext
<1>2. CASE ~ /\ lease.token = call[k].seen.token /\ lease.stopping = call[k].seen.stopping
             /\ lease.attempt = call[k].seen.attempt
  <2>1. CallGoto(k, "over") /\ lease' = lease
    BY <1>2 DEF StopSwap
  <2>2. CallsTypedNext /\ MovesTo(k, "over")
    BY <2>1, <1>0, GotoFields DEF CallPC
  <2>3. ComputerTypeOK'
    BY <2>1, <2>2, <1>0, <1>a, TypeParts, TypePartsNext DEF LeaseTyped, LeaseTypedNext
  <2>4. LeaseHalf'
    BY <2>1, <2>2, <1>0, <1>a, QuietCall DEF Stopped, MovesTo, Inside, Early, CallPC, Through
  <2>5. ReceiptHalf'
    BY <2>2, <1>0, <1>a, ReceiptStep
  <2>6. QED
    BY <2>3, <2>4, <2>5, HalvesNext
<1>3. QED BY <1>1, <1>2

LEMMA StopMarkStep ==
    ASSUME ComputerInv, NEW k \in Calls, StopMark(k)
    PROVE  ComputerInv'
<1>0. ComputerTypeOK /\ LeaseHalf /\ ReceiptHalf /\ CallsTyped /\ LeaseTyped
  BY Halves, TypeParts
<1>1. /\ CallGoto(k, "dockerStop") /\ call[k].pc = "mark"
      /\ UNCHANGED <<box, execs, lease, began, boxSpent>>
      /\ cmd' = [c \in Cmds |-> IF cmd[c] = "running" THEN "interrupted" ELSE cmd[c]]
  BY DEF StopMark, InCall
<1>2. /\ cmd' \in [Cmds -> {"absent", "running"} \cup Ended]
      /\ \A d \in Cmds : cmd'[d] = "absent" => cmd[d] = "absent"
  BY <1>0, <1>1 DEF Ended, ComputerTypeOK
<1>3. CallsTypedNext /\ MovesTo(k, "dockerStop")
  BY <1>0, <1>1, GotoFields DEF CallPC
<1>4. ComputerTypeOK'
  BY <1>0, <1>1, <1>2, <1>3, TypeParts, TypePartsNext DEF LeaseTyped, LeaseTypedNext
<1>5. lease.token = k /\ ~lease.stopping => execs = {}
  BY <1>0, <1>1 DEF LeaseHalf, LeavesNothing, Through
<1>6. LeaseHalf'
  BY <1>0, <1>1, <1>3, <1>5, QuietCall DEF Stopped, MovesTo, Inside, Early, CallPC
<1>7. ReceiptHalf'
  BY <1>0, <1>1, <1>2, <1>3, ReceiptStep
<1>8. QED
  BY <1>4, <1>6, <1>7, HalvesNext

LEMMA DockerStopSteps ==
    ASSUME ComputerInv, NEW k \in Calls, DockerStop(k) \/ DockerStopFails(k)
    PROVE  ComputerInv'
<1>0. ComputerTypeOK /\ LeaseHalf /\ ReceiptHalf /\ CallsTyped /\ LeaseTyped
  BY Halves, TypeParts
<1>1. PICK b \in BOOLEAN :
         /\ call' = [call EXCEPT ![k].pc = "confirm", ![k].ok = b]
         /\ call[k].pc = "dockerStop" /\ UNCHANGED <<lease, cmd, began>>
         /\ \/ Stopped' /\ boxSpent' = boxSpent
            \/ ~b /\ UNCHANGED <<box, execs>> /\ DockerFails
  BY DEF DockerStop, DockerStopFails, InCall, Stopped
<1>2. CallsTypedNext /\ MovesTo(k, "confirm") /\ call'[k].ok = b
  BY <1>0, <1>1, OkFields DEF CallPC
<1>3. ComputerTypeOK'
  BY <1>0, <1>1, <1>2, TypeParts, TypePartsNext, FailsTyped
     DEF LeaseTyped, LeaseTypedNext, Stopped
<1>4. execs' \subseteq execs /\ (Stopped => Stopped') /\ (b => Stopped')
  BY <1>1 DEF Stopped
<1>5. lease.token = k /\ ~lease.stopping => execs = {}
  BY <1>0, <1>1 DEF LeaseHalf, LeavesNothing, Through
<1>6. LeaseHalf'
  BY <1>0, <1>1, <1>2, <1>4, <1>5, QuietCall DEF MovesTo, Inside, Early, CallPC
<1>7. ReceiptHalf'
  BY <1>0, <1>1, <1>2, ReceiptStep
<1>8. QED
  BY <1>3, <1>6, <1>7, HalvesNext

LEMMA ConfirmStep ==
    ASSUME ComputerInv, NEW k \in Calls, Confirm(k)
    PROVE  ComputerInv'
<1>0. ComputerTypeOK /\ LeaseHalf /\ ReceiptHalf /\ CallsTyped /\ LeaseTyped
  BY Halves, TypeParts
<1>1. PICK pc \in {"final", "release", "over"} :
         /\ CallGoto(k, pc) /\ call[k].pc = "confirm"
         /\ UNCHANGED <<box, execs, cmd, began, boxSpent>>
         /\ \/ lease' = lease
            \/ /\ lease.attempt = k
               /\ lease' = [lease EXCEPT !.inFlight = FALSE, !.confirmed = call[k].ok]
  BY DEF Confirm, InCall
<1>2. CallsTypedNext /\ MovesTo(k, pc) /\ call'[k].ok = call[k].ok /\ call[k].ok \in BOOLEAN
  BY <1>0, <1>1, GotoFields DEF CallPC, CallsTyped, CallRec
<1>3. /\ LeaseTypedNext /\ SameHolder /\ lease'.exp = lease.exp
      /\ lease'.stopping = lease.stopping /\ lease'.attempt = lease.attempt
      /\ lease'.confirmed = lease.confirmed
            \/ (lease.attempt = k /\ lease'.confirmed = call[k].ok)
  BY <1>0, <1>1, <1>2, ConfirmFields DEF LeaseTyped, LeaseTypedNext, SameHolder
<1>4. ComputerTypeOK'
  BY <1>0, <1>1, <1>2, <1>3, TypeParts, TypePartsNext
<1>5. ~Inside(k)' /\ pc \in CallPC /\ pc \notin Early \cup {"swap"}
  BY <1>1, <1>2 DEF Inside, MovesTo, CallPC, Early
<1>6. FreshTokens' /\ \A j \in Calls : Remembers(j)'
  BY <1>0, <1>2, <1>3, <1>5, MemoryStep DEF SameHolder
<1>7. ASSUME NEW j \in Calls, Inside(j)' PROVE AtWork(j)'
  <2>1. call'[j] = call[j] /\ Inside(j)
    BY <1>2, <1>5, <1>7 DEF MovesTo, Elsewhere, Inside
  <2>2. QED
    BY <2>1, <1>0, <1>1, <1>3 DEF LeaseHalf, AtWork, SameHolder
<1>8. FreeIsQuiet'
  BY <1>0, <1>1, <1>3 DEF LeaseHalf, FreeIsQuiet
<1>9. Quarantine'
  <2>1. NoToken \notin Calls
    BY ComputerAssumption
  <2>2. lease'.confirmed => lease.stopping /\ Stopped
    BY <2>1, <1>0, <1>1, <1>3 DEF LeaseHalf, Quarantine
  <2>3. QED
    BY <2>2, <1>0, <1>1, <1>2, <1>3 DEF LeaseHalf, Quarantine, Stopped, MovesTo, Elsewhere
<1>10. LeavesNothing'
  BY <1>0, <1>1, <1>2, <1>3 DEF LeaseHalf, LeavesNothing, Through, MovesTo, Elsewhere, SameHolder
<1>11. LeaseHalf'
  BY <1>6, <1>7, <1>8, <1>9, <1>10 DEF LeaseHalf, AtWork
<1>12. ReceiptHalf'
  BY <1>0, <1>1, <1>2, ReceiptStep
<1>13. QED
  BY <1>4, <1>11, <1>12, HalvesNext

----------------------------------------------------------------------------
(* A call begins, reads the lease and takes it. *)
LEMMA BeginStep ==
    ASSUME ComputerInv, NEW k \in Calls, NEW kind \in Kinds, NEW c \in Cmds, Begin(k, kind, c)
    PROVE  ComputerInv'
<1>0. ComputerTypeOK /\ LeaseHalf /\ ReceiptHalf /\ CallsTyped /\ LeaseTyped
  BY Halves, TypeParts
<1>1. PICK pc \in {"over", "acquire"} :
         /\ call' = [call EXCEPT ![k].kind = kind, ![k].id = c, ![k].pc = pc]
         /\ call[k].pc = "new" /\ UNCHANGED <<box, execs, lease, cmd, began, boxSpent>>
  BY DEF Begin, InCall
<1>2. CallsTypedNext /\ Elsewhere(k) /\ call'[k].pc = pc /\ call'[k].seen = call[k].seen
  BY <1>0, <1>1, BeginFields DEF CallPC
<1>3. ComputerTypeOK'
  BY <1>0, <1>1, <1>2, TypeParts, TypePartsNext DEF LeaseTyped, LeaseTypedNext
<1>a. call[k].pc = "new" /\ UNCHANGED <<lease, execs>> /\ call'[k].pc \in {"over", "acquire"}
  BY <1>1, <1>2
<1>b. \A j \in Calls : j # k => call'[j] = call[j]
  BY <1>2 DEF Elsewhere
<1>c. call'[k].seen = call[k].seen
  BY <1>2
<1>4. FreshTokens'
  <2>1. FreshTokens
    BY <1>0 DEF LeaseHalf
  <2>2. ASSUME NEW i \in Calls, call'[i].pc \in Early PROVE call[i].pc \in Early
    BY <2>2, <1>a, <1>b DEF Early
  <2>3. \A j \in Calls : call'[j].seen = call[j].seen
    BY <1>b, <1>c
  <2>4. QED
    BY <2>1, <2>2, <2>3, <1>a DEF FreshTokens
<1>5. ASSUME NEW j \in Calls PROVE Remembers(j)' /\ AtWork(j)'
  <2>0. Remembers(j) /\ AtWork(j)
    BY <1>0 DEF LeaseHalf
  <2>1. CASE j = k
    <3>1. ~Inside(j)' /\ call'[j].pc \notin {"claim", "swap"}
      BY <2>1, <1>a DEF Inside
    <3>2. QED
      BY <2>0, <2>1, <3>1, <1>a, <1>c DEF Remembers, AtWork
  <2>2. CASE j # k
    BY <2>0, <2>2, <1>a, <1>b DEF Remembers, AtWork, Inside
  <2>3. QED BY <2>1, <2>2
<1>6. FreeIsQuiet' /\ Quarantine'
  BY <1>0, <1>1, <1>2 DEF LeaseHalf, FreeIsQuiet, Quarantine, Stopped, Elsewhere
<1>7. LeavesNothing'
  BY <1>0, <1>1, <1>2 DEF LeaseHalf, LeavesNothing, Through, Elsewhere
<1>8. LeaseHalf'
  BY <1>4, <1>5, <1>6, <1>7 DEF LeaseHalf
<1>9. ReceiptHalf'
  BY <1>0, <1>1, <1>2 DEF ReceiptHalf, ReceiptFirst, RunsOnce, Elsewhere
<1>10. QED
  BY <1>3, <1>8, <1>9, HalvesNext

LEMMA AcquireReadStep ==
    ASSUME ComputerInv, NEW k \in Calls, AcquireRead(k)
    PROVE  ComputerInv'
<1>0. ComputerTypeOK /\ LeaseHalf /\ ReceiptHalf /\ CallsTyped /\ LeaseTyped
  BY Halves, TypeParts
<1>1. PICK pc \in {"claim", "swap", "over"} :
         /\ call' = [call EXCEPT ![k].seen = lease, ![k].pc = pc]
         /\ pc = "claim" => lease.exp # "live"
         /\ pc = "swap" => lease.command \/ lease.stopping
         /\ call[k].pc = "acquire" /\ UNCHANGED <<box, execs, lease, cmd, began, boxSpent>>
  BY DEF AcquireRead, InCall
<1>2. CallsTypedNext /\ Elsewhere(k) /\ call'[k].pc = pc /\ call'[k].seen = lease
  BY <1>0, <1>1, SeenFields DEF CallPC, LeaseTyped
<1>3. ComputerTypeOK'
  BY <1>0, <1>1, <1>2, TypeParts, TypePartsNext DEF LeaseTyped, LeaseTypedNext
<1>a. call[k].pc = "acquire" /\ UNCHANGED <<lease, execs>>
  BY <1>1
<1>b. \A j \in Calls : j # k => call'[j] = call[j]
  BY <1>2 DEF Elsewhere
<1>c. /\ call'[k].seen = lease /\ call'[k].pc \in {"claim", "swap", "over"}
      /\ call'[k].pc = "claim" => lease.exp # "live"
      /\ call'[k].pc = "swap" => lease.command \/ lease.stopping
  BY <1>1, <1>2
<1>4. FreshTokens'
  <2>1. FreshTokens
    BY <1>0 DEF LeaseHalf
  <2>2. ASSUME NEW i \in Calls, call'[i].pc \in Early PROVE call[i].pc \in Early
    BY <2>2, <1>a, <1>b DEF Early
  <2>3. \A j \in Calls : call'[j].seen = call[j].seen \/ call'[j].seen = lease
    BY <1>b, <1>c
  <2>4. QED
    BY <2>1, <2>2, <2>3, <1>a DEF FreshTokens
<1>5. ASSUME NEW j \in Calls PROVE Remembers(j)' /\ AtWork(j)'
  <2>0. Remembers(j) /\ AtWork(j)
    BY <1>0 DEF LeaseHalf
  <2>1. CASE j = k
    <3>1. ~Inside(j)'
      BY <2>1, <1>c DEF Inside
    <3>2. QED
      BY <2>1, <3>1, <1>a, <1>c DEF Remembers, AtWork
  <2>2. CASE j # k
    BY <2>0, <2>2, <1>a, <1>b DEF Remembers, AtWork, Inside
  <2>3. QED BY <2>1, <2>2
<1>6. FreeIsQuiet' /\ Quarantine'
  BY <1>0, <1>1, <1>2 DEF LeaseHalf, FreeIsQuiet, Quarantine, Stopped, Elsewhere
<1>7. LeavesNothing'
  BY <1>0, <1>1, <1>2 DEF LeaseHalf, LeavesNothing, Through, Elsewhere
<1>8. LeaseHalf'
  BY <1>4, <1>5, <1>6, <1>7 DEF LeaseHalf
<1>9. ReceiptHalf'
  BY <1>0, <1>1, <1>2 DEF ReceiptHalf, ReceiptFirst, RunsOnce, Elsewhere
<1>10. QED
  BY <1>3, <1>8, <1>9, HalvesNext

LEMMA AcquireSwapStep ==
    ASSUME ComputerInv, NEW k \in Calls, AcquireSwap(k)
    PROVE  ComputerInv'
<1>0. ComputerTypeOK /\ LeaseHalf /\ ReceiptHalf /\ CallsTyped /\ LeaseTyped
  BY Halves, TypeParts
<1>a. call[k].pc = "claim" /\ UNCHANGED <<box, execs, cmd, began, boxSpent>>
  BY DEF AcquireSwap, InCall
<1>1. CASE lease.token = call[k].seen.token /\ lease.exp = call[k].seen.exp
  <2>1. PICK pc \in {"swap", "inside"} :
           /\ lease' = NewLease(k, call[k].kind = "execute")
           /\ call' = [call EXCEPT ![k].seen = lease', ![k].pc = pc]
    BY <1>1 DEF AcquireSwap
  <2>2. /\ lease' \in Lease /\ lease'.token = k /\ lease'.exp = "live" /\ ~lease'.stopping
        /\ lease'.attempt = NoToken /\ ~lease'.confirmed
        /\ lease'.command = (call[k].kind = "execute") /\ lease'.done = ~lease'.command
    BY <2>1, NewLeaseFields
  <2>3. /\ CallsTypedNext /\ Elsewhere(k) /\ call'[k].pc = pc /\ call'[k].seen = lease'
        /\ call'[k].kind = call[k].kind /\ call'[k].id = call[k].id
    <3>1. PICK s \in Lease : s = lease'
      BY <2>2
    <3>2. call' = [call EXCEPT ![k].seen = s, ![k].pc = pc] /\ pc \in CallPC
      BY <3>1, <2>1 DEF CallPC
    <3>3. QED
      BY <3>1, <3>2, <1>0, SeenFields
  <2>4. ComputerTypeOK'
    BY <2>2, <2>3, <1>0, <1>a, TypeParts, TypePartsNext DEF LeaseTypedNext
  <2>5. lease.exp # "live" /\ execs = {} /\ \A j \in Calls : ~Inside(j)
    BY <1>0, <1>1, <1>a DEF LeaseHalf, Remembers, FreeIsQuiet, AtWork
  <2>6. FreshTokens'
    <3>1. call'[k].pc \notin Early /\ call'[k].seen.token = k
      BY <2>2, <2>3 DEF Early
    <3>2. QED
      BY <3>1, <2>2, <2>3, <1>0 DEF LeaseHalf, FreshTokens, Elsewhere
  <2>7. \A j \in Calls : call[j].seen.token # k
    BY <1>0, <1>a DEF LeaseHalf, FreshTokens, Early
  <2>8. ASSUME NEW j \in Calls PROVE Remembers(j)' /\ AtWork(j)'
    <3>1. CASE j = k
      BY <3>1, <2>1, <2>2, <2>3, <2>5, <1>a DEF Remembers, AtWork, Inside
    <3>2. CASE j # k
      BY <3>2, <2>2, <2>3, <2>5, <2>7, <1>0 DEF LeaseHalf, Remembers, AtWork, Elsewhere, Inside
    <3>3. QED BY <3>1, <3>2
  <2>9. FreeIsQuiet' /\ Quarantine'
    BY <2>2, ComputerAssumption DEF FreeIsQuiet, Quarantine
  <2>10. LeavesNothing'
    BY <2>1, <2>2, <2>3 DEF LeavesNothing, Through
  <2>11. LeaseHalf'
    BY <2>6, <2>8, <2>9, <2>10 DEF LeaseHalf
  <2>12. ReceiptHalf'
    BY <2>1, <2>3, <1>0, <1>a DEF ReceiptHalf, ReceiptFirst, RunsOnce, Elsewhere
  <2>13. QED
    BY <2>4, <2>11, <2>12, HalvesNext
<1>2. CASE ~(lease.token = call[k].seen.token /\ lease.exp = call[k].seen.exp)
  <2>1. CallGoto(k, "over") /\ lease' = lease
    BY <1>2 DEF AcquireSwap
  <2>2. CallsTypedNext /\ MovesTo(k, "over")
    BY <2>1, <1>0, GotoFields DEF CallPC
  <2>3. ComputerTypeOK'
    BY <2>1, <2>2, <1>0, <1>a, TypeParts, TypePartsNext DEF LeaseTyped, LeaseTypedNext
  <2>4. LeaseHalf'
    BY <2>1, <2>2, <1>0, <1>a, QuietCall DEF Stopped, MovesTo, Inside, Early, CallPC, Through
  <2>5. ReceiptHalf'
    BY <2>2, <1>0, <1>a, ReceiptStep
  <2>6. QED
    BY <2>3, <2>4, <2>5, HalvesNext
<1>3. QED BY <1>1, <1>2

----------------------------------------------------------------------------
(* What happens besides the calls. *)
LEMMA AloneSteps ==
    ASSUME ComputerInv, Reconcile \/ (\E c \in Cmds : ExecEndsAlone(c)) \/ UNCHANGED computerVars
    PROVE  ComputerInv'
<1>0. ComputerTypeOK /\ LeaseHalf /\ ReceiptHalf /\ CallsTyped /\ LeaseTyped
  BY Halves, TypeParts
<1>1. /\ box' = box /\ lease' = lease /\ call' = call /\ began' = began /\ boxSpent' = boxSpent
      /\ execs' \subseteq execs
      /\ cmd' = cmd
           \/ cmd' = [c \in Cmds |-> IF cmd[c] = "running" THEN "interrupted" ELSE cmd[c]]
  BY DEF Reconcile, ExecEndsAlone, computerVars
<1>2. /\ cmd' \in [Cmds -> {"absent", "running"} \cup Ended]
      /\ \A d \in Cmds : cmd'[d] = "absent" => cmd[d] = "absent"
  BY <1>0, <1>1 DEF Ended, ComputerTypeOK
<1>3. ComputerTypeOK'
  BY <1>0, <1>1, <1>2, TypeParts, TypePartsNext
     DEF LeaseTyped, LeaseTypedNext, CallsTyped, CallsTypedNext
<1>4. FreshTokens' /\ FreeIsQuiet' /\ Quarantine' /\ LeavesNothing'
  BY <1>0, <1>1 DEF LeaseHalf, FreshTokens, FreeIsQuiet, Quarantine, Stopped, LeavesNothing
<1>5. \A j \in Calls : Remembers(j)' /\ AtWork(j)'
  BY <1>0, <1>1 DEF LeaseHalf, Remembers, AtWork, Inside
<1>6. ReceiptHalf'
  BY <1>0, <1>1, <1>2 DEF ReceiptHalf, ReceiptFirst, RunsOnce, CallsTyped, CallRec
<1>7. QED
  BY <1>3, <1>4, <1>5, <1>6, HalvesNext DEF LeaseHalf

LEMMA LapseStep ==
    ASSUME ComputerInv, LeaseLapses
    PROVE  ComputerInv'
<1>0. ComputerTypeOK /\ LeaseHalf /\ ReceiptHalf /\ CallsTyped /\ LeaseTyped
  BY Halves, TypeParts
<1>1. /\ execs = {} /\ lease' = [lease EXCEPT !.exp = "lapsed"]
      /\ \A k \in Calls : call[k].seen.token = lease.token => call[k].pc \in {"new", "over"}
      /\ UNCHANGED <<box, execs, cmd, call, began, boxSpent>>
  BY DEF LeaseLapses
<1>2. /\ LeaseTypedNext /\ SameHolder /\ lease'.stopping = lease.stopping
      /\ lease'.attempt = lease.attempt /\ lease'.confirmed = lease.confirmed
  BY <1>0, <1>1, ExpFields
<1>3. ComputerTypeOK'
  BY <1>0, <1>1, <1>2, TypeParts, TypePartsNext DEF CallsTyped, CallsTypedNext
<1>4. FreshTokens' /\ FreeIsQuiet' /\ Quarantine' /\ LeavesNothing'
  BY <1>0, <1>1, <1>2
     DEF LeaseHalf, FreshTokens, FreeIsQuiet, Quarantine, Stopped, LeavesNothing, SameHolder
<1>5. \A j \in Calls : ~Inside(j)
  <2>1. ASSUME NEW j \in Calls, Inside(j) PROVE FALSE
    <3>1. lease.token = j /\ call[j].seen.token = j
      BY <2>1, <1>0 DEF LeaseHalf, Remembers, AtWork
    <3>2. QED
      BY <3>1, <2>1, <1>1 DEF Inside
  <2>2. QED BY <2>1
<1>6. \A j \in Calls : Remembers(j)' /\ AtWork(j)'
  BY <1>0, <1>1, <1>2, <1>5 DEF LeaseHalf, Remembers, AtWork, Inside, SameHolder
<1>7. ReceiptHalf'
  BY <1>0, <1>1 DEF ReceiptHalf, ReceiptFirst, RunsOnce
<1>8. QED
  BY <1>3, <1>4, <1>6, <1>7, HalvesNext DEF LeaseHalf

LEMMA InitInv == ComputerInit => ComputerInv
<1> SUFFICES ASSUME ComputerInit PROVE ComputerInv
  OBVIOUS
<1>1. /\ NoLeaseRow \in Lease /\ NoLeaseRow.token = NoToken /\ NoLeaseRow.attempt = NoToken
      /\ ~NoLeaseRow.stopping /\ ~NoLeaseRow.confirmed /\ ~NoLeaseRow.command
  BY DEF NoLeaseRow, NewLease, Lease
<1>2. PICK c \in Cmds : c = CHOOSE d \in Cmds : TRUE
  BY ComputerAssumption
<1>3. call \in [Calls -> [pc : {"new"}, kind : {"start"}, id : {c}, seen : {NoLeaseRow},
                          result : {"failed"}, ok : {FALSE}]]
  BY <1>2 DEF ComputerInit
<1>4. \A k \in Calls : /\ call[k] \in CallRec /\ call[k].pc = "new" /\ call[k].seen = NoLeaseRow
  BY <1>1, <1>3 DEF CallRec, CallPC, Kinds, Ended
<1>5. CallsTyped
  BY <1>3, <1>4 DEF CallsTyped
<1>6. /\ box \in {"stopped", "running"} /\ execs = {} /\ lease = NoLeaseRow
      /\ cmd = [d \in Cmds |-> "absent"] /\ began = [d \in Cmds |-> 0]
      /\ boxSpent = [deaths |-> 0, errors |-> 0]
  BY DEF ComputerInit
<1>7. ComputerTypeOK
  BY <1>1, <1>5, <1>6, TypeParts, ComputerAssumption DEF LeaseTyped
<1>8. FreshTokens /\ \A k \in Calls : Remembers(k) /\ AtWork(k)
  BY <1>1, <1>4, <1>6, ComputerAssumption DEF FreshTokens, Remembers, AtWork, Inside, Early
<1>9. FreeIsQuiet /\ Quarantine /\ LeavesNothing
  BY <1>1, <1>4, <1>6, ComputerAssumption DEF FreeIsQuiet, Quarantine, LeavesNothing
<1>10. ReceiptFirst /\ RunsOnce
  BY <1>4, <1>6 DEF ReceiptFirst, RunsOnce
<1>11. QED
  BY <1>7, <1>8, <1>9, <1>10 DEF ComputerInv

LEMMA NextInv == ComputerInv /\ [ComputerNext]_computerVars => ComputerInv'
<1> SUFFICES ASSUME ComputerInv, [ComputerNext]_computerVars PROVE ComputerInv'
  OBVIOUS
<1>1. ASSUME NEW k \in Calls, CallStep(k) PROVE ComputerInv'
  BY <1>1, AcquireReadStep, AcquireSwapStep, InsideSteps, SaveReceiptStep, CheckLeaseStep,
     ExecStep, ExecEnds, CleanupStep, FinishStep, ExecutorDoneStep, ReleaseSteps,
     StopSwapStep, StopMarkStep, DockerStopSteps, ConfirmStep
     DEF CallStep
<1>2. ASSUME NEW k \in Calls, NEW kind \in Kinds, NEW c \in Cmds, Begin(k, kind, c)
      PROVE  ComputerInv'
  BY <1>2, BeginStep
<1>3. QED
  BY <1>1, <1>2, DiesStep, AloneSteps, LapseStep DEF ComputerNext

(* The inductive invariant holds throughout. *)
LEMMA ComputerAlways == ComputerSpec => []ComputerInv
  BY InitInv, NextInv, PTL DEF ComputerSpec

(* The computer's state is always well typed. *)
THEOREM ComputerTyped == ComputerSpec => []ComputerTypeOK
<1>1. ComputerInv => ComputerTypeOK
  BY DEF ComputerInv
<1>2. QED BY <1>1, ComputerAlways, PTL

(* "A stopped command must acknowledge completion before a new lifecycle can  *)
(* begin": for any number of calls that die and any failures of Docker, one   *)
(* executor at a time is at work in the container (exclusive, stop).          *)
THEOREM ComputerExclusive == ComputerSpec => []OneAtWork
<1>1. ComputerInv => OneAtWork
  BY DEF ComputerInv, OneAtWork, AtWork
<1>2. QED BY <1>1, ComputerAlways, PTL

(* A lease comes free only over a container in which no command is alive.     *)
THEOREM ComputerFreesClean == ComputerSpec => []FreeIsQuiet
<1>1. ComputerInv => FreeIsQuiet
  BY DEF ComputerInv
<1>2. QED BY <1>1, ComputerAlways, PTL

(* A command is started once under its key (execute).                         *)
THEOREM ComputerRunsOnce == ComputerSpec => []RunsOnce
<1>1. ComputerInv => RunsOnce
  BY DEF ComputerInv
<1>2. QED BY <1>1, ComputerAlways, PTL

(* A command that was interrupted is never reported to have ended otherwise.  *)
THEOREM ComputerInterruptionHolds == ComputerSpec => InterruptedIsFinal
<1> DEFINE Stays == \A c \in Cmds : cmd[c] = "interrupted" => cmd'[c] = "interrupted"
<1>1. ASSUME ComputerInv, [ComputerNext]_computerVars PROVE [Stays]_computerVars
  <2>0. cmd \in [Cmds -> {"absent", "running"} \cup Ended] /\ CallsTyped
    BY <1>1, Halves, TypeParts
  <2>1. ASSUME cmd' = cmd PROVE Stays
    BY <2>1
  <2>2. ASSUME cmd' = [c \in Cmds |-> IF cmd[c] = "running" THEN "interrupted" ELSE cmd[c]]
        PROVE  Stays
    BY <2>2
  <2>3. ASSUME NEW k \in Calls, SaveReceipt(k) \/ CheckLease(k) \/ Finish(k) PROVE Stays
    <3>1. call[k].id \in Cmds
      BY <2>0 DEF CallsTyped, CallRec
    <3>2. CASE SaveReceipt(k)
      BY <3>1, <3>2, <2>0 DEF SaveReceipt
    <3>3. CASE CheckLease(k)
      BY <3>1, <3>3, <2>0 DEF CheckLease
    <3>4. CASE Finish(k)
      BY <3>1, <3>4, <2>0 DEF Finish
    <3>5. QED BY <2>3, <3>2, <3>3, <3>4
  <2> HIDE DEF Stays
  <2>4. ASSUME NEW k \in Calls, CallStep(k) PROVE Stays
    BY <2>1, <2>2, <2>3, <2>4
       DEF CallStep, AcquireRead, AcquireSwap, StartBox, StartFails, UseFile, Exec, ExecExits,
           ExecLost, Cleanup, ExecutorDone, Release, ReleaseStopped, StopSwap, StopMark,
           DockerStop, DockerStopFails, Confirm
  <2>5. ASSUME Reconcile \/ LeaseLapses \/ \E c \in Cmds : ExecEndsAlone(c) PROVE Stays
    BY <2>1, <2>2, <2>5 DEF Reconcile, LeaseLapses, ExecEndsAlone
  <2>6. ASSUME NEW k \in Calls, Dies(k) \/ \E kind \in Kinds, c \in Cmds : Begin(k, kind, c)
        PROVE  Stays
    BY <2>1, <2>6 DEF Dies, Begin
  <2>7. QED
    BY <1>1, <2>4, <2>5, <2>6 DEF ComputerNext
<1>2. ComputerSpec => [][Stays]_computerVars
  BY <1>1, ComputerAlways, PTL DEF ComputerSpec
<1>3. QED BY <1>2 DEF InterruptedIsFinal
=============================================================================
