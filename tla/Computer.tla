------------------------------ MODULE Computer ------------------------------
(* apps/server/src/computer.ts: the Docker computer of one owner.  Every call  *)
(* takes the lease row by compareAndSwap; Stop may join a command's lease and  *)
(* quarantines it until Docker confirmed the stop and the command's executor   *)
(* is done.  Calls run in any process of the server and may die at any point.  *)
(*                                                                             *)
(* Docker is external: starting, stopping and exec-ing succeed or fail.        *)
(* Isolation checks, paths, rate limits and output are left out.               *)
EXTENDS Naturals

CONSTANTS
    Calls,          \* calls of the service; each is also the token of its lease
    Cmds,           \* commands, by idempotency key
    NoToken,         \* no lease yet, stopAttempt: ""
    MaxDeaths,      \* bound: processes that die during a call
    MaxDockerErrors \* bound: Docker commands that fail or time out

ASSUME ComputerAssumption ==
    /\ NoToken \notin Calls /\ Cmds # {}
    /\ MaxDeaths \in Nat /\ MaxDockerErrors \in Nat

VARIABLES
    box,            \* the container: "stopped" or "running"
    execs,          \* commands whose process is alive in the container
    lease,          \* "computer-state" / "lease"
    cmd,            \* status of each "computer-commands" row
    call,           \* the calls
    began,          \* history: how often each command was started in the container
    boxSpent        \* counters of the bounded events

computerVars == <<box, execs, lease, cmd, call, began, boxSpent>>

Ended == {"succeeded", "failed", "timed_out", "interrupted"}
Kinds == {"start", "file", "execute", "stop"}
CallPC == {"new", "acquire", "claim", "inside", "saved", "exec", "wait", "cleanup", "final",
           "done1", "done2", "release", "swap", "mark", "dockerStop", "confirm", "over"}

(* expiresAt is ahead, has passed, or was set to 0; token NoToken: no row yet. *)
Lease == [token : Calls \cup {NoToken}, exp : {"live", "lapsed", "zero"}, stopping : BOOLEAN,
          inFlight : BOOLEAN, attempt : Calls \cup {NoToken}, confirmed : BOOLEAN,
          done : BOOLEAN, command : BOOLEAN]

NewLease(k, command) ==
    [token |-> k, exp |-> "live", stopping |-> FALSE, inFlight |-> FALSE, attempt |-> NoToken,
     confirmed |-> FALSE, done |-> ~command, command |-> command]
NoLeaseRow == [NewLease(NoToken, FALSE) EXCEPT !.exp = "zero"]

ComputerTypeOK ==
    /\ box \in {"stopped", "running"}
    /\ execs \subseteq Cmds
    /\ lease \in Lease
    /\ cmd \in [Cmds -> {"absent", "running"} \cup Ended]
    /\ call \in [Calls -> [pc : CallPC, kind : Kinds, id : Cmds, seen : Lease,
                           result : Ended, ok : BOOLEAN]]
    /\ began \in [Cmds -> Nat]
    /\ boxSpent \in [deaths : 0..MaxDeaths, errors : 0..MaxDockerErrors]

ComputerInit ==
    /\ box \in {"stopped", "running"}
    /\ execs = {}
    /\ lease = NoLeaseRow
    /\ cmd = [c \in Cmds |-> "absent"]
    /\ call \in [Calls -> [pc : {"new"}, kind : {"start"}, id : {CHOOSE c \in Cmds : TRUE},
                           seen : {NoLeaseRow}, result : {"failed"}, ok : {FALSE}]]
    /\ began = [c \in Cmds |-> 0]
    /\ boxSpent = [deaths |-> 0, errors |-> 0]

InCall(k, pc) == call[k].pc = pc
CallGoto(k, pc) == call' = [call EXCEPT ![k].pc = pc]
DockerFails == boxSpent.errors < MaxDockerErrors /\ boxSpent' = [boxSpent EXCEPT !.errors = @ + 1]

----------------------------------------------------------------------------
(* A call begins.  execute() under a key that has a receipt returns it.       *)
Begin(k, kind, c) ==
    /\ InCall(k, "new")
    /\ call' = [call EXCEPT ![k].kind = kind, ![k].id = c,
                            ![k].pc = IF kind = "execute" /\ cmd[c] # "absent" THEN "over"
                                      ELSE "acquire"]
    /\ UNCHANGED <<box, execs, lease, cmd, began, boxSpent>>

(* commands(), from snapshot() and from a repeated execute(): when nobody     *)
(* holds the lease, what is still "running" was interrupted.                  *)
Reconcile ==
    /\ lease.exp # "live" /\ \E c \in Cmds : cmd[c] = "running"
    /\ cmd' = [c \in Cmds |-> IF cmd[c] = "running" THEN "interrupted" ELSE cmd[c]]
    /\ UNCHANGED <<box, execs, lease, call, began, boxSpent>>

(* acquire(): 409 while the lease is live.  stop() joins the lease of a       *)
(* command, or of an earlier Stop that is not in flight.                      *)
AcquireRead(k) ==
    /\ InCall(k, "acquire")
    /\ LET joins == /\ call[k].kind = "stop" /\ ~lease.inFlight
                    /\ lease.command \/ lease.stopping IN
       call' = [call EXCEPT ![k].seen = lease,
                  ![k].pc = IF lease.exp # "live" THEN "claim"
                            ELSE IF joins THEN "swap" ELSE "over"]
    /\ UNCHANGED <<box, execs, lease, cmd, began, boxSpent>>
AcquireSwap(k) ==
    /\ InCall(k, "claim")
    /\ IF lease.token = call[k].seen.token /\ lease.exp = call[k].seen.exp
       THEN /\ lease' = NewLease(k, call[k].kind = "execute")
            /\ call' = [call EXCEPT ![k].seen = lease',
                                    ![k].pc = IF call[k].kind = "stop" THEN "swap" ELSE "inside"]
       ELSE lease' = lease /\ CallGoto(k, "over")
    /\ UNCHANGED <<box, execs, cmd, began, boxSpent>>

----------------------------------------------------------------------------
(* start(), and the file operations: one thing is done in the container.      *)
StartBox(k) ==
    /\ InCall(k, "inside") /\ call[k].kind = "start"
    /\ box' = "running" /\ CallGoto(k, "done2")
    /\ UNCHANGED <<execs, lease, cmd, began, boxSpent>>
StartFails(k) ==
    /\ InCall(k, "inside") /\ call[k].kind = "start" /\ DockerFails
    /\ CallGoto(k, "done2")
    /\ UNCHANGED <<box, execs, lease, cmd, began>>
UseFile(k) ==
    /\ InCall(k, "inside") /\ call[k].kind = "file"
    /\ CallGoto(k, "done2")
    /\ UNCHANGED <<box, execs, lease, cmd, began, boxSpent>>

----------------------------------------------------------------------------
(* execute() inside its lease.                                                *)

(* Mutant of SaveReceipt: the receipt is put, not inserted. *)
SaveReceipt_Put(k) ==
    /\ InCall(k, "inside") /\ call[k].kind = "execute"
    /\ cmd' = IF box = "running" THEN [cmd EXCEPT ![call[k].id] = "running"] ELSE cmd
    /\ CallGoto(k, IF box = "running" THEN "saved" ELSE "done1")
    /\ UNCHANGED <<box, execs, lease, began, boxSpent>>

(* The computer has to be running; the receipt is inserted; a receipt that is *)
(* there already is returned.                                                 *)
SaveReceipt(k) ==
    /\ InCall(k, "inside") /\ call[k].kind = "execute"
    /\ LET c == call[k].id  fresh == box = "running" /\ cmd[c] = "absent" IN
       /\ cmd' = IF fresh THEN [cmd EXCEPT ![c] = "running"] ELSE cmd
       /\ CallGoto(k, IF fresh THEN "saved" ELSE "done1")
    /\ UNCHANGED <<box, execs, lease, began, boxSpent>>

(* The lease is read once more before Docker is called. *)
CheckLease(k) ==
    /\ InCall(k, "saved")
    /\ IF lease.token = k /\ ~lease.stopping /\ lease.exp = "live"
       THEN CallGoto(k, "exec") /\ cmd' = cmd
       ELSE CallGoto(k, "done1") /\ cmd' = [cmd EXCEPT ![call[k].id] = "interrupted"]
    /\ UNCHANGED <<box, execs, lease, began, boxSpent>>

(* docker exec: into a stopped container it fails. *)
Exec(k) ==
    /\ InCall(k, "exec")
    /\ LET c == call[k].id IN
       IF box = "running"
       THEN /\ execs' = execs \cup {c} /\ began' = [began EXCEPT ![c] = @ + 1]
            /\ CallGoto(k, "wait")
       ELSE /\ UNCHANGED <<execs, began>>
            /\ call' = [call EXCEPT ![k].pc = "final", ![k].result = "failed"]
    /\ UNCHANGED <<box, lease, cmd, boxSpent>>

(* It exits by itself, or was killed with its container. *)
ExecExits(k) ==
    /\ InCall(k, "wait")
    /\ \E r \in IF call[k].id \in execs THEN {"succeeded", "failed", "timed_out"} ELSE {"failed"} :
          call' = [call EXCEPT ![k].pc = "final", ![k].result = r]
    /\ execs' = execs \ {call[k].id}
    /\ UNCHANGED <<box, lease, cmd, began, boxSpent>>

(* The Docker client times out or is aborted: the process may go on.          *)
ExecLost(k) ==
    /\ InCall(k, "wait") /\ DockerFails
    /\ \E r \in {"interrupted", "timed_out"} :
          call' = [call EXCEPT ![k].pc = "cleanup", ![k].result = r]
    /\ UNCHANGED <<box, execs, lease, cmd, began>>

(* Mutant of Cleanup: the attempt is named after the command. *)
Cleanup_Command(k) ==
    /\ InCall(k, "cleanup")
    /\ lease' = [lease EXCEPT !.stopping = TRUE, !.inFlight = TRUE, !.attempt = call[k].id]
    /\ CallGoto(k, "dockerStop")
    /\ UNCHANGED <<box, execs, cmd, began, boxSpent>>

(* Then the container is stopped, unless a Stop does it already. *)
Cleanup(k) ==
    /\ InCall(k, "cleanup")
    /\ IF lease.token = k /\ ~lease.stopping
       THEN /\ lease' = [lease EXCEPT !.stopping = TRUE, !.inFlight = TRUE, !.attempt = k,
                                      !.confirmed = FALSE, !.exp = "live"]
            /\ CallGoto(k, "dockerStop")
       ELSE lease' = lease /\ CallGoto(k, "final")
    /\ UNCHANGED <<box, execs, cmd, began, boxSpent>>

(* Mutant of Finish: the result is put whatever happened to the receipt. *)
Finish_Put(k) ==
    /\ InCall(k, "final")
    /\ cmd' = [cmd EXCEPT ![call[k].id] = call[k].result]
    /\ CallGoto(k, "done1")
    /\ UNCHANGED <<box, execs, lease, began, boxSpent>>

(* The receipt gets its result only if it is still "running". *)
Finish(k) ==
    /\ InCall(k, "final")
    /\ cmd' = [cmd EXCEPT ![call[k].id] = IF @ = "running" THEN call[k].result
                                          ELSE "interrupted"]
    /\ CallGoto(k, "done1")
    /\ UNCHANGED <<box, execs, lease, began, boxSpent>>

----------------------------------------------------------------------------
(* exclusive()'s finally.                                                     *)
ExecutorDone(k) ==
    /\ InCall(k, "done1")
    /\ lease' = IF lease.token = k THEN [lease EXCEPT !.done = TRUE] ELSE lease
    /\ CallGoto(k, "done2")
    /\ UNCHANGED <<box, execs, cmd, began, boxSpent>>

(* Mutant of Release: the lease of a command that is being stopped is let go. *)
Release_Anyway(k) ==
    /\ InCall(k, "done2")
    /\ lease' = IF lease.token = k THEN [lease EXCEPT !.exp = "zero"] ELSE lease
    /\ CallGoto(k, "release")
    /\ UNCHANGED <<box, execs, cmd, began, boxSpent>>

Release(k) ==
    /\ InCall(k, "done2")
    /\ lease' = IF lease.token = k /\ ~lease.stopping THEN [lease EXCEPT !.exp = "zero"]
                ELSE lease
    /\ CallGoto(k, "release")
    /\ UNCHANGED <<box, execs, cmd, began, boxSpent>>

(* Mutant of ReleaseStopped: executorDone is not asked for. *)
ReleaseStopped_Early(k) ==
    /\ InCall(k, "release")
    /\ lease' = IF /\ lease.token = call[k].seen.token
                   /\ lease.stopping /\ lease.confirmed /\ ~lease.inFlight
                THEN [lease EXCEPT !.exp = "zero"] ELSE lease
    /\ CallGoto(k, "over")
    /\ UNCHANGED <<box, execs, cmd, began, boxSpent>>

(* releaseStopped(): the stop is confirmed and the executor is done. *)
ReleaseStopped(k) ==
    /\ InCall(k, "release")
    /\ lease' = IF /\ lease.token = call[k].seen.token
                   /\ lease.stopping /\ lease.confirmed /\ lease.done /\ ~lease.inFlight
                THEN [lease EXCEPT !.exp = "zero"] ELSE lease
    /\ CallGoto(k, "over")
    /\ UNCHANGED <<box, execs, cmd, began, boxSpent>>

----------------------------------------------------------------------------
(* stop()                                                                     *)

(* The intent is recorded on the lease as it was read; 409 otherwise. *)
StopSwap(k) ==
    /\ InCall(k, "swap")
    /\ LET s == call[k].seen IN
       IF lease.token = s.token /\ lease.stopping = s.stopping /\ lease.attempt = s.attempt
       THEN /\ lease' = [lease EXCEPT !.stopping = TRUE, !.inFlight = TRUE, !.attempt = k,
                                      !.confirmed = FALSE, !.exp = "live"]
            /\ CallGoto(k, "mark")
       ELSE lease' = lease /\ CallGoto(k, "over")
    /\ UNCHANGED <<box, execs, cmd, began, boxSpent>>
StopMark(k) ==
    /\ InCall(k, "mark")
    /\ cmd' = [c \in Cmds |-> IF cmd[c] = "running" THEN "interrupted" ELSE cmd[c]]
    /\ CallGoto(k, "dockerStop")
    /\ UNCHANGED <<box, execs, lease, began, boxSpent>>

(* docker stop, for stop() and for the cleanup of a command. *)
DockerStop(k) ==
    /\ InCall(k, "dockerStop")
    /\ box' = "stopped" /\ execs' = {}
    /\ call' = [call EXCEPT ![k].pc = "confirm", ![k].ok = TRUE]
    /\ UNCHANGED <<lease, cmd, began, boxSpent>>
DockerStopFails(k) ==
    /\ InCall(k, "dockerStop") /\ DockerFails
    /\ call' = [call EXCEPT ![k].pc = "confirm", ![k].ok = FALSE]
    /\ UNCHANGED <<box, execs, lease, cmd, began>>
Confirm(k) ==
    /\ InCall(k, "confirm")
    /\ lease' = IF lease.token = call[k].seen.token /\ lease.attempt = k
                THEN [lease EXCEPT !.inFlight = FALSE, !.confirmed = call[k].ok] ELSE lease
    /\ CallGoto(k, CASE call[k].kind = "execute" -> "final"
                     [] call[k].kind = "stop" /\ call[k].ok -> "release"
                     [] OTHER -> "over")
    /\ UNCHANGED <<box, execs, cmd, began, boxSpent>>

----------------------------------------------------------------------------
(* The process of a call dies; its command goes on in the container, for at   *)
(* most the 30 s of `timeout`.                                                *)
Dies(k) ==
    /\ call[k].pc \notin {"new", "over"} /\ boxSpent.deaths < MaxDeaths
    /\ boxSpent' = [boxSpent EXCEPT !.deaths = @ + 1]
    /\ CallGoto(k, "over")
    /\ UNCHANGED <<box, execs, lease, cmd, began>>
ExecEndsAlone(c) ==
    /\ c \in execs /\ \A k \in Calls : ~(InCall(k, "wait") /\ call[k].id = c)
    /\ execs' = execs \ {c}
    /\ UNCHANGED <<box, lease, cmd, call, began, boxSpent>>

(* Three minutes pass.  Every Docker command of a call ends within 35 s and a *)
(* command within 32 s, so the calls of the lease are over or have died.      *)
LeaseLapses ==
    /\ lease.exp = "live" /\ lease.token # NoToken
    /\ execs = {}
    /\ \A k \in Calls : call[k].seen.token = lease.token => call[k].pc \in {"new", "over"}
    /\ lease' = [lease EXCEPT !.exp = "lapsed"]
    /\ UNCHANGED <<box, execs, cmd, call, began, boxSpent>>

----------------------------------------------------------------------------
CallStep(k) ==
    \/ AcquireRead(k) \/ AcquireSwap(k)
    \/ StartBox(k) \/ StartFails(k) \/ UseFile(k)
    \/ SaveReceipt(k) \/ CheckLease(k) \/ Exec(k) \/ ExecExits(k) \/ ExecLost(k)
    \/ Cleanup(k) \/ Finish(k) \/ ExecutorDone(k) \/ Release(k) \/ ReleaseStopped(k)
    \/ StopSwap(k) \/ StopMark(k) \/ DockerStop(k) \/ DockerStopFails(k) \/ Confirm(k)

ComputerNext ==
    \/ \E k \in Calls :
          CallStep(k) \/ Dies(k) \/ \E kind \in Kinds, c \in Cmds : Begin(k, kind, c)
    \/ \E c \in Cmds : ExecEndsAlone(c)
    \/ Reconcile \/ LeaseLapses

ComputerSpec == ComputerInit /\ [][ComputerNext]_computerVars

----------------------------------------------------------------------------
(* "A stopped command must acknowledge completion before a new lifecycle can   *)
(* begin.  A delayed Docker client can otherwise exec into a restarted box":   *)
(* while an executor may still call Docker, no other call is at work in the    *)
(* container, and its command is the only one alive there.                     *)
Inside(k) == call[k].pc \in {"inside", "saved", "exec", "wait", "cleanup"}
OneAtWork ==
    \A k \in Calls : Inside(k) =>
       /\ \A j \in Calls \ {k} : ~Inside(j)
       /\ execs \subseteq {call[k].id}

(* "A concurrently exiting command cannot report success over the user's       *)
(* interruption": a receipt that says interrupted says so for ever.            *)
InterruptedIsFinal ==
    [][\A c \in Cmds : cmd[c] = "interrupted" => cmd'[c] = "interrupted"]_computerVars

(* A command runs once, however often and concurrently it is requested under   *)
(* its key, whatever dies (execute, commands).                                 *)
RunsOnce == \A c \in Cmds : began[c] <= 1

(* A lease that came free leaves nothing behind in the container: no command   *)
(* is alive there whose receipt could be overtaken by a new one.               *)
FreeIsQuiet == lease.exp # "live" => execs = {}
============================================================================
