--------------------------- MODULE WhatsAppOutbound ---------------------------
(* apps/server/src/engine/whatsapp-outbound.ts, behind whatsapp-routes.ts: a   *)
(* draft is approved or rejected once, and an attempt whose outcome is unknown *)
(* is reconciled.  The operation row, inserted before anything is sent, is the *)
(* ledger of that decision.                                                    *)
(*                                                                             *)
(* The provider is external: it sends or not, and its answer may be lost.  A   *)
(* draft is written once; only its cached status changes, and so its revision  *)
(* always matches.  Scopes, recipients' formats, reply channels and secrets    *)
(* are left out; the list of recipients is part of "on".  Output is enabled.   *)
EXTENDS Naturals, FiniteSets

CONSTANTS
    Drafts,
    Decisions,      \* approve(), reject() and reconcile() calls
    NoDecision,
    MaxConnections  \* bound: generations of the connection

ASSUME OutboundAssumption ==
    /\ NoDecision \notin Decisions /\ Drafts # {}
    /\ MaxConnections \in Nat \ {0}

VARIABLES
    channel,        \* the connection row
    draft,          \* "whatsapp-drafts"
    op,             \* "whatsapp-outbound-operations", one per draft
    decision,       \* the calls
    sends           \* history: how often the provider sent each draft

outVars == <<channel, draft, op, decision, sends>>

Statuses == {"dispatching", "accepted", "rejected", "failed", "outcome_unknown"}

(* by: the attemptId; old: startedAt is more than 60 s ago; verdict: it has a  *)
(* reconciliation.                                                            *)
Operation == [status : Statuses \cup {"absent"}, by : Decisions \cup {NoDecision},
              old : BOOLEAN, verdict : BOOLEAN]
NoOperation == [status |-> "absent", by |-> NoDecision, old |-> FALSE, verdict |-> FALSE]

DraftRow == [status : Statuses \cup {"absent", "awaiting_review"}, gen : 0..MaxConnections,
          expired : BOOLEAN]

OutboundTypeOK ==
    /\ channel \in [gen : 0..MaxConnections, on : BOOLEAN]
    /\ draft \in [Drafts -> DraftRow]
    /\ op \in [Drafts -> Operation]
    /\ decision \in [Decisions -> [pc : {"new", "ledger", "check", "insert", "recheck", "send", "save",
                                         "cache", "swap", "over"},
                                   kind : {"approve", "reject", "reconcile"}, draft : Drafts,
                                   seen : DraftRow \cup Operation, result : Statuses]]
    /\ sends \in [Drafts -> Nat]

OutboundInit ==
    /\ channel = [gen |-> 1, on |-> TRUE]
    /\ draft = [d \in Drafts |-> [status |-> "absent", gen |-> 0, expired |-> FALSE]]
    /\ op = [d \in Drafts |-> NoOperation]
    /\ decision \in [Decisions -> [pc : {"new"}, kind : {"approve"}, draft : {CHOOSE d \in Drafts : TRUE},
                                   seen : {NoOperation}, result : {"failed"}]]
    /\ sends = [d \in Drafts |-> 0]

----------------------------------------------------------------------------
(* provisionWhatsAppConnection: an operator puts a new generation. *)
Provision(on) ==
    /\ channel.gen < MaxConnections
    /\ channel' = [gen |-> channel.gen + 1, on |-> on]
    /\ UNCHANGED <<draft, op, decision, sends>>

(* prepareDraft: insertIfAbsent, for the connection as it is. *)
PrepareDraft(d) ==
    /\ draft[d].status = "absent" /\ channel.on
    /\ draft' = [draft EXCEPT ![d] = [status |-> "awaiting_review", gen |-> channel.gen,
                                      expired |-> FALSE]]
    /\ UNCHANGED <<channel, op, decision, sends>>

(* Half an hour passes after the draft, a minute after the operation. *)
DraftExpires(d) ==
    /\ draft[d].status # "absent" /\ ~draft[d].expired
    /\ draft' = [draft EXCEPT ![d].expired = TRUE]
    /\ UNCHANGED <<channel, op, decision, sends>>
MinutePasses(d) ==
    /\ op[d].status = "dispatching" /\ ~op[d].old
    /\ op' = [op EXCEPT ![d].old = TRUE]
    /\ UNCHANGED <<channel, draft, decision, sends>>

DecisionAt(q, pc) == decision[q].pc = pc
DecisionGoto(q, pc) == decision' = [decision EXCEPT ![q].pc = pc]
DraftOf(q) == decision[q].draft

(* approve() and reject() read the draft, then the operation. *)
ReadDraft(q, kind, d) ==
    /\ DecisionAt(q, "new") /\ draft[d].status # "absent"
    /\ decision' = [decision EXCEPT ![q].kind = kind, ![q].draft = d, ![q].seen = draft[d],
                                    ![q].pc = "ledger"]
    /\ UNCHANGED <<channel, draft, op, sends>>

(* An operation is replayed, a resolved or expired draft refused. *)
ReadLedger(q) ==
    /\ DecisionAt(q, "ledger")
    /\ LET undecided == op[DraftOf(q)].status = "absent" /\ decision[q].seen.status = "awaiting_review" IN
       DecisionGoto(q, CASE ~undecided                                            -> "over"
                         [] undecided /\ decision[q].kind = "reject"              -> "insert"
                         [] undecided /\ decision[q].kind = "approve"             ->
                               IF draft[DraftOf(q)].expired THEN "over" ELSE "check")
    /\ UNCHANGED <<channel, draft, op, sends>>

(* The connection is the one that the draft was reviewed for. *)
Reviewed(q) == channel.on /\ channel.gen = draft[DraftOf(q)].gen
CheckConnection(q) ==
    /\ DecisionAt(q, "check")
    /\ DecisionGoto(q, IF Reviewed(q) THEN "insert" ELSE "over")
    /\ UNCHANGED <<channel, draft, op, sends>>

(* Mutant of Undecided: put. *)
Undecided_Put(d) == TRUE

(* insertIfAbsent *)
Undecided(d) == op[d].status = "absent"

(* The decision is recorded, once. *)
InsertOperation(q) ==
    /\ DecisionAt(q, "insert")
    /\ IF Undecided(DraftOf(q))
       THEN LET sending == decision[q].kind = "approve" IN
            /\ op' = [op EXCEPT ![DraftOf(q)] =
                        [NoOperation EXCEPT !.status = IF sending THEN "dispatching" ELSE "rejected",
                                            !.by = q]]
            /\ decision' = [decision EXCEPT ![q].pc = IF sending THEN "recheck" ELSE "cache",
                                            ![q].result = IF sending THEN @ ELSE "rejected"]
       ELSE UNCHANGED op /\ DecisionGoto(q, "over")
    /\ UNCHANGED <<channel, draft, sends>>

(* "La conexion cambio antes del envio": nothing was sent. *)
RecheckChannel(q) ==
    /\ DecisionAt(q, "recheck")
    /\ decision' = [decision EXCEPT ![q].pc = IF Reviewed(q) THEN "send" ELSE "save",
                                    ![q].result = "failed"]
    /\ UNCHANGED <<channel, draft, op, sends>>

(* The second look at the connection throws: no more is known. *)
RecheckChannelThrows(q) ==
    /\ DecisionAt(q, "recheck")
    /\ decision' = [decision EXCEPT ![q].pc = "save", ![q].result = "outcome_unknown"]
    /\ UNCHANGED <<channel, draft, op, sends>>

(* Mutant of SendOutcome: whatever throws is a failure. *)
SendOutcome_AllFailed(answer) == IF answer = "sent" THEN "accepted" ELSE "failed"

(* A refusal (4xx) is a failure; no answer, or an odd one, is unknown. *)
SendOutcome(answer) ==
    CASE answer = "sent" -> "accepted" [] answer = "refused" -> "failed" [] OTHER -> "outcome_unknown"

(* sendText: sent, refused, or without an answer, sent or not. *)
SendText(q, answer) ==
    /\ DecisionAt(q, "send")
    /\ sends' = IF answer \in {"sent", "sent_unanswered"}
                THEN [sends EXCEPT ![DraftOf(q)] = @ + 1] ELSE sends
    /\ decision' = [decision EXCEPT ![q].pc = "save", ![q].result = SendOutcome(answer)]
    /\ UNCHANGED <<channel, draft, op>>

(* Mutant of StillMine: the status is not compared. *)
StillMine_Attempt(q) == op[DraftOf(q)].by = q

(* compareAndSwap on the status and the attempt. *)
StillMine(q) == op[DraftOf(q)].status = "dispatching" /\ op[DraftOf(q)].by = q

(* approve(): the result is saved, unless it came too late. *)
SaveResult(q) ==
    /\ DecisionAt(q, "save")
    /\ IF StillMine(q)
       THEN op' = [op EXCEPT ![DraftOf(q)].status = decision[q].result] /\ DecisionGoto(q, "cache")
       ELSE UNCHANGED op /\ DecisionGoto(q, "over")
    /\ UNCHANGED <<channel, draft, sends>>

(* cacheStatus *)
CacheStatus(q) ==
    /\ DecisionAt(q, "cache")
    /\ draft' = IF draft[DraftOf(q)].status = "awaiting_review"
                THEN [draft EXCEPT ![DraftOf(q)].status = decision[q].result] ELSE draft
    /\ DecisionGoto(q, "over")
    /\ UNCHANGED <<channel, op, sends>>

(* reconcile(): an operator has checked an unknown or an old attempt ... *)
ReadOperation(q, d, result) ==
    /\ DecisionAt(q, "new") /\ ~op[d].verdict
    /\ op[d].status = "outcome_unknown" \/ (op[d].status = "dispatching" /\ op[d].old)
    /\ decision' = [decision EXCEPT ![q].kind = "reconcile", ![q].draft = d, ![q].seen = op[d],
                                    ![q].result = result, ![q].pc = "swap"]
    /\ UNCHANGED <<channel, draft, op, sends>>

(* ... and the verdict is swapped in if the status is still the one it read. *)
SwapVerdict(q) ==
    /\ DecisionAt(q, "swap")
    /\ LET now == op[DraftOf(q)] IN
       IF now.status = decision[q].seen.status /\ now.by = decision[q].seen.by
       THEN op' = [op EXCEPT ![DraftOf(q)].status = decision[q].result, ![DraftOf(q)].verdict = TRUE]
       ELSE UNCHANGED op
    /\ DecisionGoto(q, "over")
    /\ UNCHANGED <<channel, draft, sends>>

(* The process dies, or a statement throws. *)
DecisionDies(q) ==
    /\ decision[q].pc \notin {"new", "over"}
    /\ DecisionGoto(q, "over")
    /\ UNCHANGED <<channel, draft, op, sends>>

OutboundNext ==
    \/ \E on \in BOOLEAN : Provision(on)
    \/ \E d \in Drafts : PrepareDraft(d) \/ DraftExpires(d) \/ MinutePasses(d)
    \/ \E q \in Decisions :
          \/ \E d \in Drafts : \/ \E kind \in {"approve", "reject"} : ReadDraft(q, kind, d)
                              \/ \E result \in {"accepted", "failed"} : ReadOperation(q, d, result)
          \/ ReadLedger(q) \/ CheckConnection(q) \/ InsertOperation(q) \/ RecheckChannel(q) \/ RecheckChannelThrows(q)
          \/ \E answer \in {"sent", "refused", "unanswered", "sent_unanswered"} : SendText(q, answer)
          \/ SaveResult(q) \/ CacheStatus(q) \/ SwapVerdict(q) \/ DecisionDies(q)

OutboundSpec == OutboundInit /\ [][OutboundNext]_outVars

----------------------------------------------------------------------------
(* "From this point no retry may dispatch again, even after a crash": a draft  *)
(* is sent at most once, however often it is approved, whatever dies, and      *)
(* whatever the operator found.                                                *)
SentOnce == \A d \in Drafts : sends[d] <= 1

(* The ledger is honest: before an operator judged it, "accepted" means sent,  *)
(* and "failed" and "rejected" mean not sent.  What may have been sent stays   *)
(* "dispatching" or "outcome_unknown".                                         *)
LedgerIsHonest ==
    \A d \in Drafts : ~op[d].verdict =>
       /\ op[d].status = "accepted" => sends[d] = 1
       /\ op[d].status \in {"failed", "rejected", "absent"} => sends[d] = 0

(* An operator's verdict stands: the late answer of the attempt that it judged *)
(* does not replace it.                                                        *)
VerdictStands ==
    [][\A d \in Drafts : op[d].verdict => op'[d].verdict /\ op'[d].status = op[d].status]_outVars
============================================================================
