----------------------------- MODULE MCServices -----------------------------
(* The services beside the task engine: the audit chain, the computer, the     *)
(* event bus, the Google credential, WhatsApp in both directions and the chain *)
(* of models.  They share no row and no memory, so their interleavings add     *)
(* nothing: a behaviour exercises one of them.                                 *)
EXTENDS AuditChain, Computer, EventBus, GoogleAuth, WhatsAppOutbound, WhatsAppInbound, ModelChain

VARIABLE focus      \* the service that moves in this behaviour

servicesVars == <<auditVars, computerVars, busVars, googleVars, outVars, inVars, modelVars, focus>>

(* A tenant whose chain began with the anchor. *)
NewTenant == <<>>

ServicesInit ==
    /\ AuditInit /\ ComputerInit /\ BusInit /\ GoogleInit /\ OutboundInit /\ InboundInit /\ ModelInit
    /\ focus \in {"audit", "computer", "bus", "google", "outbound", "inbound", "model"}
    /\ focus # "computer" => box = "stopped"

ServicesNext ==
    \/ /\ focus = "audit" /\ AuditNext
       /\ UNCHANGED <<computerVars, busVars, googleVars, outVars, inVars, modelVars, focus>>
    \/ /\ focus = "computer" /\ ComputerNext
       /\ UNCHANGED <<auditVars, busVars, googleVars, outVars, inVars, modelVars, focus>>
    \/ /\ focus = "bus" /\ BusNext
       /\ UNCHANGED <<auditVars, computerVars, googleVars, outVars, inVars, modelVars, focus>>
    \/ /\ focus = "google" /\ GoogleNext
       /\ UNCHANGED <<auditVars, computerVars, busVars, outVars, inVars, modelVars, focus>>
    \/ /\ focus = "outbound" /\ OutboundNext
       /\ UNCHANGED <<auditVars, computerVars, busVars, googleVars, inVars, modelVars, focus>>
    \/ /\ focus = "inbound" /\ InboundNext
       /\ UNCHANGED <<auditVars, computerVars, busVars, googleVars, outVars, modelVars, focus>>
    \/ /\ focus = "model" /\ ModelNext
       /\ UNCHANGED <<auditVars, computerVars, busVars, googleVars, outVars, inVars, focus>>

ServicesSpec == ServicesInit /\ [][ServicesNext]_servicesVars

(* Every row and every call has its type: in particular the lease of the       *)
(* computer is only ever replaced by a lease (acquire, cleanup, release).      *)
ServicesTypeOK ==
    /\ AuditTypeOK /\ ComputerTypeOK /\ BusTypeOK /\ GoogleTypeOK
    /\ OutboundTypeOK /\ InboundTypeOK /\ ModelTypeOK
=============================================================================
