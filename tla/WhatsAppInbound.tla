--------------------------- MODULE WhatsAppInbound ---------------------------
(* apps/server/src/engine/whatsapp-inbound.ts, behind the webhooks of           *)
(* whatsapp-routes.ts: a delivery leaves an inbox row for each of its messages, *)
(* creates a task under a key of the message, and marks the row queued.         *)
(* Signatures, bindings and limits are checks before the first write.           *)
EXTENDS Naturals, FiniteSets

CONSTANTS
    Messages,       \* messages that the provider delivers
    Deliveries,     \* deliveries in flight at once
    MaxDeliveries   \* bound: deliveries

ASSUME InboundAssumption == MaxDeliveries \in Nat

VARIABLES
    inbox,          \* "whatsapp-inbox", one row per message
    waTasks,        \* messages that have their task
    delivery,       \* the webhook calls
    delivered,      \* deliveries so far
    acked           \* messages for which a delivery was answered with 200

inVars == <<inbox, waTasks, delivery, delivered, acked>>

NoDelivery == [pc |-> "off", batch |-> {}, rest |-> {}]

InboundTypeOK ==
    /\ inbox \in [Messages -> {"absent", "received", "queued"}]
    /\ waTasks \subseteq Messages
    /\ delivery \in [Deliveries -> [pc : {"off", "insert", "create", "mark"}, batch : SUBSET Messages,
                                    rest : SUBSET Messages]]
    /\ delivered \in 0..MaxDeliveries
    /\ acked \subseteq Messages

InboundInit ==
    /\ inbox = [m \in Messages |-> "absent"]
    /\ waTasks = {}
    /\ delivery = [v \in Deliveries |-> NoDelivery]
    /\ delivered = 0
    /\ acked = {}

----------------------------------------------------------------------------
(* receive(): the provider delivers a batch, again and again until it gets 200. *)
Receive(v, batch) ==
    /\ delivery[v].pc = "off" /\ batch # {} /\ delivered < MaxDeliveries
    /\ delivered' = delivered + 1
    /\ delivery' = [delivery EXCEPT ![v] = [pc |-> "insert", batch |-> batch, rest |-> batch]]
    /\ UNCHANGED <<inbox, waTasks, acked>>

Current(v) == CHOOSE m \in delivery[v].rest : TRUE

(* The message is done; 200 after the last one. *)
NextMessage(v) ==
    LET rest == delivery[v].rest \ {Current(v)} IN
    IF rest = {} THEN /\ delivery' = [delivery EXCEPT ![v] = NoDelivery]
                      /\ acked' = acked \cup delivery[v].batch
    ELSE /\ delivery' = [delivery EXCEPT ![v].pc = "insert", ![v].rest = rest]
         /\ acked' = acked

(* Mutant of Known: the row is the claim. *)
Known_Row(m) == inbox[m] # "absent"

(* status "queued", with the task: an earlier delivery did it all. *)
Known(m) == inbox[m] = "queued"

(* enqueueIncoming: the inbox row is inserted, or read if there is one. *)
InsertInbox(v) ==
    /\ delivery[v].pc = "insert"
    /\ IF Known(Current(v)) THEN NextMessage(v) /\ inbox' = inbox
       ELSE /\ inbox' = [inbox EXCEPT ![Current(v)] = "received"]
            /\ delivery' = [delivery EXCEPT ![v].pc = "create"]
            /\ acked' = acked
    /\ UNCHANGED <<waTasks, delivered>>

(* createTask, under "whatsapp-inbound:<id>", a key that every delivery of the *)
(* message has: the task is inserted, or is the one that there is.             *)
CreateTask(v) ==
    /\ delivery[v].pc = "create"
    /\ waTasks' = waTasks \cup {Current(v)}
    /\ delivery' = [delivery EXCEPT ![v].pc = "mark"]
    /\ UNCHANGED <<inbox, delivered, acked>>
MarkQueued(v) ==
    /\ delivery[v].pc = "mark"
    /\ inbox' = [inbox EXCEPT ![Current(v)] = "queued"]
    /\ NextMessage(v)
    /\ UNCHANGED <<waTasks, delivered>>

(* The process dies, a statement throws, or createTask refuses. *)
DeliveryFails(v) ==
    /\ delivery[v].pc # "off"
    /\ delivery' = [delivery EXCEPT ![v] = NoDelivery]
    /\ UNCHANGED <<inbox, waTasks, delivered, acked>>

InboundNext ==
    \E v \in Deliveries :
       \/ \E batch \in SUBSET Messages : Receive(v, batch)
       \/ InsertInbox(v) \/ CreateTask(v) \/ MarkQueued(v) \/ DeliveryFails(v)

InboundSpec == InboundInit /\ [][InboundNext]_inVars

----------------------------------------------------------------------------
(* A delivery is answered with 200, and a later one is passed over, only when *)
(* the message has its task, whatever is redelivered, overlaps or dies between *)
(* the inbox row, the task and the mark.                                       *)
AnsweredHasTask ==
    acked \cup {m \in Messages : inbox[m] = "queued"} \subseteq waTasks
============================================================================
