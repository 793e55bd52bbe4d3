----------------------------- MODULE ModelChain -----------------------------
(* apps/server/src/engine/model-chain.ts: runWithModelFallback.  A run tries   *)
(* the specifiers in order, one attempt each, until one gives output that the  *)
(* client sees; a timer bounds the wait for it, and a counter per provider     *)
(* (the bulkhead) sends runs on to the next specifier.  Runs share the         *)
(* counters and interleave at every event of the providers.                    *)
(*                                                                             *)
(* attemptId and index advance together, so an attempt is named by its         *)
(* specifier.  Nothing records failures in the circuit breakers, so they are   *)
(* never open and are left out.  Providers, and the agents that run them, are  *)
(* external: they emit, fail or hang.                                          *)
EXTENDS Naturals, FiniteSets

CONSTANTS
    Runs,           \* calls of runWithModelFallback in the life of a process
    NSpecs,         \* effectiveSpecs.length; each specifier has its own provider
    BulkheadMax     \* LLM_BULKHEAD_PER_PROVIDER

ASSUME ModelAssumption ==
    IsFiniteSet(Runs) /\ NSpecs \in Nat \ {0} /\ BulkheadMax \in Nat \ {0}

Specs == 1..NSpecs

VARIABLES
    current,        \* the specifier of the last attempt of each run, 0 before the first
    stream,         \* what the subscriber of each run sees
    attempt,        \* the attempts
    bulkhead,       \* the counters
    voice           \* history: attempts whose output the client got

modelVars == <<current, stream, attempt, bulkhead, voice>>

(* live: the provider may still emit for it; armed: its timer is set. *)
NoAttempt == [live |-> FALSE, answered |-> FALSE, armed |-> FALSE]

ModelTypeOK ==
    /\ current \in [Runs -> 0..NSpecs]
    /\ stream \in [Runs -> {"new", "open", "closed"}]
    /\ attempt \in [Runs -> [Specs -> [live : BOOLEAN, answered : BOOLEAN, armed : BOOLEAN]]]
    /\ bulkhead \in [Specs -> 0..Cardinality(Runs)]
    /\ voice \in [Runs -> SUBSET Specs]

ModelInit ==
    /\ current = [r \in Runs |-> 0]
    /\ stream = [r \in Runs |-> "new"]
    /\ attempt = [r \in Runs |-> [i \in Specs |-> NoAttempt]]
    /\ bulkhead = [i \in Specs |-> 0]
    /\ voice = [r \in Runs |-> {}]

----------------------------------------------------------------------------
(* attempt(): full providers are passed over, except the last. *)
Chosen(counts, from) ==
    CHOOSE i \in from..NSpecs :
       /\ i = NSpecs \/ counts[i] < BulkheadMax
       /\ \A j \in from..(i - 1) : counts[j] >= BulkheadMax

(* A new attempt, from the given specifier on; the attempts so far are given,  *)
(* and the counters.                                                           *)
StartAttempt(r, from, attempts, counts) ==
    LET i == Chosen(counts, from) IN
    /\ current' = [current EXCEPT ![r] = i]
    /\ attempt' = [attempt EXCEPT ![r] = [attempts EXCEPT ![i] = [live |-> TRUE, answered |-> FALSE,
                                                                  armed |-> TRUE]]]
    /\ bulkhead' = [counts EXCEPT ![i] = @ + 1]

Freed(i) == [bulkhead EXCEPT ![i] = IF @ = 0 THEN 0 ELSE @ - 1]
Disarmed(r, i) == [attempt[r] EXCEPT ![i].armed = FALSE]
Over(r, i) == [attempt[r] EXCEPT ![i].armed = FALSE, ![i].live = FALSE]

HasFallback(r) == current[r] < NSpecs

(* The client subscribes. *)
Subscribe(r) ==
    /\ stream[r] = "new"
    /\ stream' = [stream EXCEPT ![r] = "open"]
    /\ StartAttempt(r, 1, attempt[r], bulkhead)
    /\ UNCHANGED voice

(* The client leaves: the current agent is aborted; the timer is not cleared.  *)
Leave(r) ==
    /\ stream[r] = "open"
    /\ stream' = [stream EXCEPT ![r] = "closed"]
    /\ attempt' = [attempt EXCEPT ![r][current[r]].live = FALSE]
    /\ UNCHANGED <<current, bulkhead, voice>>

(* Mutant of Mine: the events of every attempt are taken. *)
Mine_Any(r, i) == attempt[r][i].live

(* myId = attemptId: late events of an attempt that was given up are ignored.  *)
Mine(r, i) == attempt[r][i].live /\ i = current[r]

(* next: output, which goes to the client while it listens. *)
Output(r, i) ==
    /\ Mine(r, i)
    /\ attempt' = [attempt EXCEPT ![r] = [Disarmed(r, i) EXCEPT ![i].answered = TRUE]]
    /\ voice' = [voice EXCEPT ![r] = IF stream[r] = "open" THEN @ \cup {i} ELSE @]
    /\ UNCHANGED <<current, stream, bulkhead>>

(* next: RUN_ERROR starts the next attempt if nothing was shown yet; the       *)
(* counter keeps its count.  Otherwise the client gets it.                     *)
RunError(r, i) ==
    /\ Mine(r, i)
    /\ ~attempt[r][i].answered /\ HasFallback(r)
    /\ StartAttempt(r, i + 1, Disarmed(r, i), bulkhead)
    /\ UNCHANGED <<stream, voice>>

(* error *)
Throw(r, i) ==
    /\ Mine(r, i)
    /\ IF stream[r] = "open" /\ ~attempt[r][i].answered /\ HasFallback(r)
       THEN StartAttempt(r, i + 1, Over(r, i), Freed(i)) /\ UNCHANGED stream
       ELSE /\ attempt' = [attempt EXCEPT ![r] = Over(r, i)]
            /\ bulkhead' = Freed(i)
            /\ stream' = [stream EXCEPT ![r] = "closed"]
            /\ UNCHANGED current
    /\ UNCHANGED voice

(* complete: the counter keeps its count. *)
Complete(r, i) ==
    /\ Mine(r, i)
    /\ attempt' = [attempt EXCEPT ![r] = Over(r, i)]
    /\ stream' = [stream EXCEPT ![r] = "closed"]
    /\ UNCHANGED <<current, bulkhead, voice>>

(* The timer: the agent is aborted, and the next attempt begins, even when the *)
(* client has left.                                                            *)
FirstByteTimeout(r, i) ==
    /\ attempt[r][i].armed
    /\ IF i = current[r] /\ ~attempt[r][i].answered /\ HasFallback(r)
       THEN StartAttempt(r, i + 1, Disarmed(r, i), Freed(i)) /\ UNCHANGED stream
       ELSE /\ bulkhead' = Freed(i)
            /\ IF i = current[r] /\ ~attempt[r][i].answered
               THEN /\ attempt' = [attempt EXCEPT ![r] = Over(r, i)]
                    /\ stream' = [stream EXCEPT ![r] = "closed"]
               ELSE attempt' = [attempt EXCEPT ![r] = Disarmed(r, i)] /\ UNCHANGED stream
            /\ UNCHANGED current
    /\ UNCHANGED voice

(* An attempt that was given up stops at last: unsubscribe() misses it when    *)
(* its events come while subscribe() has not returned yet.                     *)
GivenUp(r, i) ==
    /\ attempt[r][i].live /\ i # current[r]
    /\ attempt' = [attempt EXCEPT ![r][i].live = FALSE]
    /\ UNCHANGED <<current, stream, bulkhead, voice>>

ModelNext ==
    \E r \in Runs :
       \/ Subscribe(r) \/ Leave(r)
       \/ \E i \in Specs : \/ Output(r, i) \/ RunError(r, i) \/ Throw(r, i) \/ Complete(r, i)
                           \/ FirstByteTimeout(r, i) \/ GivenUp(r, i)

ModelSpec == ModelInit /\ [][ModelNext]_modelVars

----------------------------------------------------------------------------
(* "A half-streamed answer is never restarted": what a client sees comes from  *)
(* one attempt, which is also the last, whatever order the events of the       *)
(* attempts, their timers and other runs come in.                              *)
OneVoice == \A r \in Runs : \A i \in voice[r] : current[r] = i
============================================================================
