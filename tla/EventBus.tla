------------------------------ MODULE EventBus ------------------------------
(* apps/server/src/engine/events/bus.ts: emit() with a dedupe key.  A key is   *)
(* looked up in the owner's "lru" row and in a map of the process, the event   *)
(* is written, and the key is recorded in both, the row by compareAndSwap.     *)
(* Emissions of one process and of several interleave between those steps.     *)
(*                                                                             *)
(* Payloads, subscribers and notices are left out: they do not feed back.  An  *)
(* emission without a key is only the write.                                   *)
EXTENDS Naturals, Sequences, FiniteSets, Functions

CONSTANTS
    BusProcs,       \* processes, each with its own map
    BusOwners,
    DedupeKeys,
    Emits,          \* emissions in flight
    Ttl,            \* DEDUPE_TTL_MS
    MaxEntries,     \* DEDUPE_MAX_ENTRIES, of the row and of the map
    Attempts,       \* attempts of recordDedupe (3)
    MaxClock,       \* bound: the clock stops there
    MaxEmits        \* bound: emissions

ASSUME BusAssumption ==
    /\ BusProcs # {} /\ BusOwners # {} /\ DedupeKeys # {}
    /\ Ttl \in Nat \ {0} /\ MaxEntries \in Nat \ {0} /\ Attempts \in Nat \ {0}
    /\ MaxClock \in Nat \ {0} /\ MaxEmits \in Nat

VARIABLES
    clock,          \* Date.now(); 0 stands for "never"
    lru,            \* the owner's row: its entries, oldest first
    mem,            \* inMemory: when each key was seen last
    emit,           \* what each emission is doing
    stamps,         \* history: the times at which each key was recorded
    emitted         \* emissions so far

busVars == <<clock, lru, mem, emit, stamps, emitted>>

Entry == [key : DedupeKeys, at : 1..MaxClock]
NoSeen == <<>>      \* no row, or one without entries

NoEmit == [pc |-> "off", proc |-> CHOOSE p \in BusProcs : TRUE,
           owner |-> CHOOSE o \in BusOwners : TRUE, key |-> CHOOSE k \in DedupeKeys : TRUE,
           at |-> 0, seen |-> NoSeen, attempt |-> 0]

BusTypeOK ==
    /\ clock \in 1..MaxClock
    /\ lru \in [BusOwners -> Seq(Entry)] /\ \A o \in BusOwners : Len(lru[o]) <= MaxEntries
    /\ mem \in [BusProcs -> [DedupeKeys -> 0..MaxClock]]
    /\ emit \in [Emits -> [pc : {"off", "look", "write", "stamp", "read", "swap"}, proc : BusProcs,
                           owner : BusOwners, key : DedupeKeys, at : 0..MaxClock,
                           seen : Seq(Entry), attempt : 0..Attempts]]
    /\ stamps \in [DedupeKeys -> SUBSET (1..MaxClock)]
    /\ emitted \in 0..MaxEmits

BusInit ==
    /\ clock = 1
    /\ lru = [o \in BusOwners |-> NoSeen]
    /\ mem = [p \in BusProcs |-> [k \in DedupeKeys |-> 0]]
    /\ emit = [e \in Emits |-> NoEmit]
    /\ stamps = [k \in DedupeKeys |-> {}]
    /\ emitted = 0

Ms ==
    /\ clock < MaxClock /\ clock' = clock + 1
    /\ UNCHANGED <<lru, mem, emit, stamps, emitted>>

EmitOff(e) == emit' = [emit EXCEPT ![e] = NoEmit]
EmitGoto(e, pc) == emit' = [emit EXCEPT ![e].pc = pc]

(* emit(): the payload is parsed, and isDuplicate reads the clock.            *)
Emit(e, p, o, k) ==
    /\ emit[e].pc = "off" /\ emitted < MaxEmits
    /\ emit' = [emit EXCEPT ![e] = [NoEmit EXCEPT !.pc = "look", !.proc = p, !.owner = o,
                                                  !.key = k, !.at = clock]]
    /\ emitted' = emitted + 1
    /\ UNCHANGED <<clock, lru, mem, stamps>>

Fresh(now, at) == at # 0 /\ now < at + Ttl
RowHit(e) == \E i \in DOMAIN lru[emit[e].owner] :
                LET x == lru[emit[e].owner][i] IN x.key = emit[e].key /\ Fresh(emit[e].at, x.at)
MemHit(e) == Fresh(emit[e].at, mem[emit[e].proc][emit[e].key])

(* The row has the key: the map is refreshed and the event is dropped. *)
DropByRow(e) ==
    /\ emit[e].pc = "look" /\ RowHit(e)
    /\ mem' = [mem EXCEPT ![emit[e].proc][emit[e].key] = emit[e].at]
    /\ EmitOff(e)
    /\ UNCHANGED <<clock, lru, stamps, emitted>>

(* Mutant of DropByMap: the map is refreshed here too. *)
DropByMap_Refreshed(e) ==
    /\ emit[e].pc = "look" /\ ~RowHit(e) /\ MemHit(e)
    /\ mem' = [mem EXCEPT ![emit[e].proc][emit[e].key] = emit[e].at]
    /\ EmitOff(e)
    /\ UNCHANGED <<clock, lru, stamps, emitted>>

(* Only the map has it. *)
DropByMap(e) ==
    /\ emit[e].pc = "look" /\ ~RowHit(e) /\ MemHit(e)
    /\ EmitOff(e)
    /\ UNCHANGED <<clock, lru, mem, stamps, emitted>>
PassOn(e) ==
    /\ emit[e].pc = "look" /\ ~RowHit(e) /\ ~MemHit(e)
    /\ EmitGoto(e, "write")
    /\ UNCHANGED <<clock, lru, mem, stamps, emitted>>

(* sink.write, then the subscribers. *)
Write(e) ==
    /\ emit[e].pc = "write"
    /\ EmitGoto(e, "stamp")
    /\ UNCHANGED <<clock, lru, mem, stamps, emitted>>

(* One key, the oldest, leaves a map that has grown too large. *)
Evicted(m) ==
    IF Cardinality({k \in DedupeKeys : m[k] # 0}) <= MaxEntries THEN m
    ELSE LET oldest == CHOOSE k \in DedupeKeys :
                          m[k] # 0 /\ \A j \in DedupeKeys : m[j] # 0 => m[k] <= m[j]
         IN [m EXCEPT ![oldest] = 0]

(* recordDedupe: the map first ... *)
Stamp(e) ==
    /\ emit[e].pc = "stamp"
    /\ mem' = [mem EXCEPT ![emit[e].proc] = Evicted([@ EXCEPT ![emit[e].key] = clock])]
    /\ stamps' = [stamps EXCEPT ![emit[e].key] = @ \cup {clock}]
    /\ emit' = [emit EXCEPT ![e].pc = "read", ![e].at = clock]
    /\ UNCHANGED <<clock, lru, emitted>>

(* ... then the row: read it, unless the key is there ... *)
ReadRow(e) ==
    /\ emit[e].pc = "read"
    /\ IF RowHit(e) THEN EmitOff(e)
       ELSE emit' = [emit EXCEPT ![e].pc = "swap", ![e].seen = lru[emit[e].owner]]
    /\ UNCHANGED <<clock, lru, mem, stamps, emitted>>

(* filter(): the n-th entry that stays is the one with n of them up to it.     *)
StillFresh(seen, now) ==
    LET kept == {i \in 1..Len(seen) : Fresh(now, seen[i].at)}
    IN [n \in 1..Cardinality(kept) |->
          seen[CHOOSE i \in kept : Cardinality({j \in kept : j <= i}) = n]]

(* The entries that are written: fresh ones and the key, the last MaxEntries. *)
Trimmed(e) ==
    LET all == Append(StillFresh(emit[e].seen, emit[e].at), [key |-> emit[e].key, at |-> emit[e].at])
    IN SubSeq(all, IF Len(all) > MaxEntries THEN Len(all) - MaxEntries + 1 ELSE 1, Len(all))

(* data @> expected: each entry that was read is among those in the row.      *)
RowContains(o, seen) == Range(seen) \subseteq Range(lru[o])

(* insertIfAbsent or compareAndSwap; a lost one is tried again. *)
SwapRow(e) ==
    /\ emit[e].pc = "swap"
    /\ LET o == emit[e].owner
           fits == IF emit[e].seen = NoSeen THEN lru[o] = NoSeen ELSE RowContains(o, emit[e].seen) IN
       IF fits THEN lru' = [lru EXCEPT ![o] = Trimmed(e)] /\ EmitOff(e)
       ELSE /\ lru' = lru
            /\ IF emit[e].attempt + 1 < Attempts
               THEN emit' = [emit EXCEPT ![e].pc = "read", ![e].attempt = @ + 1, ![e].seen = NoSeen]
               ELSE EmitOff(e)
    /\ UNCHANGED <<clock, mem, stamps, emitted>>

(* Any statement throws: emit() swallows it.  A process dies: its map is gone. *)
EmitThrows(e) ==
    /\ emit[e].pc # "off"
    /\ EmitOff(e)
    /\ UNCHANGED <<clock, lru, mem, stamps, emitted>>
Restart(p) ==
    /\ \E k \in DedupeKeys : mem[p][k] # 0
    /\ mem' = [mem EXCEPT ![p] = [k \in DedupeKeys |-> 0]]
    /\ emit' = [e \in Emits |-> IF emit[e].proc = p THEN NoEmit ELSE emit[e]]
    /\ UNCHANGED <<clock, lru, stamps, emitted>>

BusNext ==
    \/ Ms
    \/ \E e \in Emits :
          \/ \E p \in BusProcs, o \in BusOwners, k \in DedupeKeys : Emit(e, p, o, k)
          \/ DropByRow(e) \/ DropByMap(e) \/ PassOn(e) \/ Write(e) \/ Stamp(e) \/ ReadRow(e)
          \/ SwapRow(e) \/ EmitThrows(e)
    \/ \E p \in BusProcs : Restart(p)

BusSpec == BusInit /\ [][BusNext]_busVars

----------------------------------------------------------------------------
(* An emission is dropped only because its key was recorded less than two      *)
(* windows before (two hits, each less than a window away): a hit of the row   *)
(* refreshes the map once, a hit of the map refreshes nothing, so retries      *)
(* cannot silence a key for ever.                                              *)
DropHasReason ==
    [][\A e \in Emits : (DropByRow(e) \/ DropByMap(e)) =>
          \E t \in stamps[emit[e].key] : emit[e].at <= t + 2 * (Ttl - 1)]_busVars
============================================================================
