---------------------------- MODULE AuditProofs ----------------------------
(* The audit chain does not fork, for any number of appends, attempts and    *)
(* entries from before the anchor.                                           *)
EXTENDS AuditChain, FiniteSetTheorems, TLAPS

(* An append has moved the anchor and its entry is yet to be put. *)
Flying(p) == app[p].pc = "put"

(* Everything the chain names has been drawn: a fresh hash is named nowhere. *)
Named ==
    /\ IsFiniteSet(drawn)
    /\ anchor # NoHash => anchor \in drawn
    /\ Entries \subseteq drawn
    /\ \A h \in Entries : prev[h] \in drawn \cup {NoHash}
    /\ \A p \in Appenders : Flying(p) =>
          app[p].hash \in drawn \ Entries /\ app[p].prev \in drawn \cup {NoHash}

(* NoFork, with the entries still to be put. *)
Linear ==
    /\ NoFork
    /\ \A p \in Appenders : Flying(p) => \A h \in Entries : prev[h] # app[p].prev
    /\ \A p, q \in Appenders : Flying(p) /\ Flying(q) /\ p # q =>
          app[p].hash # app[q].hash /\ app[p].prev # app[q].prev

(* The anchor is the free end of the chain: nothing extends it.  While there *)
(* is none, an append that takes itself for the first has seen an empty log. *)
FreeEnd ==
    IF anchor # NoHash
    THEN /\ \A h \in Entries : prev[h] # anchor
         /\ \A p \in Appenders : Flying(p) => app[p].prev # anchor
    ELSE \A p \in Appenders :
            /\ ~Flying(p)
            /\ app[p].pc \in {"read", "swap"} /\ app[p].prev = NoHash => log = <<>>

(* The inductive invariant behind NoFork. *)
AuditInv == AuditTypeOK /\ Named /\ Linear /\ FreeEnd

----------------------------------------------------------------------------
(* In a chain from before the anchor every entry but the first names the one *)
(* before it.                                                                *)
LEMMA LegacyPrev ==
    ASSUME AuditInit, NEW i \in 1 .. Len(Legacy)
    PROVE  prev[Legacy[i]] = IF i = 1 THEN NoHash ELSE Legacy[i - 1]
<1>1. Legacy[i] \in Hashes /\ Len(Legacy) \in Nat
  BY AuditAssumption
<1>2. CASE i = 1
  <2>1. ~ \E j \in 2 .. Len(Legacy) : Legacy[j] = Legacy[i]
    BY <1>1, <1>2, AuditAssumption
  <2>2. QED
    BY <1>1, <1>2, <2>1 DEF AuditInit
<1>3. CASE i # 1
  <2>1. i \in 2 .. Len(Legacy)
    BY <1>1, <1>3
  <2> DEFINE j == CHOOSE k \in 2 .. Len(Legacy) : Legacy[k] = Legacy[i]
  <2>2. j \in 2 .. Len(Legacy) /\ Legacy[j] = Legacy[i]
    BY <2>1
  <2>3. j = i
    BY <1>1, <2>1, <2>2, AuditAssumption
  <2>4. prev[Legacy[i]] = Legacy[j - 1]
    BY <1>1, <2>1 DEF AuditInit
  <2>5. QED
    BY <1>3, <2>3, <2>4
<1>4. QED
  BY <1>2, <1>3

(* The invariant holds at first, with or without older entries. *)
LEMMA AuditStart == AuditInit => AuditInv
<1> SUFFICES ASSUME AuditInit PROVE AuditInv
  OBVIOUS
<1>1. AuditTypeOK
  <2>1. prev \in [Hashes -> Hashes \cup {NoHash}]
    <3>1. ASSUME NEW h \in Hashes
          PROVE  prev[h] \in Hashes \cup {NoHash}
      <4>1. CASE \E i \in 2 .. Len(Legacy) : Legacy[i] = h
        <5>1. PICK i \in 2 .. Len(Legacy) : Legacy[i] = h
          BY <4>1
        <5>2. i \in 1 .. Len(Legacy) /\ i # 1 /\ i - 1 \in 1 .. Len(Legacy)
          BY AuditAssumption
        <5>3. prev[h] = Legacy[i - 1]
          BY <5>1, <5>2, LegacyPrev
        <5>4. QED
          BY <5>2, <5>3, AuditAssumption
      <4>2. CASE ~ \E i \in 2 .. Len(Legacy) : Legacy[i] = h
        BY <4>2 DEF AuditInit
      <4>3. QED
        BY <4>1, <4>2
    <3>2. QED
      BY <3>1 DEF AuditInit
  <2>2. NoCall \in Call
    BY DEF NoCall, Call
  <2>3. app \in [Appenders -> Call]
    BY <2>2 DEF AuditInit
  <2>4. \A i \in DOMAIN Legacy : Legacy[i] \in Hashes
    BY AuditAssumption
  <2>5. drawn \subseteq Hashes
    BY <2>4 DEF AuditInit
  <2>6. QED
    BY <2>1, <2>3, <2>5, AuditAssumption DEF AuditInit, AuditTypeOK
<1>2. \A p \in Appenders : app[p].pc = "idle"
  BY DEF AuditInit, NoCall
<1>3. Entries = drawn /\ \A h \in Entries : \E i \in 1 .. Len(Legacy) : h = Legacy[i]
  BY AuditAssumption DEF AuditInit, Entries
<1>4. Named
  <2>1. ASSUME NEW h \in Entries
        PROVE  prev[h] \in drawn \cup {NoHash}
    <3>1. PICK i \in 1 .. Len(Legacy) : h = Legacy[i]
      BY <1>3
    <3>2. CASE i = 1
      BY <3>1, <3>2, LegacyPrev
    <3>3. CASE i # 1
      <4>1. i - 1 \in DOMAIN Legacy
        BY <3>3, AuditAssumption
      <4>2. Legacy[i - 1] \in drawn
        BY <4>1 DEF AuditInit
      <4>3. prev[h] = Legacy[i - 1]
        BY <3>1, <3>3, LegacyPrev
      <4>4. QED
        BY <4>2, <4>3
    <3>4. QED
      BY <3>2, <3>3
  <2>2. IsFiniteSet(drawn)
    <3>1. Legacy \in Surjection(1 .. Len(Legacy), drawn)
      BY AuditAssumption DEF AuditInit, Surjection
    <3>2. IsFiniteSet(1 .. Len(Legacy))
      BY AuditAssumption, FS_Interval
    <3>3. QED
      BY <3>1, <3>2, FS_Surjection
  <2>3. QED
    BY <1>2, <1>3, <2>1, <2>2 DEF AuditInit, Named, Flying
<1>5. Linear
  <2>1. ASSUME NEW g \in Entries, NEW h \in Entries, g # h
        PROVE  prev[g] # prev[h]
    <3>1. PICK i \in 1 .. Len(Legacy) : g = Legacy[i]
      BY <1>3
    <3>2. PICK j \in 1 .. Len(Legacy) : h = Legacy[j]
      BY <1>3
    <3>3. i # j /\ Len(Legacy) \in Nat
      BY <2>1, <3>1, <3>2, AuditAssumption
    <3>4. prev[g] = IF i = 1 THEN NoHash ELSE Legacy[i - 1]
      BY <3>1, LegacyPrev
    <3>5. prev[h] = IF j = 1 THEN NoHash ELSE Legacy[j - 1]
      BY <3>2, LegacyPrev
    <3>6. i # 1 => i - 1 \in 1 .. Len(Legacy) /\ Legacy[i - 1] \in Hashes
      BY <3>3, AuditAssumption
    <3>7. j # 1 => j - 1 \in 1 .. Len(Legacy) /\ Legacy[j - 1] \in Hashes
      BY <3>3, AuditAssumption
    <3>8. QED
      BY <3>3, <3>4, <3>5, <3>6, <3>7, AuditAssumption
  <2>2. QED
    BY <1>2, <2>1 DEF Linear, NoFork, Flying
<1>6. FreeEnd
  BY <1>2 DEF AuditInit, FreeEnd, Flying
<1>7. QED
  BY <1>1, <1>4, <1>5, <1>6 DEF AuditInv

(* A step that leaves the anchor, the entries and the appends that fly alone *)
(* keeps the invariant, if the calls keep their type and no append comes to  *)
(* take itself for the first once there is an entry.                         *)
LEMMA QuietStep ==
    ASSUME AuditInv, NEW p \in Appenders, NEW c \in Call,
           SetCall(p, c), ~Flying(p) \/ c = NoCall, c.pc # "put",
           anchor = NoHash /\ c.pc \in {"read", "swap"} /\ c.prev = NoHash => log = <<>>,
           UNCHANGED <<anchor, anchorAt, log, prev, drawn>>, died' \in BOOLEAN
    PROVE  AuditInv'
<1>1. app \in [Appenders -> Call]
  BY DEF AuditInv, AuditTypeOK
<1>2. app'[p] = c /\ \A q \in Appenders : q # p => app'[q] = app[q]
  BY <1>1 DEF SetCall
<1>3. AuditTypeOK'
  BY <1>1 DEF AuditInv, AuditTypeOK, SetCall
<1>4. Entries' = Entries
  BY DEF Entries
<1>5. \A q \in Appenders : Flying(q)' => Flying(q) /\ q # p /\ app'[q] = app[q]
  BY <1>2 DEF Flying
<1>6. Named'
  BY <1>4, <1>5 DEF AuditInv, Named
<1>7. Linear'
  BY <1>4, <1>5 DEF AuditInv, Linear, NoFork
<1>8. FreeEnd'
  <2>1. CASE anchor # NoHash
    BY <2>1, <1>4, <1>5 DEF AuditInv, FreeEnd
  <2>2. CASE anchor = NoHash
    BY <2>2, <1>2, <1>5 DEF AuditInv, FreeEnd
  <2>3. QED
    BY <2>1, <2>2
<1>9. QED
  BY <1>3, <1>6, <1>7, <1>8 DEF AuditInv

(* Whatever call loses its turn, what Again leaves is a type-correct call. *)
LEMMA NextTurn ==
    ASSUME NEW p, NEW call \in Call
    PROVE  \E c \in Call : /\ c.pc \in {"again", "failed"}
                           /\ c.attempt = call.attempt + 1
                           /\ c.base = call.base /\ c.thrown = call.thrown
                           /\ Again(p, call) => SetCall(p, c)
<1> DEFINE c == [call EXCEPT !.attempt = @ + 1, !.prev = NoHash,
                   !.pc = IF call.attempt + 1 < MaxAttempts THEN "again" ELSE "failed"]
<1>1. /\ call.attempt + 1 \in Nat
      /\ (IF call.attempt + 1 < MaxAttempts THEN "again" ELSE "failed") \in {"again", "failed"}
  BY DEF Call
<1>2. c.pc \in {"again", "failed"} /\ c \in Call
  BY <1>1 DEF Call
<1>3. c.attempt = call.attempt + 1 /\ c.base = call.base /\ c.thrown = call.thrown
  BY DEF Call
<1>4. Again(p, call) => SetCall(p, c)
  BY DEF Again
<1>5. QED
  BY <1>2, <1>3, <1>4

(* A read that threw is counted and changes nothing else of the call. *)
LEMMA ThrownCall ==
    ASSUME NEW call \in Call
    PROVE  LET c == [call EXCEPT !.thrown = @ + 1] IN
           /\ c \in Call /\ c.pc = call.pc /\ c.prev = call.prev
           /\ c.attempt = call.attempt /\ c.base = call.base /\ c.thrown = call.thrown + 1
BY DEF Call

LEMMA ThrownTip ==
    ASSUME NEW call \in Call
    PROVE  LET c == [call EXCEPT !.thrown = @ + 1, !.pc = "tip"] IN
           /\ c \in Call /\ c.pc = "tip"
           /\ c.attempt = call.attempt /\ c.base = call.base /\ c.thrown = call.thrown + 1
<1> DEFINE c == [call EXCEPT !.thrown = @ + 1, !.pc = "tip"]
<1>1. call.thrown + 1 \in Nat
  BY DEF Call
<1>2. c \in Call
  BY <1>1 DEF Call
<1>3. c.pc = "tip" /\ c.attempt = call.attempt /\ c.base = call.base
  BY DEF Call
<1>4. c.thrown = call.thrown + 1
  BY DEF Call
<1>5. QED
  BY <1>2, <1>3, <1>4

(* The reads of append(), and its end on an error, are quiet. *)
LEMMA ReadTipStep ==
    ASSUME AuditInv, NEW p \in Appenders, ReadTip(p)
    PROVE  AuditInv'
<1> DEFINE call == IF app[p].pc = "again" THEN app[p]
                   ELSE [NoCall EXCEPT !.base = Cardinality(drawn)]
<1>1. app[p] \in Call /\ ~Flying(p) /\ anchor \in Hashes \cup {NoHash} /\ died \in BOOLEAN
  BY DEF AuditInv, AuditTypeOK, ReadTip, Flying
<1>2. call \in Call
  <2>1. Cardinality(drawn) \in Nat
    BY FS_CardinalityType DEF AuditInv, Named
  <2>2. [NoCall EXCEPT !.base = Cardinality(drawn)] \in Call
    BY <2>1 DEF NoCall, Call
  <2>3. QED
    BY <1>1, <2>2
<1>3. CASE anchor # NoHash /\ SetCall(p, [call EXCEPT !.pc = "read", !.prev = anchor])
  <2>1. [call EXCEPT !.pc = "read", !.prev = anchor] \in Call
    BY <1>1, <1>2 DEF Call
  <2>2. [call EXCEPT !.pc = "read", !.prev = anchor].pc = "read"
    BY <1>2 DEF Call
  <2>3. QED
    BY <1>1, <1>3, <2>1, <2>2, QuietStep DEF ReadTip
<1>4. CASE SetCall(p, [call EXCEPT !.pc = "tip"])
  <2>1. [call EXCEPT !.pc = "tip"] \in Call
    BY <1>2 DEF Call
  <2>2. [call EXCEPT !.pc = "tip"].pc = "tip"
    BY <1>2 DEF Call
  <2>3. QED
    BY <1>1, <1>4, <2>1, <2>2, QuietStep DEF ReadTip
<1>5. CASE SetCall(p, [call EXCEPT !.thrown = @ + 1, !.pc = "tip"])
  <2> HIDE DEF call
  <2>1. [call EXCEPT !.thrown = @ + 1, !.pc = "tip"] \in Call
    BY <1>2, ThrownTip
  <2>2. [call EXCEPT !.thrown = @ + 1, !.pc = "tip"].pc = "tip"
    BY <1>2, ThrownTip
  <2>3. QED
    BY <1>1, <1>5, <2>1, <2>2, QuietStep DEF ReadTip
<1>6. QED
  BY <1>3, <1>4, <1>5 DEF ReadTip

LEMMA ListLastStep ==
    ASSUME AuditInv, NEW p \in Appenders, ListLast(p)
    PROVE  AuditInv'
<1> DEFINE c == [app[p] EXCEPT !.pc = "read", !.prev = LastRowHash]
<1>1. app[p] \in Call /\ ~Flying(p) /\ died \in BOOLEAN
  BY DEF AuditInv, AuditTypeOK, ListLast, Flying
<1>2. /\ LastRowHash \in Hashes \cup {NoHash}
      /\ anchor = NoHash /\ LastRowHash = NoHash => log = <<>>
  <2>1. log \in Seq(Hashes) /\ anchor \in Hashes \cup {NoHash}
    BY DEF AuditInv, AuditTypeOK
  <2>2. log # <<>> => log[Len(log)] \in Hashes
    BY <2>1
  <2>3. QED
    BY <2>1, <2>2, AuditAssumption DEF LastRowHash
<1>3. c \in Call
  BY <1>1, <1>2 DEF Call
<1>4. c.pc = "read" /\ c.prev = LastRowHash
  BY <1>1 DEF Call
<1>5. QED
  BY <1>1, <1>2, <1>3, <1>4, QuietStep DEF ListLast

LEMMA AgainStep ==
    ASSUME AuditInv, NEW p \in Appenders, NEW call \in Call, Again(p, call), ~Flying(p),
           UNCHANGED <<anchor, anchorAt, log, prev, drawn, died>>
    PROVE  AuditInv'
<1>1. died \in BOOLEAN
  BY DEF AuditInv, AuditTypeOK
<1>2. PICK c \in Call : c.pc \in {"again", "failed"} /\ (Again(p, call) => SetCall(p, c))
  BY NextTurn
<1>3. QED
  BY <1>1, <1>2, QuietStep

LEMMA ReadAnchorStep ==
    ASSUME AuditInv, NEW p \in Appenders, ReadAnchor(p)
    PROVE  AuditInv'
<1>1. app[p] \in Call /\ ~Flying(p) /\ died \in BOOLEAN
  BY DEF AuditInv, AuditTypeOK, ReadAnchor, Flying
<1>2. ASSUME NEW call \in Call, call.prev = app[p].prev, NEW seen, Compare(p, call, seen)
      PROVE  AuditInv'
  <2> DEFINE c == [call EXCEPT !.pc = "swap"]
  <2>1. CASE Again(p, call)
    BY <1>1, <2>1, AgainStep DEF ReadAnchor
  <2>2. CASE SetCall(p, c)
    <3>1. c \in Call /\ c.pc = "swap" /\ c.prev = app[p].prev
      BY <1>2 DEF Call
    <3>2. anchor = NoHash /\ app[p].prev = NoHash => log = <<>>
      BY DEF AuditInv, FreeEnd, ReadAnchor
    <3>3. QED
      BY <1>1, <2>2, <3>1, <3>2, QuietStep DEF ReadAnchor
  <2>3. QED
    BY <1>2, <2>1, <2>2 DEF Compare
<1>3. CASE Compare(p, app[p], anchor)
  BY <1>1, <1>2, <1>3
<1>4. CASE Compare(p, [app[p] EXCEPT !.thrown = @ + 1], NoHash)
  BY <1>1, <1>2, <1>4, ThrownCall
<1>5. QED
  BY <1>3, <1>4 DEF ReadAnchor

LEMMA DieStep ==
    ASSUME AuditInv, NEW p \in Appenders, Die(p)
    PROVE  AuditInv'
<1>1. NoCall \in Call /\ NoCall.pc = "idle"
  BY DEF NoCall, Call
<1>2. QED
  BY <1>1, QuietStep DEF Die

(* The entry of an append that has moved the anchor joins the chain. *)
LEMMA PutStep ==
    ASSUME AuditInv, NEW p \in Appenders, Put(p)
    PROVE  AuditInv'
<1> DEFINE new == app[p].hash
<1>1. app[p] \in Call /\ Flying(p) /\ log \in Seq(Hashes) /\ app \in [Appenders -> Call]
  BY DEF AuditInv, AuditTypeOK, Put, Flying
<1>2. new \in drawn \ Entries /\ app[p].prev \in drawn \cup {NoHash} /\ new \in Hashes
  BY <1>1 DEF AuditInv, AuditTypeOK, Named
<1>3. NoCall \in Call /\ NoCall.pc = "idle"
  BY DEF NoCall, Call
<1>4. app'[p] = NoCall /\ \A q \in Appenders : q # p => app'[q] = app[q]
  BY <1>1 DEF Put, SetCall
<1>5. \A q \in Appenders : Flying(q)' => Flying(q) /\ q # p /\ app'[q] = app[q]
  BY <1>3, <1>4 DEF Flying
<1>6. Entries' = Entries \cup {new}
  <2>1. log' = Append(log, new)
    BY DEF Put
  <2>2. Len(log') = Len(log) + 1 /\ DOMAIN log' = 1 .. Len(log') /\ DOMAIN log = 1 .. Len(log) /\ Len(log) \in Nat
    BY <1>1, <1>2, <2>1
  <2>3. log'[Len(log) + 1] = new /\ \A i \in 1 .. Len(log) : log'[i] = log[i]
    BY <1>1, <1>2, <2>1
  <2>4. \A i \in DOMAIN log' : i \in DOMAIN log \/ i = Len(log) + 1
    BY <2>2
  <2>5. \A i \in DOMAIN log : i \in DOMAIN log'
    BY <2>2
  <2>6. Len(log) + 1 \in DOMAIN log'
    BY <2>2
  <2>7. QED
    BY <2>2, <2>3, <2>4, <2>5, <2>6 DEF Entries
<1>7. /\ prev'[new] = app[p].prev
      /\ \A h \in Entries : prev'[h] = prev[h]
  <2>1. prev \in [Hashes -> Hashes \cup {NoHash}] /\ Entries \subseteq Hashes
    BY DEF AuditInv, AuditTypeOK, Named
  <2>2. QED
    BY <1>2, <2>1 DEF Put
<1>8. anchor' = anchor /\ drawn' = drawn /\ anchor # NoHash
  BY <1>1 DEF Put, AuditInv, FreeEnd
<1>9. AuditTypeOK'
  <2>1. log' \in Seq(Hashes)
    BY <1>1, <1>2 DEF Put
  <2>2. app' \in [Appenders -> Call]
    BY <1>1, <1>3 DEF Put, SetCall
  <2>3. prev' \in [Hashes -> Hashes \cup {NoHash}]
    BY <1>1, <1>2 DEF Put, Call, AuditInv, AuditTypeOK
  <2>4. QED
    BY <2>1, <2>2, <2>3 DEF Put, AuditInv, AuditTypeOK
<1>10. Named'
  <2>1. \A h \in Entries' : prev'[h] \in drawn \cup {NoHash}
    BY <1>2, <1>6, <1>7 DEF AuditInv, Named
  <2>2. \A q \in Appenders : Flying(q)' => app[q].hash # new
    BY <1>1, <1>5 DEF AuditInv, Linear
  <2>3. \A q \in Appenders : Flying(q)' =>
           app'[q].hash \in drawn' \ Entries' /\ app'[q].prev \in drawn' \cup {NoHash}
    BY <1>5, <1>6, <1>8, <2>2 DEF AuditInv, Named
  <2>4. QED
    BY <1>2, <1>6, <1>8, <2>1, <2>3 DEF AuditInv, Named
<1>11. Linear'
  <2>1. ASSUME NEW g \in Entries', NEW h \in Entries', g # h
        PROVE  prev'[g] # prev'[h]
    <3>1. \A k \in Entries : prev[k] # app[p].prev
      BY <1>1 DEF AuditInv, Linear
    <3>2. CASE g = new
      BY <1>6, <1>7, <2>1, <3>1, <3>2
    <3>3. CASE h = new
      BY <1>6, <1>7, <2>1, <3>1, <3>3
    <3>4. CASE g # new /\ h # new
      BY <1>6, <1>7, <2>1, <3>4 DEF AuditInv, Linear, NoFork
    <3>5. QED
      BY <3>2, <3>3, <3>4
  <2>2. ASSUME NEW q \in Appenders, Flying(q)', NEW h \in Entries'
        PROVE  prev'[h] # app'[q].prev
    <3>1. Flying(q) /\ q # p /\ app'[q] = app[q]
      BY <1>5, <2>2
    <3>2. app[p].prev # app[q].prev
      BY <1>1, <3>1 DEF AuditInv, Linear
    <3>3. h # new => prev[h] # app[q].prev
      BY <1>6, <3>1 DEF AuditInv, Linear
    <3>4. QED
      BY <1>6, <1>7, <3>1, <3>2, <3>3
  <2>3. \A q, r \in Appenders : Flying(q)' /\ Flying(r)' /\ q # r =>
           app'[q].hash # app'[r].hash /\ app'[q].prev # app'[r].prev
    BY <1>5 DEF AuditInv, Linear
  <2>4. QED
    BY <2>1, <2>2, <2>3 DEF Linear, NoFork
<1>12. FreeEnd'
  <2>1. \A h \in Entries' : prev'[h] # anchor
    BY <1>1, <1>6, <1>7, <1>8 DEF AuditInv, FreeEnd
  <2>2. \A q \in Appenders : Flying(q)' => app'[q].prev # anchor
    BY <1>5, <1>8 DEF AuditInv, FreeEnd
  <2>3. QED
    BY <1>8, <2>1, <2>2 DEF FreeEnd
<1>13. QED
  BY <1>9, <1>10, <1>11, <1>12 DEF AuditInv

(* Only the end of the chain is extended. *)
LEMMA SwapStep ==
    ASSUME AuditInv, NEW p \in Appenders, Swap(p)
    PROVE  AuditInv'
<1>1. app[p] \in Call /\ ~Flying(p) /\ app \in [Appenders -> Call]
  BY DEF AuditInv, AuditTypeOK, Swap, Flying
<1>2. CASE ~AnchorIs(app[p].prev)
  BY <1>1, <1>2, AgainStep DEF Swap
<1>3. CASE AnchorIs(app[p].prev)
  <2>1. PICK new \in Hashes \ drawn :
           /\ anchor' = new /\ anchorAt' = Len(log) /\ drawn' = drawn \cup {new}
           /\ SetCall(p, [app[p] EXCEPT !.pc = "put", !.hash = new])
    BY <1>3 DEF Swap
  <2> DEFINE c == [app[p] EXCEPT !.pc = "put", !.hash = new]
  <2>2. c \in Call /\ c.pc = "put" /\ c.hash = new /\ c.prev = app[p].prev
    BY <1>1 DEF Call
  <2>3. app'[p] = c /\ \A q \in Appenders : q # p => app'[q] = app[q]
    BY <1>1, <2>1 DEF SetCall
  <2>4. \A q \in Appenders : Flying(q)' => q = p \/ (Flying(q) /\ app'[q] = app[q])
    BY <2>3 DEF Flying
  <2>5. UNCHANGED <<log, prev, died>> /\ Entries' = Entries
    BY DEF Swap, Entries
  <2>6. new # NoHash /\ anchor = app[p].prev
    BY <1>3, AuditAssumption DEF AnchorIs
  <2>7. /\ \A h \in Entries : prev[h] # app[p].prev
        /\ \A q \in Appenders : Flying(q) => app[q].prev # app[p].prev
    <3>1. CASE anchor = NoHash
      <4>1. log = <<>>
        BY <2>6, <3>1 DEF AuditInv, FreeEnd, Swap
      <4>2. Entries = {}
        BY <4>1 DEF Entries
      <4>3. QED
        BY <3>1, <4>2 DEF AuditInv, FreeEnd
    <3>2. CASE anchor # NoHash
      BY <2>6, <3>2 DEF AuditInv, FreeEnd
    <3>3. QED
      BY <3>1, <3>2
  <2>8. AuditTypeOK'
    <3>1. app' \in [Appenders -> Call]
      BY <1>1, <2>1, <2>2 DEF SetCall
    <3>2. Len(log) \in Nat
      BY DEF AuditInv, AuditTypeOK
    <3>3. QED
      BY <2>1, <2>5, <3>1, <3>2 DEF AuditInv, AuditTypeOK
  <2>9. Named'
    <3>1. IsFiniteSet(drawn')
      BY <2>1, FS_AddElement DEF AuditInv, Named
    <3>2. app[p].prev \in drawn \cup {NoHash}
      BY <2>6 DEF AuditInv, Named
    <3>3. \A q \in Appenders : Flying(q)' =>
             app'[q].hash \in drawn' \ Entries' /\ app'[q].prev \in drawn' \cup {NoHash}
      BY <2>1, <2>2, <2>3, <2>4, <2>5, <3>2 DEF AuditInv, Named
    <3>4. QED
      BY <2>1, <2>5, <3>1, <3>3 DEF AuditInv, Named
  <2>10. Linear'
    <3>1. ASSUME NEW q \in Appenders, Flying(q)', NEW h \in Entries'
          PROVE  prev'[h] # app'[q].prev
      <4>1. CASE q = p
        BY <2>2, <2>3, <2>5, <2>7, <3>1, <4>1
      <4>2. CASE q # p
        BY <2>4, <2>5, <3>1, <4>2 DEF AuditInv, Linear
      <4>3. QED
        BY <4>1, <4>2
    <3>2. ASSUME NEW q \in Appenders, NEW r \in Appenders, Flying(q)', Flying(r)', q # r
          PROVE  app'[q].hash # app'[r].hash /\ app'[q].prev # app'[r].prev
      <4>1. ASSUME NEW s \in Appenders, Flying(s)
            PROVE  app[s].hash # new
        BY <4>1, <2>1 DEF AuditInv, Named
      <4>a. app'[p].hash = new /\ app'[p].prev = app[p].prev
        BY <2>2, <2>3
      <4>b. ASSUME NEW s \in Appenders, Flying(s)', s # p
            PROVE  app'[s].hash # new /\ app'[s].prev # app[p].prev
        BY <4>b, <2>4, <2>7, <4>1
      <4>2. CASE q = p
        BY <3>2, <4>2, <4>a, <4>b
      <4>3. CASE r = p
        BY <3>2, <4>3, <4>a, <4>b
      <4>4. CASE q # p /\ r # p
        BY <2>4, <3>2, <4>4 DEF AuditInv, Linear
      <4>5. QED
        BY <4>2, <4>3, <4>4
    <3>3. QED
      BY <2>5, <3>1, <3>2 DEF AuditInv, Linear, NoFork
  <2>11. FreeEnd'
    <3>1. \A h \in Entries' : prev'[h] # new
      BY <2>1, <2>5, <2>6 DEF AuditInv, Named
    <3>2. app[p].prev # new
      BY <2>1, <2>6 DEF AuditInv, Named
    <3>3. \A q \in Appenders : Flying(q)' => app'[q].prev # new
      <4>1. ASSUME NEW q \in Appenders, Flying(q) PROVE app[q].prev # new
        BY <4>1, <2>1, <2>6 DEF AuditInv, Named
      <4>2. app'[p].prev # new
        BY <2>2, <2>3, <3>2
      <4>3. QED
        BY <2>4, <4>1, <4>2
    <3>4. QED
      BY <2>1, <2>6, <3>1, <3>3 DEF FreeEnd
  <2>12. QED
    BY <2>8, <2>9, <2>10, <2>11 DEF AuditInv
<1>4. QED
  BY <1>2, <1>3

(* Every step of the appends keeps the invariant. *)
LEMMA AuditStep == AuditInv /\ [AuditNext]_auditVars => AuditInv'
<1> SUFFICES ASSUME AuditInv, [AuditNext]_auditVars PROVE AuditInv'
  OBVIOUS
<1>1. CASE AuditNext
  <2>1. PICK p \in Appenders :
           ReadTip(p) \/ ListLast(p) \/ ReadAnchor(p) \/ Swap(p) \/ Put(p) \/ Die(p)
    BY <1>1 DEF AuditNext
  <2>2. QED
    BY <2>1, ReadTipStep, ListLastStep, ReadAnchorStep, SwapStep, PutStep, DieStep
<1>2. CASE UNCHANGED auditVars
  BY <1>2 DEF auditVars, AuditInv, AuditTypeOK, Named, Linear, NoFork, FreeEnd, Flying, Entries
<1>3. QED
  BY <1>1, <1>2

(* For any number of concurrent appends, attempts, older entries and deaths  *)
(* on the way, no two entries of the chain name the same predecessor: the    *)
(* compareAndSwap of append() lets one of those that read the same end win.  *)
THEOREM ChainNeverForks == AuditSpec => []NoFork
<1>1. AuditInv => NoFork
  BY DEF AuditInv, Linear
<1>2. QED
  BY <1>1, AuditStart, AuditStep, PTL DEF AuditSpec

----------------------------------------------------------------------------
(* What is charged to a call and what pays for it: a turn of append() that   *)
(* is lost, or is going to be, was overtaken by a swap that no earlier turn  *)
(* was lost to, or a read of the anchor threw in it.                         *)
Charged(c) == c.attempt + c.base
Paid(c) == Cardinality(drawn) + c.thrown

InTime(c) ==
    /\ c.pc # "idle" => Charged(c) <= Paid(c)
    /\ c.pc = "tip" /\ anchor # NoHash => Charged(c) + 1 <= Paid(c)
    /\ c.pc \in {"read", "swap"} /\ c.prev # anchor => Charged(c) + 1 <= Paid(c)

(* Without older entries there is an anchor once there is an entry. *)
Anchored == anchor = NoHash => log = <<>>

(* The inductive invariant behind EachRetryLost. *)
RetryInv == AuditInv /\ Anchored /\ \A p \in Appenders : InTime(app[p])

(* A call that changed alone, and is in time, leaves all in time. *)
LEMMA TurnStep ==
    ASSUME RetryInv, AuditInv', NEW p \in Appenders, NEW c, SetCall(p, c), InTime(c),
           UNCHANGED <<anchor, log, drawn>>
    PROVE  RetryInv'
<1>1. app \in [Appenders -> Call]
  BY DEF RetryInv, AuditInv, AuditTypeOK
<1>2. app'[p] = c /\ \A q \in Appenders : q # p => app'[q] = app[q]
  BY <1>1 DEF SetCall
<1>3. ASSUME NEW q \in Appenders
      PROVE  InTime(app[q])'
  <2>1. InTime(app'[q])
    BY <1>2 DEF RetryInv
  <2>2. QED
    BY <2>1 DEF InTime, Charged, Paid
<1>4. QED
  BY <1>3 DEF RetryInv, Anchored

(* The loop of append() counts only turns it lost. *)
LEMMA RetryStep ==
    ASSUME RetryInv, AuditNext
    PROVE  RetryInv'
<1>1. AuditInv'
  BY AuditStep DEF RetryInv
<1>2. PICK p \in Appenders :
         ReadTip(p) \/ ListLast(p) \/ ReadAnchor(p) \/ Swap(p) \/ Put(p) \/ Die(p)
  BY DEF AuditNext
<1>3. /\ app[p] \in Call /\ app \in [Appenders -> Call]
      /\ IsFiniteSet(drawn) /\ InTime(app[p])
  BY DEF RetryInv, AuditInv, AuditTypeOK, Named
<1>4. Cardinality(drawn) \in Nat
  BY <1>3, FS_CardinalityType
<1>5. \A c \in Call : c.attempt \in Nat /\ c.base \in Nat /\ c.thrown \in Nat
  BY DEF Call
<1>6. ASSUME NEW call \in Call, Again(p, call), Charged(call) + 1 <= Paid(call),
             UNCHANGED <<anchor, log, drawn>>
      PROVE  RetryInv'
  <2>1. PICK c \in Call : /\ c.pc \in {"again", "failed"}
                          /\ c.attempt = call.attempt + 1
                          /\ c.base = call.base /\ c.thrown = call.thrown
                          /\ Again(p, call) => SetCall(p, c)
    BY NextTurn
  <2>2. Charged(c) <= Paid(c)
    BY <1>4, <1>5, <1>6, <2>1 DEF Charged, Paid
  <2>3. InTime(c)
    BY <2>1, <2>2 DEF InTime
  <2>4. QED
    BY <1>1, <1>6, <2>1, <2>3, TurnStep
<1>7. CASE ReadTip(p)
  <2> DEFINE call == IF app[p].pc = "again" THEN app[p]
                     ELSE [NoCall EXCEPT !.base = Cardinality(drawn)]
  <2>1. Charged(call) <= Paid(call) /\ call \in Call
    <3>1. CASE app[p].pc = "again"
      BY <1>3, <3>1 DEF InTime
    <3>2. CASE app[p].pc # "again"
      <4>1. call.attempt = 0 /\ call.base = Cardinality(drawn) /\ call.thrown = 0
        BY <3>2 DEF NoCall
      <4>2. call \in Call
        BY <1>4, <3>2 DEF NoCall, Call
      <4>3. QED
        BY <1>4, <4>1, <4>2 DEF Charged, Paid
    <3>3. QED
      BY <3>1, <3>2
  <2>2. CASE anchor # NoHash /\ SetCall(p, [call EXCEPT !.pc = "read", !.prev = anchor])
    <3> DEFINE c == [call EXCEPT !.pc = "read", !.prev = anchor]
    <3>1. /\ c.pc = "read" /\ c.prev = anchor
          /\ c.attempt = call.attempt /\ c.base = call.base /\ c.thrown = call.thrown
      BY <2>1 DEF Call
    <3>2. InTime(c)
      BY <2>1, <3>1 DEF InTime, Charged, Paid
    <3>3. QED
      BY <1>1, <1>7, <2>2, <3>2, TurnStep DEF ReadTip
  <2>3. CASE anchor = NoHash /\ SetCall(p, [call EXCEPT !.pc = "tip"])
    <3> DEFINE c == [call EXCEPT !.pc = "tip"]
    <3>1. /\ c.pc = "tip"
          /\ c.attempt = call.attempt /\ c.base = call.base /\ c.thrown = call.thrown
      BY <2>1 DEF Call
    <3>2. InTime(c)
      BY <2>1, <2>3, <3>1 DEF InTime, Charged, Paid
    <3>3. QED
      BY <1>1, <1>7, <2>3, <3>2, TurnStep DEF ReadTip
  <2>4. CASE SetCall(p, [call EXCEPT !.thrown = @ + 1, !.pc = "tip"])
    <3> DEFINE c == [call EXCEPT !.thrown = @ + 1, !.pc = "tip"]
    <3> HIDE DEF call
    <3>1. /\ c.pc = "tip"
          /\ c.attempt = call.attempt /\ c.base = call.base /\ c.thrown = call.thrown + 1
      BY <2>1, ThrownTip
    <3> HIDE DEF c
    <3>2. Charged(c) + 1 <= Paid(c) /\ Charged(c) <= Paid(c)
      BY <1>4, <1>5, <2>1, <3>1 DEF Charged, Paid
    <3> USE DEF c
    <3>3. InTime(c)
      BY <3>1, <3>2 DEF InTime
    <3>4. QED
      BY <1>1, <1>7, <2>4, <3>3, TurnStep DEF ReadTip
  <2>5. QED
    BY <1>7, <2>2, <2>3, <2>4 DEF ReadTip
<1>8. CASE ListLast(p)
  <2> DEFINE c == [app[p] EXCEPT !.pc = "read", !.prev = LastRowHash]
  <2>1. /\ c.pc = "read" /\ c.prev = LastRowHash
        /\ c.attempt = app[p].attempt /\ c.base = app[p].base /\ c.thrown = app[p].thrown
    BY <1>3 DEF Call
  <2>2. anchor = NoHash => LastRowHash = anchor
    BY DEF RetryInv, Anchored, LastRowHash
  <2>3. /\ Charged(app[p]) <= Paid(app[p])
        /\ anchor # NoHash => Charged(app[p]) + 1 <= Paid(app[p])
    BY <1>3, <1>8 DEF ListLast, InTime
  <2>4. InTime(c)
    BY <2>1, <2>2, <2>3 DEF InTime, Charged, Paid
  <2>5. QED
    BY <1>1, <1>8, <2>4, TurnStep DEF ListLast
<1>9. CASE ReadAnchor(p)
  <2>1. ASSUME NEW call \in Call, NEW seen, Compare(p, call, seen), Charged(call) <= Paid(call),
               call.prev # seen \/ call.prev # anchor => Charged(call) + 1 <= Paid(call)
        PROVE  RetryInv'
    <3>1. CASE seen # call.prev
      BY <1>6, <1>9, <2>1, <3>1 DEF Compare, ReadAnchor
    <3>2. CASE seen = call.prev
      <4> DEFINE c == [call EXCEPT !.pc = "swap"]
      <4>1. /\ c.pc = "swap" /\ c.prev = call.prev
            /\ c.attempt = call.attempt /\ c.base = call.base /\ c.thrown = call.thrown
        BY DEF Call
      <4>2. InTime(c)
        BY <2>1, <4>1 DEF InTime, Charged, Paid
      <4>3. QED
        BY <1>1, <1>9, <2>1, <3>2, <4>2, TurnStep DEF Compare, ReadAnchor
    <3>3. QED
      BY <3>1, <3>2
  <2>2. /\ Charged(app[p]) <= Paid(app[p])
        /\ app[p].prev # anchor => Charged(app[p]) + 1 <= Paid(app[p])
    BY <1>3, <1>9 DEF ReadAnchor, InTime
  <2>3. CASE Compare(p, app[p], anchor)
    BY <1>3, <2>1, <2>2, <2>3
  <2>4. CASE Compare(p, [app[p] EXCEPT !.thrown = @ + 1], NoHash)
    <3> DEFINE call == [app[p] EXCEPT !.thrown = @ + 1]
    <3>1. /\ call \in Call /\ call.attempt = app[p].attempt
          /\ call.base = app[p].base /\ call.thrown = app[p].thrown + 1
      BY <1>3, ThrownCall
    <3>2. Charged(call) + 1 <= Paid(call) /\ Charged(call) <= Paid(call)
      BY <1>3, <1>4, <1>5, <2>2, <3>1 DEF Charged, Paid
    <3>3. QED
      BY <2>1, <2>4, <3>1, <3>2
  <2>5. QED
    BY <1>9, <2>3, <2>4 DEF ReadAnchor
<1>10. CASE Swap(p)
  <2>1. CASE ~AnchorIs(app[p].prev)
    <3>1. Charged(app[p]) + 1 <= Paid(app[p])
      BY <1>3, <1>10, <2>1 DEF Swap, AnchorIs, InTime
    <3>2. QED
      BY <1>3, <1>6, <1>10, <2>1, <3>1 DEF Swap
  <2>2. CASE AnchorIs(app[p].prev)
    <3>1. PICK new \in Hashes \ drawn :
             /\ anchor' = new /\ drawn' = drawn \cup {new}
             /\ SetCall(p, [app[p] EXCEPT !.pc = "put", !.hash = new])
      BY <1>10, <2>2 DEF Swap
    <3> DEFINE c == [app[p] EXCEPT !.pc = "put", !.hash = new]
    <3>2. c.attempt = app[p].attempt /\ c.base = app[p].base /\ c.thrown = app[p].thrown
      BY <1>3 DEF Call
    <3>3. app'[p] = c /\ \A q \in Appenders : q # p => app'[q] = app[q]
      BY <1>3, <3>1 DEF SetCall
    <3>4. Cardinality(drawn') = Cardinality(drawn) + 1
      BY <1>3, <3>1, FS_AddElement
    <3>5. ASSUME NEW q \in Appenders, app'[q].pc # "idle"
          PROVE  Charged(app'[q]) + 1 <= Paid(app[q])' /\ Charged(app'[q]) <= Paid(app[q])'
      <4>1. /\ app[q].pc # "idle" /\ app'[q].attempt = app[q].attempt
            /\ app'[q].base = app[q].base /\ app'[q].thrown = app[q].thrown
        BY <1>10, <3>2, <3>3, <3>5 DEF Swap
      <4>2. app[q] \in Call /\ Charged(app[q]) <= Paid(app[q])
        BY <1>3, <4>1 DEF RetryInv, InTime
      <4>3. QED
        BY <1>4, <1>5, <3>4, <4>1, <4>2 DEF Charged, Paid
    <3>6. \A q \in Appenders : InTime(app[q])'
      BY <3>5 DEF InTime, Charged
    <3>7. Anchored'
      BY <3>1, AuditAssumption DEF Anchored
    <3>8. QED
      BY <1>1, <3>6, <3>7 DEF RetryInv
  <2>3. QED
    BY <2>1, <2>2
<1>11. CASE Put(p)
  <2>1. app'[p].pc = "idle" /\ \A q \in Appenders : q # p => app'[q] = app[q]
    BY <1>3, <1>11 DEF Put, SetCall, NoCall
  <2>2. anchor' = anchor /\ drawn' = drawn /\ anchor # NoHash
    BY <1>11 DEF Put, RetryInv, AuditInv, FreeEnd, Flying
  <2>3. \A q \in Appenders : InTime(app[q])'
    BY <2>1, <2>2 DEF RetryInv, InTime, Charged, Paid
  <2>4. QED
    BY <1>1, <2>2, <2>3 DEF RetryInv, Anchored
<1>12. CASE Die(p)
  <2>1. InTime(NoCall)
    BY DEF NoCall, InTime
  <2>2. QED
    BY <1>1, <1>12, <2>1, TurnStep DEF Die
<1>13. QED
  BY <1>2, <1>7, <1>8, <1>9, <1>10, <1>11, <1>12

(* For a tenant whose chain began with the anchor, append() loses a turn of  *)
(* its loop, and in the end throws, only for a reason: each turn is paid for *)
(* by a swap of another append since the call began, or by a read of the     *)
(* anchor that threw, for any number of appends and attempts.                *)
THEOREM RetriesAreLost ==
    ASSUME Legacy = <<>>
    PROVE  AuditSpec => []EachRetryLost
<1>1. AuditInit => RetryInv
  <2>1. AuditInit => Anchored
    BY DEF AuditInit, Anchored
  <2>2. AuditInit => \A p \in Appenders : InTime(app[p])
    BY DEF AuditInit, InTime, NoCall
  <2>3. QED
    BY <2>1, <2>2, AuditStart DEF RetryInv
<1>2. RetryInv /\ [AuditNext]_auditVars => RetryInv'
  <2>1. RetryInv /\ UNCHANGED auditVars => RetryInv'
    BY AuditStep DEF RetryInv, Anchored, InTime, Charged, Paid, auditVars
  <2>2. QED
    BY <2>1, RetryStep
<1>3. RetryInv => EachRetryLost
  BY DEF RetryInv, InTime, Charged, Paid, EachRetryLost
<1>4. QED
  BY <1>1, <1>2, <1>3, PTL DEF AuditSpec
============================================================================
