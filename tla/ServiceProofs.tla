---------------------------- MODULE ServiceProofs ----------------------------
(* The services that talk to the outside, for any number of calls: the Google  *)
(* credential, WhatsApp in both directions, the chain of models and the event  *)
(* bus; and the types of all services together, with the audit chain and the   *)
(* computer of the modules below.                                              *)
EXTENDS MCServices, AuditProofs, ComputerProofs, WellFoundedInduction

----------------------------------------------------------------------------
(* Google.  A sign-in that has not replaced the row yet was cut by nobody; the *)
(* generation of a sign-in stands for all that it knows; and a connection is   *)
(* saved once, so nobody has read it before.                                   *)
Working == {"fetch", "update"}

Uncut ==
    \A s \in SignIns :
       /\ consent[s].pc \in {"new", "rotate", "swap"} => s \notin cut
       /\ cred.gen = <<"connect", s>> =>
             s \notin cut /\ (consent[s].pc = "save" => consent[s].refresh \notin cut)
Unsaved ==
    \A s \in SignIns : consent[s].pc # "over" =>
       cred.conn # s /\ \A r \in Refreshes : renewal[r].pc \in Working => renewal[r].seen.conn # s
Profiled == \A s \in SignIns : consent[s].pc \in {"reuse", "save"} => consent[s].account \in Accounts

(* What a refresh read is worth writing back while its connection lasts. *)
Renewing ==
    \A r \in Refreshes : renewal[r].pc \in Working =>
       /\ renewal[r].seen \in Tokens /\ renewal[r].seen.access < MaxRefreshed
       /\ renewal[r].seen.conn = cred.conn =>
             renewal[r].seen.conn \notin cut /\ renewal[r].seen.refresh \notin cut

GoogleInv ==
    /\ GoogleTypeOK /\ Uncut /\ Unsaved /\ Profiled /\ Renewing
    /\ SecretOfConnection /\ DisconnectHolds

----------------------------------------------------------------------------
(* WhatsApp, outbound.  The attempt that may still send is the one the ledger  *)
(* names; nothing was sent before it; and only an operator moves the row under *)
(* it.                                                                         *)
DecisionPC == {"new", "ledger", "check", "insert", "recheck", "send", "save", "cache", "swap", "over"}

DecisionRec == [pc : DecisionPC, kind : {"approve", "reject", "reconcile"}, draft : Drafts,
                seen : DraftRow \cup Operation, result : Statuses]

(* The types, with the record of a call named. *)
OutboundTypes ==
    /\ channel \in [gen : 0..MaxConnections, on : BOOLEAN]
    /\ draft \in [Drafts -> DraftRow] /\ op \in [Drafts -> Operation]
    /\ decision \in [Decisions -> DecisionRec] /\ sends \in [Drafts -> Nat]

Attempt(q) ==
    LET d == DraftOf(q) IN
    decision[q].pc \in {"recheck", "send", "save"} =>
       /\ op[d].by = q /\ op[d].status # "absent"
       /\ ~op[d].verdict => op[d].status = "dispatching"
       /\ decision[q].pc # "save" => sends[d] = 0
       /\ decision[q].pc = "save" =>
             /\ decision[q].result \in {"accepted", "failed", "outcome_unknown"}
             /\ decision[q].result = "accepted" => sends[d] = 1
             /\ decision[q].result = "failed" => sends[d] = 0
Verdict(q) ==
    /\ decision[q].pc = "ledger" => decision[q].kind # "reconcile"
    /\ decision[q].pc = "swap" =>
          /\ decision[q].seen.status \in {"dispatching", "outcome_unknown"}
          /\ decision[q].result \in {"accepted", "failed"}
Judged(d) ==
    /\ op[d].verdict => op[d].status \in {"accepted", "failed"}
    /\ op[d].status = "absent" => sends[d] = 0

OutboundInv ==
    /\ OutboundTypes
    /\ \A q \in Decisions : Attempt(q) /\ Verdict(q)
    /\ \A d \in Drafts : Judged(d)
    /\ SentOnce /\ LedgerIsHonest

----------------------------------------------------------------------------
(* WhatsApp, inbound.  What a delivery has done with, and what it is about to  *)
(* mark, has its task. *)
DeliveryHasTasks(v) ==
    delivery[v].pc # "off" =>
       /\ delivery[v].rest # {} /\ delivery[v].rest \subseteq delivery[v].batch
       /\ delivery[v].batch \ delivery[v].rest \subseteq waTasks
       /\ delivery[v].pc = "mark" => Current(v) \in waTasks

InboundInv ==
    /\ InboundTypeOK /\ AnsweredHasTask
    /\ \A v \in Deliveries : DeliveryHasTasks(v)

----------------------------------------------------------------------------
(* The chain of models.  Who spoke has answered, so nobody is started after it. *)
AttemptRec == [live : BOOLEAN, answered : BOOLEAN, armed : BOOLEAN]

ModelInv ==
    /\ DOMAIN current = Runs /\ DOMAIN stream = Runs /\ voice \in [Runs -> SUBSET Specs]
    /\ attempt \in [Runs -> [Specs -> AttemptRec]]
    /\ \A r \in Runs : stream[r] = "new" => voice[r] = {}
    /\ \A r \in Runs : \A i \in voice[r] : attempt[r][i].answered
    /\ OneVoice

----------------------------------------------------------------------------
(* Counting.                                                                   *)

(* Every set of naturals has a least element: the induction behind filter().   *)
LEMMA LeastNat ==
    ASSUME NEW T, T \subseteq Nat, T # {}
    PROVE  \E n \in T : \A m \in T : n <= m
<1>1. PICK n \in T : \A m \in T : ~(<<m, n>> \in OpToRel(<, Nat))
  BY NatLessThanWellFounded, WFMin, Zenon
<1>2. \A m \in T : <<m, n>> \in OpToRel(<, Nat) <=> m < n
  BY DEF OpToRel
<1>3. \A m \in T : ~(m < n)
  BY <1>1, <1>2, Zenon
<1>4. QED
  BY <1>3

(* In a finite set of positions some position has exactly n of them up to it.  *)
LEMMA NthPosition ==
    ASSUME NEW L \in Nat, NEW F \in SUBSET (1..L), NEW n \in 1..Cardinality(F)
    PROVE  \E i \in F : Cardinality({j \in F : j <= i}) = n
<1> DEFINE upTo(i) == {j \in F : j <= i}
<1>0. \A j \in F : j \in Nat /\ 0 < j /\ j <= L
  OBVIOUS
<1>1. IsFiniteSet(F)
  BY <1>0, FS_BoundedSetOfNaturals
<1>2. \A i \in Nat : IsFiniteSet(upTo(i)) /\ Cardinality(upTo(i)) \in Nat
  <2>1. \A i \in Nat : upTo(i) \in SUBSET F
    OBVIOUS
  <2>2. QED
    BY <1>1, <2>1, FS_Subset, FS_CardinalityType
<1>3. n \in Nat /\ n > 0 /\ n <= Cardinality(F)
  BY <1>1, FS_CardinalityType
<1> DEFINE T == {i \in Nat : Cardinality(upTo(i)) >= n}
<1>4. L \in T
  <2>1. upTo(L) = F
    BY <1>0
  <2>2. QED
    BY <1>3, <2>1
<1>5. PICK i \in T : \A m \in T : i <= m
  BY <1>4, LeastNat
<1>6. i # 0
  <2>1. upTo(0) = {}
    <3>1. \A j \in F : ~(j <= 0)
      BY <1>0
    <3>2. QED
      BY <3>1
  <2>2. Cardinality(upTo(0)) = 0
    BY <2>1, FS_EmptySet
  <2>3. QED
    BY <1>3, <2>2
<1>7. i - 1 \in Nat /\ Cardinality(upTo(i - 1)) < n
  <2>0. i \in Nat
    BY <1>5 DEF T
  <2>1. i - 1 \in Nat /\ i - 1 \notin T
    <3>1. i - 1 \in Nat /\ ~(i <= i - 1)
      BY <1>6, <2>0
    <3>2. QED
      BY <1>5, <3>1
  <2>2. ~(Cardinality(upTo(i - 1)) >= n)
    BY <2>1 DEF T
  <2>3. Cardinality(upTo(i - 1)) \in Nat
    BY <1>2, <2>1
  <2> HIDE DEF upTo, T
  <2>4. QED
    BY <1>3, <2>1, <2>2, <2>3
<1>8. i \in F
  <2>1. SUFFICES ASSUME i \notin F PROVE FALSE
    OBVIOUS
  <2>2. upTo(i) = upTo(i - 1)
    <3>1. \A j \in F : j <= i <=> j <= i - 1
      BY <1>0, <1>7, <2>1
    <3>2. QED
      BY <3>1
  <2>3. Cardinality(upTo(i)) >= n
    BY <1>5 DEF T
  <2>4. QED
    BY <1>2, <1>3, <1>7, <2>2, <2>3
<1>9. upTo(i) = upTo(i - 1) \cup {i} /\ i \notin upTo(i - 1)
  <2>1. \A j \in F : j <= i <=> j <= i - 1 \/ j = i
    BY <1>0, <1>7, <1>8
  <2>2. ~(i <= i - 1) /\ i <= i
    BY <1>0, <1>8
  <2>3. QED
    BY <1>8, <2>1, <2>2
<1> HIDE DEF upTo, T
<1>10. Cardinality(upTo(i)) = Cardinality(upTo(i - 1)) + 1
  BY <1>2, <1>7, <1>9, FS_AddElement
<1>11. Cardinality(upTo(i)) = n
  BY <1>2, <1>3, <1>7, <1>10 DEF T
<1>12. QED
  BY <1>1, <1>8, <1>11 DEF upTo

(* What filter() keeps are entries of the list. *)
LEMMA FilterKeeps ==
    ASSUME NEW s \in Seq(Entry), NEW now
    PROVE  /\ StillFresh(s, now) \in Seq(Entry)
           /\ \A n \in 1..Len(StillFresh(s, now)) : \E i \in 1..Len(s) : StillFresh(s, now)[n] = s[i]
<1> DEFINE kept == {i \in 1..Len(s) : Fresh(now, s[i].at)}
           at(n) == CHOOSE i \in kept : Cardinality({j \in kept : j <= i}) = n
           f == [n \in 1..Cardinality(kept) |-> s[at(n)]]
<1>1. Len(s) \in Nat /\ kept \in SUBSET (1..Len(s))
  OBVIOUS
<1>2. Cardinality(kept) \in Nat
  <2>1. kept \in SUBSET Nat /\ \A i \in kept : i <= Len(s)
    BY <1>1
  <2>2. QED
    BY <1>1, <2>1, FS_BoundedSetOfNaturals, FS_CardinalityType
<1> HIDE DEF kept
<1>3. \A n \in 1..Cardinality(kept) : at(n) \in kept
  <2>1. \A n \in 1..Cardinality(kept) : \E i \in kept : Cardinality({j \in kept : j <= i}) = n
    BY <1>1, NthPosition, Zenon
  <2>2. QED
    BY <2>1
<1> HIDE DEF at
<1>4. \A n \in 1..Cardinality(kept) : at(n) \in 1..Len(s) /\ s[at(n)] \in Entry
  <2>1. \A i \in 1..Len(s) : s[i] \in Entry
    OBVIOUS
  <2>2. \A n \in 1..Cardinality(kept) : at(n) \in 1..Len(s)
    BY <1>1, <1>3, Zenon
  <2>3. QED
    BY <2>1, <2>2, Zenon
<1>5. f \in Seq(Entry) /\ Len(f) = Cardinality(kept)
  BY <1>2, <1>4
<1>6. \A n \in 1..Len(f) : \E i \in 1..Len(s) : f[n] = s[i]
  BY <1>4, <1>5
<1>7. StillFresh(s, now) = f
  BY DEF StillFresh, kept, at
<1> HIDE DEF f
<1>8. QED
  BY <1>5, <1>6, <1>7

(* The last entries of a list and one more. *)
LEMMA LastEntries ==
    ASSUME NEW S, NEW s \in Seq(S), NEW x \in S, NEW M \in Nat \ {0}, NEW last,
           last = SubSeq(Append(s, x), IF Len(Append(s, x)) > M THEN Len(Append(s, x)) - M + 1 ELSE 1,
                         Len(Append(s, x)))
    PROVE  /\ last \in Seq(S) /\ Len(last) <= M
           /\ \A n \in 1..Len(last) : last[n] = x \/ \E i \in 1..Len(s) : last[n] = s[i]
<1> DEFINE all == Append(s, x)
           from == IF Len(all) > M THEN Len(all) - M + 1 ELSE 1
<1>0. last = SubSeq(all, from, Len(all))
  OBVIOUS
<1>1. all \in Seq(S) /\ Len(all) = Len(s) + 1 /\ Len(s) \in Nat
  OBVIOUS
<1>2. \A n \in 1..Len(all) : all[n] = x \/ \E i \in 1..Len(s) : all[n] = s[i]
  OBVIOUS
<1> HIDE DEF all
<1>3. from \in 1..Len(all) /\ Len(all) - from + 1 <= M
  BY <1>1
<1> HIDE DEF from
<1> DEFINE part == SubSeq(all, from, Len(all))
<1>4. part \in Seq(S) /\ Len(part) = Len(all) - from + 1
  BY ONLY <1>1, <1>3, M \in Nat \ {0}
<1>5. \A n \in 1..Len(part) : part[n] = all[from + n - 1] /\ from + n - 1 \in 1..Len(all)
  BY ONLY <1>1, <1>3, <1>4
<1> HIDE DEF part
<1>6. last = part
  BY <1>0 DEF part
<1>7. \A n \in 1..Len(last) : last[n] = x \/ \E i \in 1..Len(s) : last[n] = s[i]
  BY <1>2, <1>5, <1>6
<1>8. last \in Seq(S) /\ Len(last) <= M
  BY <1>3, <1>4, <1>6
<1>9. QED
  BY <1>7, <1>8

----------------------------------------------------------------------------
(* The chain of models *)

(* An attempt of r changes in ways that do not take back an answer. *)
LEMMA VoicesKept ==
    ASSUME ModelInv, NEW r \in Runs, voice' = voice, current' = current,
           DOMAIN stream' = Runs, \A u \in Runs : stream'[u] = "new" => stream[u] = "new",
           attempt' \in [Runs -> [Specs -> AttemptRec]],
           \A u \in Runs, i \in Specs : attempt[u][i].answered => attempt'[u][i].answered
    PROVE  ModelInv'
  BY DEF ModelInv, OneVoice

(* A run that has shown nothing may start over. *)
LEMMA StartsSilent ==
    ASSUME ModelInv, NEW r \in Runs, voice' = voice, voice[r] = {},
           NEW from, NEW attempts \in [Specs -> AttemptRec], NEW counts,
           StartAttempt(r, from, attempts, counts),
           DOMAIN stream' = Runs, \A u \in Runs : stream'[u] = "new" => stream[u] = "new"
    PROVE  ModelInv'
<1> DEFINE i == Chosen(counts, from)
           new == [live |-> TRUE, answered |-> FALSE, armed |-> TRUE]
           f == [attempts EXCEPT ![i] = new]
<1>1. current' = [current EXCEPT ![r] = i] /\ attempt' = [attempt EXCEPT ![r] = f]
  BY DEF StartAttempt
<1>2. f \in [Specs -> AttemptRec]
  <2>1. new \in AttemptRec
    BY DEF AttemptRec
  <2> HIDE DEF new, i
  <2>2. QED BY <2>1
<1> HIDE DEF i, f
<1>3. /\ DOMAIN current' = Runs /\ \A u \in Runs : u # r => current'[u] = current[u]
      /\ attempt' \in [Runs -> [Specs -> AttemptRec]]
      /\ \A u \in Runs : u # r => attempt'[u] = attempt[u]
  BY <1>1, <1>2 DEF ModelInv
<1>4. QED
  BY <1>3 DEF ModelInv, OneVoice

(* What the events of an attempt make of the attempts of its run. *)
LEMMA AttemptForms ==
    ASSUME ModelInv, NEW r \in Runs, NEW i \in Specs
    PROVE  /\ Disarmed(r, i) \in [Specs -> AttemptRec] /\ Over(r, i) \in [Specs -> AttemptRec]
           /\ [Disarmed(r, i) EXCEPT ![i].answered = TRUE] \in [Specs -> AttemptRec]
           /\ [Disarmed(r, i) EXCEPT ![i].answered = TRUE][i].answered
           /\ \A j \in Specs : attempt[r][j].answered =>
                 /\ Disarmed(r, i)[j].answered /\ Over(r, i)[j].answered
                 /\ [Disarmed(r, i) EXCEPT ![i].answered = TRUE][j].answered
<1>1. attempt[r] \in [Specs -> AttemptRec]
  BY DEF ModelInv
<1>2. QED
  BY <1>1 DEF Disarmed, Over, AttemptRec

LEMMA HangUp ==
    ASSUME NEW g \in [Specs -> AttemptRec], NEW i
    PROVE  /\ [g EXCEPT ![i].live = FALSE] \in [Specs -> AttemptRec]
           /\ \A j \in Specs : g[j].answered => [g EXCEPT ![i].live = FALSE][j].answered
<1>1. CASE i \in Specs
  BY <1>1 DEF AttemptRec
<1>2. CASE i \notin Specs
  <2>1. [g EXCEPT ![i].live = FALSE] = g
    BY <1>2
  <2>2. QED BY <2>1
<1>3. QED BY <1>1, <1>2

(* An attempt that is the current one and has not answered: nothing was shown. *)
LEMMA Silent ==
    ASSUME ModelInv, NEW r \in Runs, NEW i \in Specs, i = current[r], ~attempt[r][i].answered
    PROVE  voice[r] = {}
  BY DEF ModelInv, OneVoice

LEMMA ModelInitInv == ModelInit => ModelInv
  BY DEF ModelInit, ModelInv, OneVoice, NoAttempt, AttemptRec

LEMMA ModelNextInv == ModelInv /\ [ModelNext]_modelVars => ModelInv'
<1> SUFFICES ASSUME ModelInv, [ModelNext]_modelVars PROVE ModelInv'
  OBVIOUS
<1>0. /\ DOMAIN current = Runs /\ DOMAIN stream = Runs /\ voice \in [Runs -> SUBSET Specs]
      /\ attempt \in [Runs -> [Specs -> AttemptRec]]
  BY DEF ModelInv
<1>1. ASSUME NEW r \in Runs, Subscribe(r) PROVE ModelInv'
  <2>1. /\ voice' = voice /\ voice[r] = {} /\ stream' = [stream EXCEPT ![r] = "open"]
        /\ StartAttempt(r, 1, attempt[r], bulkhead)
    BY <1>1 DEF Subscribe, ModelInv
  <2>2. DOMAIN stream' = Runs /\ \A u \in Runs : stream'[u] = "new" => stream[u] = "new"
    BY <2>1, <1>0
  <2>3. PICK a \in [Specs -> AttemptRec] : a = attempt[r]
    BY <1>0
  <2>4. PICK c : c = bulkhead
    OBVIOUS
  <2>5. StartAttempt(r, 1, a, c)
    BY <2>1, <2>3, <2>4
  <2>6. QED BY <2>1, <2>2, <2>5, StartsSilent
<1>2. ASSUME NEW r \in Runs, Leave(r) PROVE ModelInv'
  <2>1. /\ voice' = voice /\ current' = current /\ stream' = [stream EXCEPT ![r] = "closed"]
        /\ attempt' = [attempt EXCEPT ![r][current[r]].live = FALSE]
    BY <1>2 DEF Leave
  <2>2. DOMAIN stream' = Runs /\ \A u \in Runs : stream'[u] = "new" => stream[u] = "new"
    BY <2>1, <1>0
  <2> DEFINE f == [attempt[r] EXCEPT ![current[r]].live = FALSE]
  <2>3. /\ f \in [Specs -> AttemptRec]
        /\ \A i \in Specs : attempt[r][i].answered => f[i].answered
    <3>0. PICK k : k = current[r]
      OBVIOUS
    <3>1. PICK g \in [Specs -> AttemptRec] : g = attempt[r]
      BY <1>0
    <3>2. f = [g EXCEPT ![k].live = FALSE]
      BY <3>0, <3>1
    <3>3. QED BY <3>1, <3>2, HangUp
  <2>4. attempt' = [attempt EXCEPT ![r] = f]
    BY <2>1
  <2> HIDE DEF f
  <2>5. /\ attempt' \in [Runs -> [Specs -> AttemptRec]]
        /\ \A u \in Runs, i \in Specs : attempt[u][i].answered => attempt'[u][i].answered
    BY <2>3, <2>4, <1>0
  <2>6. QED BY <2>1, <2>2, <2>5, VoicesKept
<1>3. ASSUME NEW r \in Runs, NEW i \in Specs, Output(r, i) PROVE ModelInv'
  <2> DEFINE f == [Disarmed(r, i) EXCEPT ![i].answered = TRUE]
  <2>1. /\ current' = current /\ stream' = stream /\ i = current[r]
        /\ attempt' = [attempt EXCEPT ![r] = f]
        /\ voice' = [voice EXCEPT ![r] = IF stream[r] = "open" THEN @ \cup {i} ELSE @]
    BY <1>3 DEF Output, Mine
  <2>2. /\ f \in [Specs -> AttemptRec] /\ f[i].answered
        /\ \A j \in Specs : attempt[r][j].answered => f[j].answered
    BY AttemptForms
  <2> HIDE DEF f
  <2>3. /\ attempt' \in [Runs -> [Specs -> AttemptRec]] /\ attempt'[r] = f
        /\ \A u \in Runs : u # r => attempt'[u] = attempt[u]
    BY <2>1, <2>2, <1>0
  <2>4. /\ voice' \in [Runs -> SUBSET Specs] /\ voice'[r] \subseteq voice[r] \cup {i}
        /\ stream[r] # "open" => voice'[r] = voice[r]
        /\ \A u \in Runs : u # r => voice'[u] = voice[u]
    BY <2>1, <1>0
  <2>5. \A u \in Runs : \A j \in voice'[u] : attempt'[u][j].answered
    BY <2>2, <2>3, <2>4, <1>0 DEF ModelInv
  <2>6. OneVoice'
    BY <2>1, <2>4 DEF ModelInv, OneVoice
  <2>7. \A u \in Runs : stream'[u] = "new" => voice'[u] = {}
    BY <2>1, <2>4 DEF ModelInv
  <2>8. QED BY <2>1, <2>3, <2>4, <2>5, <2>6, <2>7, <1>0 DEF ModelInv
<1>4. ASSUME NEW r \in Runs, NEW i \in Specs,
             RunError(r, i) \/ Throw(r, i) \/ Complete(r, i) \/ FirstByteTimeout(r, i)
      PROVE  ModelInv'
  <2>1. voice' = voice
    BY <1>4 DEF RunError, Throw, Complete, FirstByteTimeout
  <2>2. /\ stream' = stream \/ stream' = [stream EXCEPT ![r] = "closed"]
        /\ \/ /\ current' = current
              /\ \/ attempt' = [attempt EXCEPT ![r] = Over(r, i)]
                 \/ attempt' = [attempt EXCEPT ![r] = Disarmed(r, i)]
           \/ /\ i = current[r] /\ ~attempt[r][i].answered
              /\ \/ StartAttempt(r, i + 1, Disarmed(r, i), bulkhead)
                 \/ StartAttempt(r, i + 1, Over(r, i), Freed(i))
                 \/ StartAttempt(r, i + 1, Disarmed(r, i), Freed(i))
    BY <1>4 DEF RunError, Throw, Complete, FirstByteTimeout, Mine
  <2>3. DOMAIN stream' = Runs /\ \A u \in Runs : stream'[u] = "new" => stream[u] = "new"
    BY <2>2, <1>0
  <2>4. ASSUME current' = current, NEW f \in [Specs -> AttemptRec],
               attempt' = [attempt EXCEPT ![r] = f],
               \A j \in Specs : attempt[r][j].answered => f[j].answered
        PROVE  ModelInv'
    <3>1. /\ attempt' \in [Runs -> [Specs -> AttemptRec]]
          /\ \A u \in Runs, j \in Specs : attempt[u][j].answered => attempt'[u][j].answered
      BY <2>4, <1>0
    <3>2. QED BY <3>1, <2>1, <2>3, <2>4, VoicesKept
  <2>5. ASSUME i = current[r], ~attempt[r][i].answered,
               NEW f \in [Specs -> AttemptRec], NEW c, StartAttempt(r, i + 1, f, c)
        PROVE  ModelInv'
    <3>1. voice[r] = {}
      BY <2>5, Silent
    <3>2. QED BY <3>1, <2>1, <2>3, <2>5, StartsSilent
  <2>6. PICK f1 \in [Specs -> AttemptRec], f2 \in [Specs -> AttemptRec] :
           /\ f1 = Disarmed(r, i) /\ f2 = Over(r, i)
           /\ \A j \in Specs : attempt[r][j].answered => f1[j].answered /\ f2[j].answered
    BY AttemptForms
  <2>7. PICK c1, c2 : c1 = bulkhead /\ c2 = Freed(i)
    OBVIOUS
  <2>8. QED BY <2>2, <2>4, <2>5, <2>6, <2>7
<1>5. ASSUME NEW r \in Runs, NEW i \in Specs, GivenUp(r, i) PROVE ModelInv'
  <2>1. /\ voice' = voice /\ current' = current /\ stream' = stream
        /\ attempt' = [attempt EXCEPT ![r][i].live = FALSE]
    BY <1>5 DEF GivenUp
  <2> DEFINE f == [attempt[r] EXCEPT ![i].live = FALSE]
  <2>2. /\ f \in [Specs -> AttemptRec]
        /\ \A j \in Specs : attempt[r][j].answered => f[j].answered
    <3>1. PICK g \in [Specs -> AttemptRec] : g = attempt[r]
      BY <1>0
    <3>2. f = [g EXCEPT ![i].live = FALSE]
      BY <3>1
    <3>3. QED BY <3>1, <3>2, HangUp
  <2>3. attempt' = [attempt EXCEPT ![r] = f]
    BY <2>1
  <2> HIDE DEF f
  <2>4. /\ attempt' \in [Runs -> [Specs -> AttemptRec]]
        /\ \A u \in Runs, j \in Specs : attempt[u][j].answered => attempt'[u][j].answered
    BY <2>2, <2>3, <1>0
  <2>5. QED BY <2>1, <2>4, <1>0, VoicesKept
<1>6. CASE UNCHANGED modelVars
  <2>1. current' = current /\ stream' = stream /\ attempt' = attempt /\ voice' = voice
    BY <1>6 DEF modelVars
  <2>2. QED BY <2>1 DEF ModelInv, OneVoice
<1>7. QED
  BY <1>1, <1>2, <1>3, <1>4, <1>5, <1>6 DEF ModelNext

(* "A half-streamed answer is never restarted": for any number of specifiers   *)
(* and concurrent runs, what a client sees comes from one attempt.             *)
THEOREM ModelSpeaksOnce == ModelSpec => []OneVoice
<1>1. ModelInv => OneVoice
  BY DEF ModelInv
<1>2. QED BY <1>1, ModelInitInv, ModelNextInv, PTL DEF ModelSpec

----------------------------------------------------------------------------
(* The counters.  A run tries a specifier once, so a counter counts no run     *)
(* twice: it is at most the number of runs that came as far as its specifier.  *)
Reached(c, i) == {r \in Runs : c[r] >= i}

Counted ==
    /\ current \in [Runs -> 0..NSpecs] /\ stream \in [Runs -> {"new", "open", "closed"}]
    /\ bulkhead \in [Specs -> Nat]
    /\ \A r \in Runs : stream[r] = "new" => current[r] = 0
    /\ \A i \in Specs : bulkhead[i] <= Cardinality(Reached(current, i))

(* attempt() always finds a specifier, the last one at the latest.             *)
LEMMA ChosenIsAhead ==
    ASSUME NEW counts \in [Specs -> Nat], NEW from \in Specs
    PROVE  Chosen(counts, from) \in Specs /\ Chosen(counts, from) >= from
<1> DEFINE Free(i) == i = NSpecs \/ counts[i] < BulkheadMax
           T == {i \in from..NSpecs : Free(i)}
<1>0. NSpecs \in Nat /\ from \in Nat /\ 1 <= from /\ from <= NSpecs /\ BulkheadMax \in Nat
  BY ModelAssumption DEF Specs
<1>1. NSpecs \in T /\ T \subseteq Nat
  BY <1>0
<1>2. PICK i \in T : \A m \in T : i <= m
  BY <1>1, LeastNat
<1>3. i \in from..NSpecs /\ Free(i)
  BY <1>2
<1>4. \A j \in from..(i - 1) : counts[j] >= BulkheadMax
  <2>1. SUFFICES ASSUME NEW j \in from..(i - 1) PROVE counts[j] >= BulkheadMax
    OBVIOUS
  <2>2. j \in from..NSpecs /\ ~(i <= j) /\ j \in Specs
    BY <1>0, <1>3 DEF Specs
  <2>3. ~(counts[j] < BulkheadMax)
    BY <1>2, <2>2
  <2>4. counts[j] \in Nat
    BY <2>2
  <2>5. QED
    BY <1>0, <2>3, <2>4
<1>5. \E k \in from..NSpecs : Free(k) /\ \A j \in from..(k - 1) : counts[j] >= BulkheadMax
  BY <1>3, <1>4
<1> HIDE DEF T, Free
<1>6. Chosen(counts, from) \in from..NSpecs
  BY <1>5, Zenon DEF Chosen, Free
<1>7. QED
  BY <1>0, <1>6 DEF Specs

LEMMA ReachedFinite ==
    ASSUME NEW c, NEW i
    PROVE  IsFiniteSet(Reached(c, i)) /\ Cardinality(Reached(c, i)) \in Nat
           /\ Cardinality(Reached(c, i)) <= Cardinality(Runs) /\ Cardinality(Runs) \in Nat
<1>1. Reached(c, i) \in SUBSET Runs
  BY DEF Reached
<1>2. QED
  BY <1>1, FS_Subset, FS_CardinalityType, ModelAssumption

(* A run that goes on to a later specifier is counted there for the first time. *)
LEMMA ReachedMore ==
    ASSUME NEW c \in [Runs -> 0..NSpecs], NEW r \in Runs, NEW k \in Specs, c[r] < k, NEW d,
           d = [c EXCEPT ![r] = k]
    PROVE  /\ d \in [Runs -> 0..NSpecs]
           /\ \A j \in Specs : Cardinality(Reached(c, j)) <= Cardinality(Reached(d, j))
           /\ Cardinality(Reached(c, k)) + 1 = Cardinality(Reached(d, k))
<1>0. NSpecs \in Nat /\ k \in Nat /\ k \in 0..NSpecs
  BY ModelAssumption DEF Specs
<1>1. d \in [Runs -> 0..NSpecs] /\ \A u \in Runs : d[u] = IF u = r THEN k ELSE c[u]
  BY <1>0
<1>2. \A u \in Runs : c[u] \in Nat /\ d[u] \in Nat /\ c[u] <= d[u]
  BY <1>0, <1>1
<1>3. ASSUME NEW j \in Specs
      PROVE  Cardinality(Reached(c, j)) <= Cardinality(Reached(d, j))
  <2>1. j \in Nat
    BY DEF Specs
  <2>2. \A u \in Runs : c[u] >= j => d[u] >= j
    BY <1>2, <2>1
  <2>3. Reached(c, j) \in SUBSET Reached(d, j)
    BY <2>2 DEF Reached
  <2>4. QED
    BY <2>3, ReachedFinite, FS_Subset
<1>4. Reached(d, k) = Reached(c, k) \cup {r} /\ r \notin Reached(c, k)
  <2>1. ~(c[r] >= k) /\ d[r] >= k
    BY <1>0, <1>1, <1>2
  <2>2. \A u \in Runs : u # r => d[u] = c[u]
    BY <1>1
  <2>3. QED
    BY <2>1, <2>2 DEF Reached
<1>5. Cardinality(Reached(d, k)) = Cardinality(Reached(c, k)) + 1
  BY <1>4, ReachedFinite, FS_AddElement
<1>6. QED
  BY <1>1, <1>3, <1>5

(* A run begins an attempt, with the counters as they are or one of them freed. *)
LEMMA StartCounts ==
    ASSUME Counted, NEW r \in Runs, NEW from \in Specs, current[r] < from, NEW f,
           NEW counts \in [Specs -> Nat], \A i \in Specs : counts[i] <= bulkhead[i],
           StartAttempt(r, from, f, counts),
           stream' \in [Runs -> {"new", "open", "closed"}], stream'[r] # "new",
           \A u \in Runs : stream'[u] = "new" => stream[u] = "new"
    PROVE  Counted'
<1>1. PICK k : k = Chosen(counts, from)
  OBVIOUS
<1>2. k \in Specs /\ k >= from
  BY <1>1, ChosenIsAhead
<1>3. current' = [current EXCEPT ![r] = k] /\ bulkhead' = [counts EXCEPT ![k] = @ + 1]
  BY <1>1 DEF StartAttempt
<1>4. current \in [Runs -> 0..NSpecs] /\ bulkhead \in [Specs -> Nat]
      /\ \A i \in Specs : bulkhead[i] <= Cardinality(Reached(current, i))
  BY DEF Counted
<1>5. current[r] < k
  BY <1>2, <1>4, ModelAssumption DEF Specs
<1>6. /\ current' \in [Runs -> 0..NSpecs]
      /\ \A j \in Specs : Cardinality(Reached(current, j)) <= Cardinality(Reached(current', j))
      /\ Cardinality(Reached(current, k)) + 1 = Cardinality(Reached(current', k))
  <2>1. PICK c, d : c = current /\ d = current'
    OBVIOUS
  <2>2. c \in [Runs -> 0..NSpecs] /\ c[r] < k /\ d = [c EXCEPT ![r] = k]
    BY <1>3, <1>4, <1>5, <2>1
  <2>3. /\ d \in [Runs -> 0..NSpecs]
        /\ \A j \in Specs : Cardinality(Reached(c, j)) <= Cardinality(Reached(d, j))
        /\ Cardinality(Reached(c, k)) + 1 = Cardinality(Reached(d, k))
    BY <1>2, <2>2, ReachedMore
  <2>4. QED
    BY <2>1, <2>3, Zenon
<1>7. bulkhead' \in [Specs -> Nat]
      /\ \A j \in Specs : bulkhead'[j] = IF j = k THEN counts[j] + 1 ELSE counts[j]
  BY <1>2, <1>3
<1>8. \A u \in Runs : u # r => current'[u] = current[u]
  BY <1>3, <1>4
<1>9. \A j \in Specs : bulkhead'[j] <= Cardinality(Reached(current', j))
  <2>1. TAKE j \in Specs
  <2>2. PICK c, d : c = current /\ d = current'
    OBVIOUS
  <2>3. Cardinality(Reached(current, j)) \in Nat /\ Cardinality(Reached(current', j)) \in Nat
    BY <2>2, ReachedFinite
  <2>4. counts[j] \in Nat /\ bulkhead[j] \in Nat /\ counts[j] <= bulkhead[j]
        /\ bulkhead[j] <= Cardinality(Reached(current, j))
    BY <1>4
  <2>5. QED
    BY <1>6, <1>7, <2>3, <2>4
<1>10. QED
  BY <1>6, <1>7, <1>8, <1>9 DEF Counted

(* No attempt begins. *)
LEMMA FewerCounted ==
    ASSUME Counted, current' = current, bulkhead' \in [Specs -> Nat],
           \A i \in Specs : bulkhead'[i] <= bulkhead[i],
           stream' \in [Runs -> {"new", "open", "closed"}],
           \A u \in Runs : stream'[u] = "new" => stream[u] = "new"
    PROVE  Counted'
<1>1. \A i \in Specs : bulkhead'[i] <= Cardinality(Reached(current', i))
  <2>1. TAKE i \in Specs
  <2>2. PICK c : c = current
    OBVIOUS
  <2>3. Cardinality(Reached(current, i)) \in Nat
    BY <2>2, ReachedFinite
  <2>4. bulkhead[i] \in Nat /\ bulkhead'[i] \in Nat /\ bulkhead[i] <= Cardinality(Reached(current, i))
    BY DEF Counted
  <2>5. QED
    BY <2>3, <2>4
<1>2. QED
  BY <1>1 DEF Counted

LEMMA FreedLess ==
    ASSUME Counted, NEW i \in Specs
    PROVE  /\ Freed(i) \in [Specs -> Nat] /\ \A j \in Specs : Freed(i)[j] <= bulkhead[j]
           /\ bulkhead \in [Specs -> Nat] /\ \A j \in Specs : bulkhead[j] <= bulkhead[j]
<1>1. bulkhead \in [Specs -> Nat]
  BY DEF Counted
<1>2. QED
  BY <1>1 DEF Freed

LEMMA CountsKept == Counted /\ [ModelNext]_modelVars => Counted'
<1> SUFFICES ASSUME Counted, [ModelNext]_modelVars PROVE Counted'
  OBVIOUS
<1>0. /\ current \in [Runs -> 0..NSpecs] /\ stream \in [Runs -> {"new", "open", "closed"}]
      /\ bulkhead \in [Specs -> Nat] /\ \A r \in Runs : stream[r] = "new" => current[r] = 0
  BY DEF Counted
<1>1. ASSUME UNCHANGED <<current, bulkhead>>,
             stream' = stream \/ \E r \in Runs : stream' = [stream EXCEPT ![r] = "closed"]
      PROVE  Counted'
  BY <1>0, <1>1, FewerCounted
<1>2. ASSUME NEW r \in Runs, Subscribe(r) PROVE Counted'
  <2>1. stream[r] = "new" /\ stream' = [stream EXCEPT ![r] = "open"]
        /\ StartAttempt(r, 1, attempt[r], bulkhead)
    BY <1>2 DEF Subscribe
  <2>2. 1 \in Specs /\ current[r] < 1
    BY <1>0, <2>1, ModelAssumption DEF Specs
  <2>3. stream' \in [Runs -> {"new", "open", "closed"}] /\ stream'[r] # "new"
        /\ \A u \in Runs : stream'[u] = "new" => stream[u] = "new"
    BY <1>0, <2>1
  <2>4. PICK f, c : f = attempt[r] /\ c = bulkhead
    OBVIOUS
  <2>5. StartAttempt(r, 1, f, c) /\ c \in [Specs -> Nat] /\ \A i \in Specs : c[i] <= bulkhead[i]
    BY <1>0, <2>1, <2>4
  <2>6. QED
    BY <2>2, <2>3, <2>5, StartCounts
<1>3. ASSUME NEW r \in Runs, Leave(r) PROVE Counted'
  BY <1>1, <1>3 DEF Leave
<1>4. ASSUME NEW r \in Runs, NEW i \in Specs, Output(r, i) \/ Complete(r, i) \/ GivenUp(r, i)
      PROVE  Counted'
  BY <1>1, <1>4 DEF Output, Complete, GivenUp
<1>5. ASSUME NEW r \in Runs, NEW i \in Specs, i = current[r], HasFallback(r), stream' = stream,
             NEW f, NEW c \in [Specs -> Nat], \A j \in Specs : c[j] <= bulkhead[j],
             StartAttempt(r, i + 1, f, c)
      PROVE  Counted'
  <2>1. i + 1 \in Specs /\ current[r] < i + 1
    BY <1>0, <1>5, ModelAssumption DEF Specs, HasFallback
  <2>2. stream[r] # "new"
    BY <1>0, <1>5 DEF Specs
  <2>3. PICK n : n = i + 1
    OBVIOUS
  <2>4. StartAttempt(r, n, f, c) /\ n \in Specs /\ current[r] < n
    BY <1>5, <2>1, <2>3
  <2>5. QED
    BY <1>0, <1>5, <2>2, <2>4, StartCounts
<1>6. ASSUME NEW r \in Runs, NEW i \in Specs,
             RunError(r, i) \/ Throw(r, i) \/ FirstByteTimeout(r, i)
      PROVE  Counted'
  <2>1. \/ /\ i = current[r] /\ HasFallback(r) /\ stream' = stream
           /\ \/ StartAttempt(r, i + 1, Disarmed(r, i), bulkhead)
              \/ StartAttempt(r, i + 1, Over(r, i), Freed(i))
              \/ StartAttempt(r, i + 1, Disarmed(r, i), Freed(i))
        \/ /\ current' = current /\ bulkhead' = Freed(i)
           /\ stream' = stream \/ stream' = [stream EXCEPT ![r] = "closed"]
    BY <1>6 DEF RunError, Throw, FirstByteTimeout, Mine
  <2>2. PICK c1, c2, f1, f2 : c1 = bulkhead /\ c2 = Freed(i) /\ f1 = Disarmed(r, i) /\ f2 = Over(r, i)
    OBVIOUS
  <2>3. /\ c1 \in [Specs -> Nat] /\ \A j \in Specs : c1[j] <= bulkhead[j]
        /\ c2 \in [Specs -> Nat] /\ \A j \in Specs : c2[j] <= bulkhead[j]
    BY <2>2, FreedLess
  <2>4. CASE /\ current' = current /\ bulkhead' = Freed(i)
             /\ stream' = stream \/ stream' = [stream EXCEPT ![r] = "closed"]
    <3>1. bulkhead' = c2
      BY <2>2, <2>4
    <3>2. bulkhead' \in [Specs -> Nat] /\ \A j \in Specs : bulkhead'[j] <= bulkhead[j]
      BY <2>3, <3>1
    <3>3. stream' \in [Runs -> {"new", "open", "closed"}]
          /\ \A u \in Runs : stream'[u] = "new" => stream[u] = "new"
      BY <1>0, <2>4
    <3>4. QED
      BY <2>4, <3>2, <3>3, FewerCounted
  <2>5. CASE /\ i = current[r] /\ HasFallback(r) /\ stream' = stream
             /\ \/ StartAttempt(r, i + 1, Disarmed(r, i), bulkhead)
                \/ StartAttempt(r, i + 1, Over(r, i), Freed(i))
                \/ StartAttempt(r, i + 1, Disarmed(r, i), Freed(i))
    <3>1. StartAttempt(r, i + 1, f1, c1) \/ StartAttempt(r, i + 1, f2, c2)
          \/ StartAttempt(r, i + 1, f1, c2)
      BY <2>2, <2>5
    <3>2. QED
      BY <1>5, <2>3, <2>5, <3>1
  <2>6. QED
    BY <2>1, <2>4, <2>5
<1>7. CASE UNCHANGED modelVars
  BY <1>1, <1>7 DEF modelVars
<1>8. QED
  BY <1>2, <1>3, <1>4, <1>6, <1>7 DEF ModelNext

LEMMA CountsStart == ModelInit => Counted
<1> SUFFICES ASSUME ModelInit PROVE Counted
  OBVIOUS
<1>1. current \in [Runs -> 0..NSpecs] /\ stream \in [Runs -> {"new", "open", "closed"}]
      /\ bulkhead \in [Specs -> Nat] /\ \A r \in Runs : current[r] = 0
  BY ModelAssumption DEF ModelInit
<1>2. \A i \in Specs : bulkhead[i] <= Cardinality(Reached(current, i))
  <2>1. PICK c : c = current
    OBVIOUS
  <2>2. \A i \in Specs : Cardinality(Reached(current, i)) \in Nat /\ bulkhead[i] = 0
    BY <2>1, ReachedFinite DEF ModelInit
  <2>3. QED
    BY <2>2
<1>3. QED
  BY <1>1, <1>2 DEF Counted

LEMMA CountsBounded == Counted => bulkhead \in [Specs -> 0..Cardinality(Runs)]
<1> SUFFICES ASSUME Counted PROVE bulkhead \in [Specs -> 0..Cardinality(Runs)]
  OBVIOUS
<1>1. PICK c : c = current
  OBVIOUS
<1>2. \A i \in Specs : bulkhead[i] \in 0..Cardinality(Runs)
  <2>1. TAKE i \in Specs
  <2>2. Cardinality(Reached(c, i)) \in Nat /\ Cardinality(Reached(c, i)) <= Cardinality(Runs)
        /\ Cardinality(Runs) \in Nat
    BY ReachedFinite
  <2>3. bulkhead[i] \in Nat /\ bulkhead[i] <= Cardinality(Reached(c, i))
    BY <1>1 DEF Counted
  <2>4. QED
    BY <2>2, <2>3
<1>3. QED
  BY <1>2 DEF Counted

----------------------------------------------------------------------------
(* WhatsApp, inbound *)
DeliveryRec == [pc : {"off", "insert", "create", "mark"}, batch : SUBSET Messages,
                rest : SUBSET Messages]

(* When the message at hand has its task, the next one may be taken up. *)
LEMMA NextMessageKeeps ==
    ASSUME InboundInv, NEW v \in Deliveries, delivery[v].pc # "off", Current(v) \in waTasks,
           NextMessage(v), waTasks' = waTasks
    PROVE  /\ delivery' \in [Deliveries -> DeliveryRec]
           /\ acked' \subseteq waTasks /\ acked' \subseteq Messages
           /\ \A u \in Deliveries : DeliveryHasTasks(u)'
<1> DEFINE rest == delivery[v].rest \ {Current(v)}
<1>1. /\ delivery \in [Deliveries -> DeliveryRec] /\ DeliveryHasTasks(v)
      /\ acked \subseteq waTasks /\ waTasks \subseteq Messages
  BY DEF InboundInv, InboundTypeOK, AnsweredHasTask, DeliveryRec
<1>2. delivery[v] \in DeliveryRec /\ delivery[v].batch \ rest \subseteq waTasks
  BY <1>1 DEF DeliveryHasTasks
<1>3. CASE rest = {}
  <2>1. delivery' = [delivery EXCEPT ![v] = NoDelivery] /\ acked' = acked \cup delivery[v].batch
    BY <1>3 DEF NextMessage
  <2>2. /\ delivery' \in [Deliveries -> DeliveryRec] /\ delivery'[v].pc = "off"
        /\ \A u \in Deliveries : u # v => delivery'[u] = delivery[u]
    BY <2>1, <1>1 DEF NoDelivery, DeliveryRec
  <2>3. acked' \subseteq waTasks
    BY <2>1, <1>1, <1>2, <1>3
  <2>4. \A u \in Deliveries : DeliveryHasTasks(u)'
    BY <2>2 DEF DeliveryHasTasks, InboundInv, Current
  <2>5. QED BY <2>2, <2>3, <2>4, <1>1
<1>4. CASE rest # {}
  <2>1. /\ delivery' = [delivery EXCEPT ![v].pc = "insert", ![v].rest = rest]
        /\ acked' = acked
    BY <1>4 DEF NextMessage
  <2>2. rest \subseteq delivery[v].rest /\ rest \in SUBSET Messages
    BY <1>2 DEF DeliveryRec
  <2> HIDE DEF rest
  <2>3. /\ delivery' \in [Deliveries -> DeliveryRec] /\ delivery'[v].pc = "insert"
        /\ delivery'[v].rest = rest /\ delivery'[v].batch = delivery[v].batch
        /\ \A u \in Deliveries : u # v => delivery'[u] = delivery[u]
    BY <2>1, <2>2, <1>1 DEF DeliveryRec
  <2>4. DeliveryHasTasks(v)'
    BY <2>2, <2>3, <1>1, <1>2, <1>4 DEF DeliveryHasTasks
  <2>5. \A u \in Deliveries : u # v => DeliveryHasTasks(u)'
    BY <2>3 DEF DeliveryHasTasks, InboundInv, Current
  <2>6. QED BY <2>1, <2>3, <2>4, <2>5, <1>1
<1>5. QED BY <1>3, <1>4

(* A delivery that only moves on keeps its messages. *)
LEMMA DeliveryMoves ==
    ASSUME InboundInv, NEW v \in Deliveries, NEW pc \in {"create", "mark"},
           delivery[v].pc # "off",
           delivery' = [delivery EXCEPT ![v].pc = pc], waTasks \subseteq waTasks',
           pc = "mark" => Current(v) \in waTasks'
    PROVE  /\ delivery' \in [Deliveries -> DeliveryRec]
           /\ \A u \in Deliveries : DeliveryHasTasks(u)'
<1>1. delivery \in [Deliveries -> DeliveryRec] /\ DeliveryHasTasks(v)
  BY DEF InboundInv, InboundTypeOK, DeliveryRec
<1>2. /\ delivery' \in [Deliveries -> DeliveryRec] /\ delivery'[v].pc = pc
      /\ delivery'[v].rest = delivery[v].rest /\ delivery'[v].batch = delivery[v].batch
      /\ \A u \in Deliveries : u # v => delivery'[u] = delivery[u]
  BY <1>1 DEF DeliveryRec
<1>3. DeliveryHasTasks(v)'
  BY <1>1, <1>2 DEF DeliveryHasTasks, Current
<1>4. \A u \in Deliveries : u # v => DeliveryHasTasks(u)'
  BY <1>2 DEF DeliveryHasTasks, InboundInv, Current
<1>5. QED BY <1>2, <1>3, <1>4

LEMMA InboundInitInv == InboundInit => InboundInv
  BY InboundAssumption
     DEF InboundInit, InboundInv, InboundTypeOK, AnsweredHasTask, DeliveryHasTasks, NoDelivery

LEMMA InboundNextInv == InboundInv /\ [InboundNext]_inVars => InboundInv'
<1> SUFFICES ASSUME InboundInv, [InboundNext]_inVars PROVE InboundInv'
  OBVIOUS
<1>0. /\ inbox \in [Messages -> {"absent", "received", "queued"}] /\ waTasks \subseteq Messages
      /\ delivery \in [Deliveries -> DeliveryRec] /\ delivered \in 0..MaxDeliveries
      /\ acked \subseteq Messages /\ acked \subseteq waTasks
      /\ \A m \in Messages : inbox[m] = "queued" => m \in waTasks
      /\ \A v \in Deliveries : DeliveryHasTasks(v)
  BY DEF InboundInv, InboundTypeOK, AnsweredHasTask, DeliveryRec
<1>a. ASSUME NEW v \in Deliveries, delivery[v].pc # "off"
      PROVE  Current(v) \in delivery[v].rest /\ Current(v) \in Messages
  BY <1>0, <1>a DEF Current, DeliveryHasTasks, DeliveryRec
<1>b. ASSUME inbox' \in [Messages -> {"absent", "received", "queued"}], waTasks' \subseteq Messages,
             delivery' \in [Deliveries -> DeliveryRec], delivered' \in 0..MaxDeliveries,
             acked' \subseteq waTasks',
             \A m \in Messages : inbox'[m] = "queued" => m \in waTasks',
             \A v \in Deliveries : DeliveryHasTasks(v)'
      PROVE  InboundInv'
  BY <1>b DEF InboundInv, InboundTypeOK, AnsweredHasTask, DeliveryRec
<1>1. ASSUME NEW v \in Deliveries, NEW batch \in SUBSET Messages, Receive(v, batch)
      PROVE  InboundInv'
  <2>1. /\ batch # {} /\ delivered' = delivered + 1 /\ delivered < MaxDeliveries
        /\ delivery' = [delivery EXCEPT ![v] = [pc |-> "insert", batch |-> batch, rest |-> batch]]
        /\ UNCHANGED <<inbox, waTasks, acked>>
    BY <1>1 DEF Receive
  <2>2. /\ delivery' \in [Deliveries -> DeliveryRec]
        /\ delivery'[v] = [pc |-> "insert", batch |-> batch, rest |-> batch]
        /\ \A u \in Deliveries : u # v => delivery'[u] = delivery[u]
    BY <2>1, <1>0 DEF DeliveryRec
  <2>3. delivered' \in 0..MaxDeliveries
    BY <2>1, <1>0, InboundAssumption
  <2>4. \A u \in Deliveries : DeliveryHasTasks(u)'
    BY <2>1, <2>2, <1>0 DEF DeliveryHasTasks, Current
  <2>5. QED BY <2>1, <2>2, <2>3, <2>4, <1>0, <1>b
<1>2. ASSUME NEW v \in Deliveries, InsertInbox(v) PROVE InboundInv'
  <2>1. delivery[v].pc = "insert" /\ waTasks' = waTasks /\ delivered' = delivered
    BY <1>2 DEF InsertInbox
  <2>2. CASE Known(Current(v))
    <3>1. NextMessage(v) /\ inbox' = inbox
      BY <1>2, <2>2 DEF InsertInbox
    <3>2. Current(v) \in waTasks
      BY <2>1, <2>2, <1>0, <1>a DEF Known
    <3>3. QED BY <3>1, <3>2, <2>1, <1>0, <1>b, NextMessageKeeps
  <2>3. CASE ~Known(Current(v))
    <3>1. /\ inbox' = [inbox EXCEPT ![Current(v)] = "received"] /\ acked' = acked
          /\ delivery' = [delivery EXCEPT ![v].pc = "create"]
      BY <1>2, <2>3 DEF InsertInbox
    <3>2. /\ inbox' \in [Messages -> {"absent", "received", "queued"}]
          /\ \A m \in Messages : inbox'[m] = "queued" => inbox[m] = "queued"
      BY <3>1, <1>0
    <3>3. QED BY <3>1, <3>2, <2>1, <1>0, <1>b, DeliveryMoves
  <2>4. QED BY <2>2, <2>3
<1>3. ASSUME NEW v \in Deliveries, CreateTask(v) PROVE InboundInv'
  <2>1. /\ delivery[v].pc = "create" /\ waTasks' = waTasks \cup {Current(v)}
        /\ delivery' = [delivery EXCEPT ![v].pc = "mark"]
        /\ UNCHANGED <<inbox, delivered, acked>>
    BY <1>3 DEF CreateTask
  <2>2. QED BY <2>1, <1>0, <1>a, <1>b, DeliveryMoves
<1>4. ASSUME NEW v \in Deliveries, MarkQueued(v) PROVE InboundInv'
  <2>1. /\ delivery[v].pc = "mark" /\ inbox' = [inbox EXCEPT ![Current(v)] = "queued"]
        /\ NextMessage(v) /\ UNCHANGED <<waTasks, delivered>>
    BY <1>4 DEF MarkQueued
  <2>2. Current(v) \in waTasks
    BY <2>1, <1>0 DEF DeliveryHasTasks
  <2>3. /\ inbox' \in [Messages -> {"absent", "received", "queued"}]
        /\ \A m \in Messages : inbox'[m] = "queued" => m \in waTasks
    BY <2>1, <2>2, <1>0
  <2>4. QED BY <2>1, <2>2, <2>3, <1>0, <1>b, NextMessageKeeps
<1>5. ASSUME NEW v \in Deliveries, DeliveryFails(v) PROVE InboundInv'
  <2>1. /\ delivery' = [delivery EXCEPT ![v] = NoDelivery]
        /\ UNCHANGED <<inbox, waTasks, delivered, acked>>
    BY <1>5 DEF DeliveryFails
  <2>2. /\ delivery' \in [Deliveries -> DeliveryRec] /\ delivery'[v].pc = "off"
        /\ \A u \in Deliveries : u # v => delivery'[u] = delivery[u]
    BY <2>1, <1>0 DEF DeliveryRec, NoDelivery
  <2>3. \A u \in Deliveries : DeliveryHasTasks(u)'
    BY <2>1, <2>2, <1>0 DEF DeliveryHasTasks, Current
  <2>4. QED BY <2>1, <2>2, <2>3, <1>0, <1>b
<1>6. CASE UNCHANGED inVars
  <2>1. /\ inbox' = inbox /\ waTasks' = waTasks /\ delivery' = delivery
        /\ delivered' = delivered /\ acked' = acked
    BY <1>6 DEF inVars
  <2>2. QED BY <2>1, <1>0, <1>b DEF DeliveryHasTasks, Current
<1>7. QED
  BY <1>1, <1>2, <1>3, <1>4, <1>5, <1>6 DEF InboundNext

(* For any number of messages and overlapping deliveries, a message that was   *)
(* answered with 200, or that later deliveries pass over, has its task.        *)
THEOREM InboundLosesNothing == InboundSpec => []AnsweredHasTask
<1>1. InboundInv => AnsweredHasTask
  BY DEF InboundInv
<1>2. QED BY <1>1, InboundInitInv, InboundNextInv, PTL DEF InboundSpec

----------------------------------------------------------------------------
(* WhatsApp, outbound *)

DecisionsTyped == decision \in [Decisions -> DecisionRec]
DecisionsTypedNext == decision' \in [Decisions -> DecisionRec]
OthersDecide(q) == \A j \in Decisions : j # q => decision'[j] = decision[j]

(* q stays with its draft and moves to pc. *)
DecisionMoves(q, pc) ==
    OthersDecide(q) /\ decision'[q].pc = pc /\ decision'[q].draft = decision[q].draft

LEMMA DecisionGotoFields ==
    ASSUME NEW q \in Decisions, NEW pc \in DecisionPC, DecisionsTyped, DecisionGoto(q, pc)
    PROVE  /\ DecisionsTypedNext /\ DecisionMoves(q, pc)
           /\ decision'[q].result = decision[q].result
  BY DEF DecisionsTyped, DecisionsTypedNext, DecisionGoto, DecisionMoves, OthersDecide, DecisionRec

LEMMA DecisionResultFields ==
    ASSUME NEW q \in Decisions, NEW pc \in DecisionPC, NEW r \in Statuses, DecisionsTyped,
           decision' = [decision EXCEPT ![q].pc = pc, ![q].result = r]
    PROVE  DecisionsTypedNext /\ DecisionMoves(q, pc) /\ decision'[q].result = r
  BY DEF DecisionsTyped, DecisionsTypedNext, DecisionMoves, OthersDecide, DecisionRec

(* One record is replaced by another. *)
LEMMA OneDecisionFields ==
    ASSUME NEW q \in Decisions, NEW new \in DecisionRec, DecisionsTyped,
           decision' = [decision EXCEPT ![q] = new]
    PROVE  DecisionsTypedNext /\ OthersDecide(q) /\ decision'[q] = new
  BY DEF DecisionsTyped, DecisionsTypedNext, OthersDecide

LEMMA ReadDraftFields ==
    ASSUME NEW q \in Decisions, NEW kind \in {"approve", "reject"}, NEW d \in Drafts,
           NEW s \in DraftRow, DecisionsTyped,
           decision' = [decision EXCEPT ![q].kind = kind, ![q].draft = d, ![q].seen = s,
                                        ![q].pc = "ledger"]
    PROVE  /\ DecisionsTypedNext /\ OthersDecide(q) /\ decision'[q].pc = "ledger"
           /\ decision'[q].kind = kind
<1> DEFINE new == [decision[q] EXCEPT !.kind = kind, !.draft = d, !.seen = s, !.pc = "ledger"]
<1>1. s \in DraftRow \cup Operation /\ "ledger" \in DecisionPC
  BY DEF DecisionPC
<1>2. new \in DecisionRec /\ new.pc = "ledger" /\ new.kind = kind
  BY <1>1 DEF DecisionsTyped, DecisionRec
<1>3. decision' = [decision EXCEPT ![q] = new]
  BY DEF DecisionsTyped
<1> HIDE DEF new
<1>4. DecisionsTypedNext /\ OthersDecide(q) /\ decision'[q] = new
  BY <1>2, <1>3, OneDecisionFields
<1>5. QED
  BY <1>2, <1>4

LEMMA ReadOperationFields ==
    ASSUME NEW q \in Decisions, NEW r \in {"accepted", "failed"}, NEW d \in Drafts,
           OutboundTypes, ReadOperation(q, d, r)
    PROVE  /\ DecisionsTypedNext /\ OthersDecide(q) /\ decision'[q].pc = "swap"
           /\ decision'[q].seen = op[d] /\ decision'[q].result = r
<1>0. DecisionsTyped
  BY DEF OutboundTypes, DecisionsTyped
<1>1. PICK s \in Operation : s = op[d]
  BY DEF OutboundTypes
<1>2. decision' = [decision EXCEPT ![q].kind = "reconcile", ![q].draft = d, ![q].seen = s,
                                   ![q].result = r, ![q].pc = "swap"]
  BY <1>1 DEF ReadOperation
<1>3. s \in DraftRow \cup Operation /\ "swap" \in DecisionPC /\ r \in Statuses
  BY DEF DecisionPC, Statuses
<1>4. OthersDecide(q) /\ DOMAIN decision' = Decisions
  BY <1>0, <1>2 DEF DecisionsTyped, OthersDecide
<1>5. /\ decision'[q].pc = "swap" /\ decision'[q].seen = s /\ decision'[q].result = r
  BY <1>0, <1>2 DEF DecisionsTyped, DecisionRec
<1>6. decision'[q] \in DecisionRec
  <2>1. PICK old \in DecisionRec : old = decision[q]
    BY <1>0 DEF DecisionsTyped
  <2>2. decision'[q] = [old EXCEPT !.kind = "reconcile", !.draft = d, !.seen = s, !.result = r,
                                   !.pc = "swap"]
    BY <1>0, <1>2, <2>1 DEF DecisionsTyped
  <2>3. QED
    BY <1>3, <2>1, <2>2 DEF DecisionRec
<1>7. decision' = [j \in Decisions |-> decision'[j]]
  BY <1>0, <1>2 DEF DecisionsTyped
<1>8. DecisionsTypedNext
  BY <1>0, <1>4, <1>6, <1>7 DEF DecisionsTyped, DecisionsTypedNext, OthersDecide
<1>9. QED
  BY <1>1, <1>4, <1>5, <1>8

(* The operation row of d changes, and stays with its attempt. *)
OperationMoves(d, st, verdict) ==
    /\ op' \in [Drafts -> Operation] /\ op'[d].status = st
    /\ op'[d].by = op[d].by /\ op'[d].verdict = verdict
    /\ \A e \in Drafts : e # d => op'[e] = op[e]

LEMMA StatusFields ==
    ASSUME op \in [Drafts -> Operation], NEW d \in Drafts, NEW st \in Statuses,
           op' = [op EXCEPT ![d].status = st]
    PROVE  OperationMoves(d, st, op[d].verdict)
  BY DEF Operation, OperationMoves

LEMMA VerdictFields ==
    ASSUME op \in [Drafts -> Operation], NEW d \in Drafts, NEW st \in Statuses,
           op' = [op EXCEPT ![d].status = st, ![d].verdict = TRUE]
    PROVE  OperationMoves(d, st, TRUE)
  BY DEF Operation, OperationMoves

LEMMA OldFields ==
    ASSUME op \in [Drafts -> Operation], NEW d \in Drafts, op' = [op EXCEPT ![d].old = TRUE]
    PROVE  OperationMoves(d, op[d].status, op[d].verdict)
  BY DEF Operation, OperationMoves

(* Everything but the types. *)
OutboundCore ==
    /\ \A q \in Decisions : Attempt(q) /\ Verdict(q)
    /\ \A d \in Drafts : Judged(d)
    /\ SentOnce /\ LedgerIsHonest

LEMMA OutboundHalves == OutboundInv <=> OutboundTypes /\ OutboundCore
  BY DEF OutboundInv, OutboundCore
LEMMA OutboundHalvesNext == OutboundInv' <=> OutboundTypes' /\ OutboundCore'
  BY DEF OutboundInv, OutboundCore

(* A call that neither has an attempt nor judges one. *)
LEMMA OutboundQuiet ==
    ASSUME OutboundInv, NEW q \in Decisions, OthersDecide(q), op' = op, sends' = sends,
           decision'[q].pc \notin {"recheck", "send", "save", "swap"},
           decision'[q].pc = "ledger" => decision'[q].kind # "reconcile"
    PROVE  OutboundCore'
<1>1. OutboundCore
  BY OutboundHalves
<1>2. ASSUME NEW j \in Decisions PROVE Attempt(j)' /\ Verdict(j)'
  <2>1. CASE j = q
    BY <2>1 DEF Attempt, Verdict
  <2>2. CASE j # q
    BY <2>2, <1>1 DEF OutboundCore, Attempt, Verdict, OthersDecide, DraftOf
  <2>3. QED BY <2>1, <2>2
<1>3. QED
  BY <1>1, <1>2 DEF OutboundCore, Judged, SentOnce, LedgerIsHonest

(* The clock, the operator's configuration and the drafts. *)
LEMMA OutboundWorld ==
    ASSUME OutboundInv,
           \/ \E on \in BOOLEAN : Provision(on)
           \/ \E d \in Drafts : PrepareDraft(d) \/ DraftExpires(d) \/ MinutePasses(d)
           \/ UNCHANGED outVars
    PROVE  OutboundInv'
<1>0. OutboundTypes /\ OutboundCore
  BY OutboundHalves
<1>1. decision' = decision /\ sends' = sends
  BY DEF Provision, PrepareDraft, DraftExpires, MinutePasses, outVars
<1>2. channel' \in [gen : 0..MaxConnections, on : BOOLEAN]
  BY <1>0, OutboundAssumption
     DEF OutboundTypes, Provision, PrepareDraft, DraftExpires, MinutePasses, outVars
<1>3. draft' \in [Drafts -> DraftRow]
  <2>1. ASSUME NEW d \in Drafts, PrepareDraft(d) PROVE draft' \in [Drafts -> DraftRow]
    <3>1. [status |-> "awaiting_review", gen |-> channel.gen, expired |-> FALSE] \in DraftRow
      BY <1>0 DEF OutboundTypes, DraftRow
    <3>2. QED BY <3>1, <2>1, <1>0 DEF OutboundTypes, PrepareDraft
  <2>2. ASSUME NEW d \in Drafts, DraftExpires(d) PROVE draft' \in [Drafts -> DraftRow]
    BY <2>2, <1>0 DEF OutboundTypes, DraftExpires, DraftRow
  <2>3. ASSUME draft' = draft PROVE draft' \in [Drafts -> DraftRow]
    BY <2>3, <1>0 DEF OutboundTypes
  <2>4. QED BY <2>1, <2>2, <2>3 DEF Provision, MinutePasses, outVars
<1>4. /\ op' \in [Drafts -> Operation]
      /\ \A d \in Drafts : /\ op'[d].status = op[d].status /\ op'[d].by = op[d].by
                           /\ op'[d].verdict = op[d].verdict
  <2>1. CASE op' = op
    BY <2>1, <1>0 DEF OutboundTypes
  <2>2. ASSUME NEW d \in Drafts, op' = [op EXCEPT ![d].old = TRUE]
        PROVE  /\ op' \in [Drafts -> Operation]
               /\ \A e \in Drafts : /\ op'[e].status = op[e].status /\ op'[e].by = op[e].by
                                    /\ op'[e].verdict = op[e].verdict
    BY <2>2, <1>0, OldFields DEF OutboundTypes, OperationMoves
  <2>3. QED BY <2>1, <2>2 DEF Provision, PrepareDraft, DraftExpires, MinutePasses, outVars
<1>5. OutboundTypes'
  BY <1>0, <1>1, <1>2, <1>3, <1>4 DEF OutboundTypes
<1>6. \A q \in Decisions : Attempt(q)' /\ Verdict(q)'
  BY <1>0, <1>1, <1>4
     DEF OutboundTypes, OutboundCore, Attempt, Verdict, DraftOf, DecisionRec
<1>7. \A d \in Drafts : Judged(d)'
  BY <1>0, <1>1, <1>4 DEF OutboundCore, Judged
<1>8. SentOnce' /\ LedgerIsHonest'
  BY <1>0, <1>1, <1>4 DEF OutboundCore, SentOnce, LedgerIsHonest
<1>9. QED
  BY <1>5, <1>6, <1>7, <1>8, OutboundHalvesNext DEF OutboundCore

(* The decision is read, replayed, refused, or checked against the connection; *)
(* its result is cached; or its process dies. *)
LEMMA OutboundReads ==
    ASSUME OutboundInv, NEW q \in Decisions,
           \/ \E d \in Drafts, kind \in {"approve", "reject"} : ReadDraft(q, kind, d)
           \/ ReadLedger(q) \/ CheckConnection(q) \/ CacheStatus(q) \/ DecisionDies(q)
    PROVE  OutboundInv'
<1>0. OutboundTypes /\ DecisionsTyped
  BY OutboundHalves DEF OutboundTypes, DecisionsTyped
<1>1. channel' = channel /\ op' = op /\ sends' = sends
  BY DEF ReadDraft, ReadLedger, CheckConnection, CacheStatus, DecisionDies
<1>2. ASSUME NEW pc \in {"over", "insert", "check"}, DecisionGoto(q, pc)
      PROVE  DecisionsTypedNext /\ OthersDecide(q) /\ decision'[q].pc = pc
  BY <1>0, <1>2, DecisionGotoFields DEF DecisionPC, DecisionMoves
<1>3. ASSUME NEW d \in Drafts, NEW kind \in {"approve", "reject"}, ReadDraft(q, kind, d)
      PROVE  /\ DecisionsTypedNext /\ OthersDecide(q) /\ decision'[q].pc = "ledger"
             /\ decision'[q].kind = kind
  <2>1. PICK x \in DraftRow : x = draft[d]
    BY <1>0 DEF OutboundTypes
  <2>2. decision' = [decision EXCEPT ![q].kind = kind, ![q].draft = d, ![q].seen = x,
                                     ![q].pc = "ledger"]
    BY <1>3, <2>1 DEF ReadDraft
  <2>3. QED BY <2>2, <1>0, ReadDraftFields
<1>4. /\ DecisionsTypedNext /\ OthersDecide(q)
      /\ decision'[q].pc \in {"over", "insert", "check", "ledger"}
      /\ decision'[q].pc = "ledger" => decision'[q].kind # "reconcile"
  <2>1. ASSUME ReadLedger(q)
        PROVE  DecisionGoto(q, "over") \/ DecisionGoto(q, "insert") \/ DecisionGoto(q, "check")
    <3>1. decision[q].kind \in {"approve", "reject", "reconcile"}
      BY <1>0 DEF DecisionsTyped, DecisionRec
    <3>2. CASE decision[q].kind = "reconcile"
      BY <3>2, <2>1 DEF ReadLedger, DecisionAt, OutboundInv, Verdict
    <3>3. CASE decision[q].kind = "approve"
      BY <3>3, <2>1 DEF ReadLedger
    <3>4. CASE decision[q].kind = "reject"
      BY <3>4, <2>1 DEF ReadLedger
    <3>5. QED BY <3>1, <3>2, <3>3, <3>4
  <2>2. QED
    BY <2>1, <1>2, <1>3 DEF CheckConnection, CacheStatus, DecisionDies
<1>5. draft' \in [Drafts -> DraftRow]
  <2>1. CASE draft' = draft
    BY <2>1, <1>0 DEF OutboundTypes
  <2>2. CASE CacheStatus(q)
    <3>1. decision[q].draft \in Drafts /\ decision[q].result \in Statuses
      BY <1>0 DEF DecisionsTyped, DecisionRec
    <3>2. QED
      BY <3>1, <2>2, <1>0 DEF CacheStatus, OutboundTypes, DraftRow, DraftOf
  <2>3. QED BY <2>1, <2>2 DEF ReadDraft, ReadLedger, CheckConnection, DecisionDies
<1>6. OutboundTypes'
  BY <1>0, <1>1, <1>4, <1>5 DEF OutboundTypes, DecisionsTypedNext
<1>7. OutboundCore'
  BY <1>1, <1>4, OutboundQuiet
<1>8. QED BY <1>6, <1>7, OutboundHalvesNext

(* The attempt that the ledger names is the only one. *)
LEMMA OneAttempt ==
    ASSUME OutboundInv, NEW q \in Decisions, NEW j \in Decisions, j # q,
           decision[q].pc \in {"recheck", "send", "save"},
           decision[j].pc \in {"recheck", "send", "save"}
    PROVE  DraftOf(j) # DraftOf(q)
  BY DEF OutboundInv, Attempt

LEMMA OutboundInsert ==
    ASSUME OutboundInv, NEW q \in Decisions, InsertOperation(q)
    PROVE  OutboundInv'
<1>0. OutboundTypes /\ OutboundCore /\ DecisionsTyped
  BY OutboundHalves DEF OutboundTypes, DecisionsTyped
<1>1. /\ channel' = channel /\ draft' = draft /\ sends' = sends /\ decision[q].pc = "insert"
      /\ DraftOf(q) \in Drafts
  BY <1>0 DEF InsertOperation, DecisionsTyped, DecisionRec, DraftOf, DecisionAt
<1>2. CASE ~Undecided(DraftOf(q))
  <2>1. op' = op /\ DecisionGoto(q, "over")
    BY <1>2 DEF InsertOperation
  <2>2. DecisionsTypedNext /\ OthersDecide(q) /\ decision'[q].pc = "over"
    BY <2>1, <1>0, DecisionGotoFields DEF DecisionPC, DecisionMoves
  <2>3. OutboundTypes'
    BY <2>1, <2>2, <1>0, <1>1 DEF OutboundTypes, DecisionsTypedNext
  <2>4. QED BY <2>1, <2>2, <2>3, <1>1, OutboundQuiet, OutboundHalvesNext
<1>3. CASE Undecided(DraftOf(q))
  <2> DEFINE d == DraftOf(q)
             sending == decision[q].kind = "approve"
             st == IF sending THEN "dispatching" ELSE "rejected"
             pc == IF sending THEN "recheck" ELSE "cache"
             r == IF sending THEN decision[q].result ELSE "rejected"
             row == [NoOperation EXCEPT !.status = st, !.by = q]
  <2>1. /\ op' = [op EXCEPT ![d] = row]
        /\ decision' = [decision EXCEPT ![q].pc = pc, ![q].result = r]
    BY <1>3 DEF InsertOperation
  <2>2. /\ st \in {"dispatching", "rejected"} /\ pc \in {"recheck", "cache"}
        /\ r \in Statuses /\ (pc = "recheck" => st = "dispatching")
    BY <1>0 DEF DecisionsTyped, DecisionRec, Statuses
  <2> HIDE DEF st, pc, r
  <2>3. row \in Operation /\ row.status = st /\ row.by = q /\ ~row.verdict
    BY <2>2 DEF NoOperation, Operation, Statuses
  <2> HIDE DEF row
  <2>4. /\ op' \in [Drafts -> Operation] /\ op'[d] = row
        /\ \A e \in Drafts : e # d => op'[e] = op[e]
    BY <2>1, <2>3, <1>0, <1>1 DEF OutboundTypes
  <2>5. DecisionsTypedNext /\ DecisionMoves(q, pc)
    <3>1. PICK rr \in Statuses : rr = r
      BY <2>2
    <3>2. PICK p \in {"recheck", "cache"} : p = pc
      BY <2>2
    <3>3. decision' = [decision EXCEPT ![q].pc = p, ![q].result = rr] /\ p \in DecisionPC
      BY <3>1, <3>2, <2>1 DEF DecisionPC
    <3>4. QED BY <3>2, <3>3, <1>0, DecisionResultFields
  <2>6. OutboundTypes'
    BY <2>4, <2>5, <1>0, <1>1 DEF OutboundTypes, DecisionsTypedNext
  <2>7. op[d].status = "absent" /\ sends[d] = 0
    BY <1>0, <1>1, <1>3 DEF Undecided, OutboundCore, Judged
  <2>8. ASSUME NEW j \in Decisions PROVE Attempt(j)' /\ Verdict(j)'
    <3>1. CASE j = q
      BY <3>1, <2>2, <2>3, <2>4, <2>5, <2>7, <1>1 DEF Attempt, Verdict, DecisionMoves, DraftOf
    <3>2. CASE j # q
      <4>1. decision'[j] = decision[j] /\ Attempt(j) /\ Verdict(j) /\ DraftOf(j) \in Drafts
        BY <3>2, <2>5, <1>0
           DEF DecisionMoves, OthersDecide, OutboundCore, DecisionsTyped, DecisionRec, DraftOf
      <4>2. decision[j].pc \in {"recheck", "send", "save"} => DraftOf(j) # d
        BY <4>1, <2>7 DEF Attempt
      <4>3. QED
        BY <4>1, <4>2, <2>4, <1>1 DEF Attempt, Verdict, DraftOf
    <3>3. QED BY <3>1, <3>2
  <2>9. \A e \in Drafts : Judged(e)'
    BY <2>2, <2>3, <2>4, <1>0, <1>1 DEF OutboundCore, Judged
  <2>10. SentOnce' /\ LedgerIsHonest'
    BY <2>2, <2>3, <2>4, <2>7, <1>0, <1>1 DEF OutboundCore, SentOnce, LedgerIsHonest
  <2>11. QED
    BY <2>6, <2>8, <2>9, <2>10, OutboundHalvesNext DEF OutboundCore
<1>4. QED BY <1>2, <1>3

LEMMA OutboundRecheck ==
    ASSUME OutboundInv, NEW q \in Decisions, RecheckChannel(q) \/ RecheckChannelThrows(q)
    PROVE  OutboundInv'
<1>0. OutboundTypes /\ OutboundCore /\ DecisionsTyped
  BY OutboundHalves DEF OutboundTypes, DecisionsTyped
<1>1. PICK pc \in {"send", "save"}, r \in {"failed", "outcome_unknown"} :
         /\ decision' = [decision EXCEPT ![q].pc = pc, ![q].result = r]
         /\ decision[q].pc = "recheck" /\ UNCHANGED <<channel, draft, op, sends>>
  BY DEF RecheckChannel, RecheckChannelThrows, DecisionAt
<1>a. op' = op /\ sends' = sends /\ channel' = channel /\ draft' = draft
  BY <1>1
<1>2. DecisionsTypedNext /\ DecisionMoves(q, pc) /\ decision'[q].result = r
  <2>1. pc \in DecisionPC /\ r \in Statuses
    BY DEF DecisionPC, Statuses
  <2>2. QED BY <2>1, <1>0, <1>1, DecisionResultFields
<1>3. OutboundTypes'
  BY <1>0, <1>1, <1>2 DEF OutboundTypes, DecisionsTypedNext
<1>4. ASSUME NEW j \in Decisions PROVE Attempt(j)' /\ Verdict(j)'
  <2>1. CASE j = q
    <3>1. Attempt(q) /\ decision[q].pc = "recheck"
      BY <1>0, <1>1 DEF OutboundCore
    <3>2. QED
      BY <3>1, <2>1, <1>2, <1>a DEF Attempt, Verdict, DecisionMoves, DraftOf
  <2>2. CASE j # q
    BY <2>2, <1>0, <1>2, <1>a
       DEF OutboundCore, Attempt, Verdict, DecisionMoves, OthersDecide, DraftOf
  <2>3. QED BY <2>1, <2>2
<1>5. QED
  BY <1>0, <1>3, <1>4, <1>a, OutboundHalvesNext
     DEF OutboundCore, Judged, SentOnce, LedgerIsHonest

LEMMA OutboundSend ==
    ASSUME OutboundInv, NEW q \in Decisions,
           NEW answer \in {"sent", "refused", "unanswered", "sent_unanswered"}, SendText(q, answer)
    PROVE  OutboundInv'
<1>0. OutboundTypes /\ OutboundCore /\ DecisionsTyped
  BY OutboundHalves DEF OutboundTypes, DecisionsTyped
<1>1. /\ decision[q].pc = "send" /\ UNCHANGED <<channel, draft, op>> /\ DraftOf(q) \in Drafts
      /\ decision' = [decision EXCEPT ![q].pc = "save", ![q].result = SendOutcome(answer)]
      /\ sends' = IF answer \in {"sent", "sent_unanswered"}
                  THEN [sends EXCEPT ![DraftOf(q)] = @ + 1] ELSE sends
  BY <1>0 DEF SendText, DecisionAt, DecisionsTyped, DecisionRec, DraftOf
<1>2. PICK r \in {"accepted", "failed", "outcome_unknown"} :
         /\ r = SendOutcome(answer)
         /\ r = "accepted" => answer = "sent"
         /\ r = "failed" => answer = "refused"
  BY DEF SendOutcome
<1>3. DecisionsTypedNext /\ DecisionMoves(q, "save") /\ decision'[q].result = r
  BY <1>0, <1>1, <1>2, DecisionResultFields DEF DecisionPC, Statuses
<1>4. Attempt(q) /\ sends[DraftOf(q)] = 0
  BY <1>0, <1>1 DEF OutboundCore, Attempt
<1>5. /\ sends' \in [Drafts -> Nat] /\ sends'[DraftOf(q)] \in {0, 1}
      /\ answer = "sent" => sends'[DraftOf(q)] = 1
      /\ answer = "refused" => sends'[DraftOf(q)] = 0
      /\ \A e \in Drafts : e # DraftOf(q) => sends'[e] = sends[e]
  <2>1. PICK d \in Drafts : d = DraftOf(q)
    BY <1>1
  <2>2. sends \in [Drafts -> Nat] /\ sends[d] = 0
    BY <2>1, <1>0, <1>4 DEF OutboundTypes
  <2>3. sends' = sends \/ sends' = [sends EXCEPT ![d] = @ + 1]
    BY <2>1, <1>1
  <2>4. answer = "sent" => sends' = [sends EXCEPT ![d] = @ + 1]
    BY <2>1, <1>1
  <2>5. answer = "refused" => sends' = sends
    BY <1>1
  <2>6. /\ sends' \in [Drafts -> Nat] /\ sends'[d] \in {0, 1}
        /\ \A e \in Drafts : e # d => sends'[e] = sends[e]
    BY <2>2, <2>3
  <2>7. (answer = "sent" => sends'[d] = 1) /\ (answer = "refused" => sends'[d] = 0)
    BY <2>2, <2>4, <2>5
  <2>8. QED BY <2>1, <2>6, <2>7
<1>a. op' = op /\ channel' = channel /\ draft' = draft
  BY <1>1
<1>6. OutboundTypes'
  BY <1>0, <1>1, <1>3, <1>5 DEF OutboundTypes, DecisionsTypedNext
<1>7. ASSUME NEW j \in Decisions PROVE Attempt(j)' /\ Verdict(j)'
  <2>1. CASE j = q
    <3>1. decision[q].pc = "send"
      BY <1>1
    <3>2. QED
      BY <3>1, <2>1, <1>2, <1>3, <1>4, <1>5, <1>a DEF Attempt, Verdict, DecisionMoves, DraftOf
  <2>2. CASE j # q
    <3>1. decision'[j] = decision[j] /\ Attempt(j) /\ Verdict(j) /\ DraftOf(j) \in Drafts
      BY <2>2, <1>0, <1>3
         DEF DecisionMoves, OthersDecide, OutboundCore, DecisionsTyped, DecisionRec, DraftOf
    <3>2. decision[j].pc \in {"recheck", "send", "save"} => DraftOf(j) # DraftOf(q)
      BY <2>2, <1>1, OneAttempt
    <3>3. QED BY <3>1, <3>2, <1>5, <1>a DEF Attempt, Verdict, DraftOf
  <2>3. QED BY <2>1, <2>2
<1>b. op[DraftOf(q)].status # "absent"
      /\ (~op[DraftOf(q)].verdict => op[DraftOf(q)].status = "dispatching")
  BY <1>1, <1>4 DEF Attempt
<1>8. \A e \in Drafts : Judged(e)'
  BY <1>0, <1>5, <1>a, <1>b DEF OutboundCore, Judged
<1>9. SentOnce'
  <2>1. ASSUME NEW e \in Drafts PROVE sends'[e] <= 1
    <3>1. CASE e = DraftOf(q)
      BY <3>1, <1>5
    <3>2. CASE e # DraftOf(q)
      BY <3>2, <1>0, <1>5 DEF OutboundCore, SentOnce
    <3>3. QED BY <3>1, <3>2
  <2>2. QED BY <2>1 DEF SentOnce
<1>10. LedgerIsHonest'
  BY <1>0, <1>5, <1>a, <1>b DEF OutboundCore, LedgerIsHonest
<1>11. QED
  BY <1>6, <1>7, <1>8, <1>9, <1>10, OutboundHalvesNext DEF OutboundCore

LEMMA OutboundSave ==
    ASSUME OutboundInv, NEW q \in Decisions, SaveResult(q)
    PROVE  OutboundInv'
<1>0. OutboundTypes /\ OutboundCore /\ DecisionsTyped
  BY OutboundHalves DEF OutboundTypes, DecisionsTyped
<1>1. /\ decision[q].pc = "save" /\ UNCHANGED <<channel, draft, sends>> /\ DraftOf(q) \in Drafts
      /\ decision[q].result \in Statuses
  BY <1>0 DEF SaveResult, DecisionAt, DecisionsTyped, DecisionRec, DraftOf
<1>2. PICK pc \in {"cache", "over"} :
         /\ DecisionGoto(q, pc)
         /\ \/ op' = op
            \/ op' = [op EXCEPT ![DraftOf(q)].status = decision[q].result] /\ StillMine(q)
  BY DEF SaveResult
<1>3. DecisionsTypedNext /\ DecisionMoves(q, pc)
  BY <1>0, <1>2, DecisionGotoFields DEF DecisionPC
<1>4. CASE op' = op
  <2>1. OutboundTypes'
    BY <1>0, <1>1, <1>3, <1>4 DEF OutboundTypes, DecisionsTypedNext
  <2>2. QED BY <2>1, <1>1, <1>3, <1>4, OutboundQuiet, OutboundHalvesNext DEF DecisionMoves
<1>5. CASE op' = [op EXCEPT ![DraftOf(q)].status = decision[q].result] /\ StillMine(q)
  <2>1. PICK d \in Drafts, r \in Statuses : d = DraftOf(q) /\ r = decision[q].result
    BY <1>1
  <2>2. OperationMoves(d, r, op[d].verdict)
    BY <2>1, <1>0, <1>5, StatusFields DEF OutboundTypes
  <2>3. op[d].by = q /\ ~op[d].verdict /\ op[d].status = "dispatching"
    BY <2>1, <1>0, <1>5 DEF StillMine, OutboundCore, Judged
  <2>4. /\ r \in {"accepted", "failed", "outcome_unknown"}
        /\ (r = "accepted" => sends[d] = 1) /\ (r = "failed" => sends[d] = 0)
    BY <2>1, <1>0, <1>1 DEF OutboundCore, Attempt
  <2>5. OutboundTypes'
    BY <2>2, <1>0, <1>1, <1>3 DEF OutboundTypes, DecisionsTypedNext, OperationMoves
  <2>6. ASSUME NEW j \in Decisions PROVE Attempt(j)' /\ Verdict(j)'
    <3>1. CASE j = q
      BY <3>1, <1>2, <1>3 DEF Attempt, Verdict, DecisionMoves
    <3>2. CASE j # q
      <4>1. decision'[j] = decision[j] /\ Attempt(j) /\ Verdict(j) /\ DraftOf(j) \in Drafts
        BY <3>2, <1>0, <1>3
           DEF DecisionMoves, OthersDecide, OutboundCore, DecisionsTyped, DecisionRec, DraftOf
      <4>2. decision[j].pc \in {"recheck", "send", "save"} => DraftOf(j) # d
        BY <3>2, <2>1, <1>1, OneAttempt
      <4>3. QED BY <4>1, <4>2, <2>2, <1>1 DEF Attempt, Verdict, DraftOf, OperationMoves
    <3>3. QED BY <3>1, <3>2
  <2>7. \A e \in Drafts : Judged(e)'
    BY <2>2, <2>3, <2>4, <1>0, <1>1 DEF OutboundCore, Judged, OperationMoves
  <2>8. SentOnce' /\ LedgerIsHonest'
    BY <2>2, <2>4, <1>0, <1>1 DEF OutboundCore, SentOnce, LedgerIsHonest, OperationMoves
  <2>9. QED
    BY <2>5, <2>6, <2>7, <2>8, OutboundHalvesNext DEF OutboundCore
<1>6. QED BY <1>2, <1>4, <1>5

(* reconcile() *)
LEMMA OutboundReconcile ==
    ASSUME OutboundInv, NEW q \in Decisions,
           \/ \E d \in Drafts, r \in {"accepted", "failed"} : ReadOperation(q, d, r)
           \/ SwapVerdict(q)
    PROVE  OutboundInv'
<1>0. OutboundTypes /\ OutboundCore /\ DecisionsTyped
  BY OutboundHalves DEF OutboundTypes, DecisionsTyped
<1>1. ASSUME NEW d \in Drafts, NEW r \in {"accepted", "failed"}, ReadOperation(q, d, r)
      PROVE  OutboundInv'
  <2>a. op' = op /\ sends' = sends /\ channel' = channel /\ draft' = draft
    BY <1>1 DEF ReadOperation
  <2>b. op[d].status \in {"dispatching", "outcome_unknown"}
    BY <1>1 DEF ReadOperation
  <2>3. /\ DecisionsTypedNext /\ OthersDecide(q) /\ decision'[q].pc = "swap"
        /\ decision'[q].seen = op[d] /\ decision'[q].result = r
    BY <1>0, <1>1, ReadOperationFields
  <2>4. OutboundTypes'
    BY <2>3, <2>a, <1>0 DEF OutboundTypes, DecisionsTypedNext
  <2>5. ASSUME NEW j \in Decisions PROVE Attempt(j)' /\ Verdict(j)'
    <3>1. CASE j = q
      BY <3>1, <2>3, <2>b DEF Attempt, Verdict
    <3>2. CASE j # q
      BY <3>2, <2>3, <2>a, <1>0 DEF OutboundCore, Attempt, Verdict, OthersDecide, DraftOf
    <3>3. QED BY <3>1, <3>2
  <2>6. QED
    BY <2>4, <2>5, <2>a, <1>0, OutboundHalvesNext
       DEF OutboundCore, Judged, SentOnce, LedgerIsHonest
<1>2. ASSUME SwapVerdict(q) PROVE OutboundInv'
  <2>1. /\ decision[q].pc = "swap" /\ UNCHANGED <<channel, draft, sends>>
        /\ DecisionGoto(q, "over") /\ DraftOf(q) \in Drafts
        /\ \/ op' = op
           \/ /\ op' = [op EXCEPT ![DraftOf(q)].status = decision[q].result,
                                 ![DraftOf(q)].verdict = TRUE]
              /\ op[DraftOf(q)].status = decision[q].seen.status
    <3>1. DraftOf(q) \in Drafts
      BY <1>0 DEF DecisionsTyped, DecisionRec, DraftOf
    <3>2. QED BY <3>1, <1>2 DEF SwapVerdict, DecisionAt
  <2>2. DecisionsTypedNext /\ DecisionMoves(q, "over")
    BY <2>1, <1>0, DecisionGotoFields DEF DecisionPC
  <2>3. CASE op' = op
    <3>1. OutboundTypes'
      BY <2>1, <2>2, <2>3, <1>0 DEF OutboundTypes, DecisionsTypedNext
    <3>2. QED BY <3>1, <2>1, <2>2, <2>3, OutboundQuiet, OutboundHalvesNext DEF DecisionMoves
  <2>4. CASE /\ op' = [op EXCEPT ![DraftOf(q)].status = decision[q].result,
                                 ![DraftOf(q)].verdict = TRUE]
             /\ op[DraftOf(q)].status = decision[q].seen.status
    <3>1. PICK d \in Drafts, r \in {"accepted", "failed"} : d = DraftOf(q) /\ r = decision[q].result
      BY <2>1, <1>0 DEF OutboundCore, Verdict
    <3>2. OperationMoves(d, r, TRUE)
      BY <3>1, <2>4, <1>0, VerdictFields DEF OutboundTypes, Statuses
    <3>3. OutboundTypes'
      BY <3>2, <2>1, <2>2, <1>0 DEF OutboundTypes, DecisionsTypedNext, OperationMoves
    <3>4. ASSUME NEW j \in Decisions PROVE Attempt(j)' /\ Verdict(j)'
      <4>1. CASE j = q
        BY <4>1, <2>2 DEF Attempt, Verdict, DecisionMoves
      <4>2. CASE j # q
        <5>1. decision'[j] = decision[j] /\ Attempt(j) /\ Verdict(j) /\ DraftOf(j) \in Drafts
          BY <4>2, <2>2, <1>0
             DEF DecisionMoves, OthersDecide, OutboundCore, DecisionsTyped, DecisionRec, DraftOf
        <5>2. QED BY <5>1, <3>2, <2>1 DEF Attempt, Verdict, DraftOf, OperationMoves
      <4>3. QED BY <4>1, <4>2
    <3>5. \A e \in Drafts : Judged(e)'
      BY <3>2, <2>1, <1>0 DEF OutboundCore, Judged, OperationMoves
    <3>6. SentOnce' /\ LedgerIsHonest'
      BY <3>2, <2>1, <1>0 DEF OutboundCore, SentOnce, LedgerIsHonest, OperationMoves
    <3>7. QED
      BY <3>3, <3>4, <3>5, <3>6, OutboundHalvesNext DEF OutboundCore
  <2>5. QED BY <2>1, <2>3, <2>4
<1>3. QED BY <1>1, <1>2

LEMMA OutboundInitInv == OutboundInit => OutboundInv
<1> SUFFICES ASSUME OutboundInit PROVE OutboundInv
  OBVIOUS
<1>1. NoOperation \in Operation /\ NoOperation.status = "absent" /\ ~NoOperation.verdict
  BY DEF NoOperation, Operation
<1>2. PICK d \in Drafts : d = CHOOSE e \in Drafts : TRUE
  BY OutboundAssumption
<1>3. decision \in [Decisions -> [pc : {"new"}, kind : {"approve"}, draft : {d},
                                  seen : {NoOperation}, result : {"failed"}]]
  BY <1>2 DEF OutboundInit
<1>4. \A q \in Decisions : decision[q] \in DecisionRec /\ decision[q].pc = "new"
  BY <1>1, <1>3 DEF DecisionRec, DecisionPC, Statuses
<1>5. decision \in [Decisions -> DecisionRec]
  BY <1>3, <1>4
<1>6. [status |-> "absent", gen |-> 0, expired |-> FALSE] \in DraftRow
  BY OutboundAssumption DEF DraftRow
<1>7. OutboundTypes
  BY <1>1, <1>5, <1>6, OutboundAssumption DEF OutboundInit, OutboundTypes
<1>8. QED
  BY <1>1, <1>4, <1>7
     DEF OutboundInit, OutboundInv, Attempt, Verdict, Judged, SentOnce, LedgerIsHonest

LEMMA OutboundNextInv == OutboundInv /\ [OutboundNext]_outVars => OutboundInv'
  BY OutboundWorld, OutboundReads, OutboundInsert, OutboundRecheck, OutboundSend, OutboundSave,
     OutboundReconcile DEF OutboundNext

LEMMA OutboundAlways == OutboundSpec => []OutboundInv
  BY OutboundInitInv, OutboundNextInv, PTL DEF OutboundSpec

(* "From this point no retry may dispatch again, even after a crash": for any  *)
(* number of concurrent approvals and reconciliations, a draft is sent at most *)
(* once (approve, reconcile).                                                  *)
THEOREM OutboundSendsOnce == OutboundSpec => []SentOnce
<1>1. OutboundInv => SentOnce
  BY DEF OutboundInv
<1>2. QED BY <1>1, OutboundAlways, PTL

(* What the ledger says of an attempt that no operator has judged is true.     *)
THEOREM OutboundLedgerHonest == OutboundSpec => []LedgerIsHonest
<1>1. OutboundInv => LedgerIsHonest
  BY DEF OutboundInv
<1>2. QED BY <1>1, OutboundAlways, PTL

(* The late answer of an attempt does not replace an operator's verdict on it  *)
(* (reconcile, and the swap at the end of approve).                            *)
THEOREM OutboundVerdictStands == OutboundSpec => VerdictStands
<1> DEFINE Stands == \A d \in Drafts : op[d].verdict => op'[d].verdict /\ op'[d].status = op[d].status
<1>1. ASSUME OutboundInv, [OutboundNext]_outVars PROVE [Stands]_outVars
  <2>0. OutboundTypes /\ OutboundCore /\ DecisionsTyped
    BY <1>1, OutboundHalves DEF OutboundTypes, DecisionsTyped
  <2>1. ASSUME op' = op PROVE Stands
    BY <2>1
  <2>2. ASSUME NEW d \in Drafts, op' = [op EXCEPT ![d].old = TRUE] PROVE Stands
    BY <2>2, <2>0, OldFields DEF OutboundTypes, OperationMoves
  <2>3. ASSUME NEW q \in Decisions, InsertOperation(q) \/ SaveResult(q) \/ SwapVerdict(q)
        PROVE  Stands
    <3>1. PICK d \in Drafts : d = DraftOf(q)
      BY <2>0 DEF DecisionsTyped, DecisionRec, DraftOf
    <3>2. op' = op \/ op[d].status \in {"absent", "dispatching", "outcome_unknown"}
      BY <3>1, <2>0, <2>3
         DEF InsertOperation, Undecided, SaveResult, StillMine, SwapVerdict, OutboundCore, Verdict,
             DecisionAt
    <3>3. op' = op \/ ~op[d].verdict
      BY <3>2, <2>0 DEF OutboundCore, Judged
    <3>4. \A e \in Drafts : e # d => op'[e] = op[e]
      BY <3>1, <2>0, <2>3 DEF InsertOperation, SaveResult, SwapVerdict, OutboundTypes
    <3>5. QED BY <3>3, <3>4
  <2> HIDE DEF Stands
  <2>4. ASSUME NEW d \in Drafts, PrepareDraft(d) \/ DraftExpires(d) \/ MinutePasses(d) PROVE Stands
    BY <2>1, <2>2, <2>4 DEF PrepareDraft, DraftExpires, MinutePasses
  <2>5. ASSUME NEW on \in BOOLEAN, Provision(on) PROVE Stands
    BY <2>1, <2>5 DEF Provision
  <2>6. ASSUME NEW q \in Decisions, NEW d \in Drafts,
               NEW kind \in {"approve", "reject"}, ReadDraft(q, kind, d)
        PROVE  Stands
    BY <2>1, <2>6 DEF ReadDraft
  <2>7. ASSUME NEW q \in Decisions, NEW d \in Drafts,
               NEW result \in {"accepted", "failed"}, ReadOperation(q, d, result)
        PROVE  Stands
    BY <2>1, <2>7 DEF ReadOperation
  <2>8. ASSUME NEW q \in Decisions,
               \/ ReadLedger(q) \/ CheckConnection(q) \/ RecheckChannel(q)
               \/ RecheckChannelThrows(q) \/ CacheStatus(q) \/ DecisionDies(q)
        PROVE  Stands
    BY <2>1, <2>8 DEF ReadLedger, CheckConnection, RecheckChannel, RecheckChannelThrows,
                      CacheStatus, DecisionDies
  <2>9. ASSUME NEW q \in Decisions,
               NEW answer \in {"sent", "refused", "unanswered", "sent_unanswered"},
               SendText(q, answer)
        PROVE  Stands
    BY <2>1, <2>9 DEF SendText
  <2>10. QED
    BY <1>1, <2>3, <2>4, <2>5, <2>6, <2>7, <2>8, <2>9 DEF OutboundNext
<1>2. OutboundSpec => [][Stands]_outVars
  BY <1>1, OutboundAlways, PTL DEF OutboundSpec
<1>3. QED BY <1>2 DEF VerdictStands

----------------------------------------------------------------------------
(* Google *)
ConsentPC == {"new", "rotate", "swap", "store", "google", "check", "exchange", "reuse", "save",
              "over"}
ConsentRec == [pc : ConsentPC, seen : Cred, account : Accounts \cup {NoSignIn}, given : BOOLEAN,
               refresh : SignIns \cup {NoSignIn}]
LeavingRec == [pc : {"new", "rotate", "swap", "revoke", "over"}, seen : Cred]
RenewalRec == [pc : {"off", "fetch", "update"}, seen : Tokens \cup {NoTokens}]

ConsentsTyped == consent \in [SignIns -> ConsentRec]
ConsentsTypedNext == consent' \in [SignIns -> ConsentRec]

LEMMA GoogleParts ==
    GoogleTypeOK <=> /\ cred \in Cred /\ lapsed \in BOOLEAN /\ ConsentsTyped
                     /\ leaving \in [Disconnects -> LeavingRec]
                     /\ renewal \in [Refreshes -> RenewalRec] /\ cut \subseteq SignIns
  BY DEF GoogleTypeOK, ConsentsTyped, ConsentRec, ConsentPC, LeavingRec, RenewalRec
LEMMA GooglePartsNext ==
    GoogleTypeOK' <=> /\ cred' \in Cred /\ lapsed' \in BOOLEAN /\ ConsentsTypedNext
                      /\ leaving' \in [Disconnects -> LeavingRec]
                      /\ renewal' \in [Refreshes -> RenewalRec] /\ cut' \subseteq SignIns
  BY DEF GoogleTypeOK, ConsentsTypedNext, ConsentRec, ConsentPC, LeavingRec, RenewalRec

(* Only the record of s changes, and it moves to pc. *)
SignInMoves(s, pc) == (\A t \in SignIns : t # s => consent'[t] = consent[t]) /\ consent'[s].pc = pc

LEMMA SignInGotoFields ==
    ASSUME NEW s \in SignIns, NEW pc \in ConsentPC, ConsentsTyped, SignInGoto(s, pc)
    PROVE  /\ ConsentsTypedNext /\ SignInMoves(s, pc)
           /\ consent'[s].account = consent[s].account /\ consent'[s].refresh = consent[s].refresh
  BY DEF ConsentsTyped, ConsentsTypedNext, SignInGoto, SignInMoves, ConsentRec

LEMMA SignInSeenFields ==
    ASSUME NEW s \in SignIns, NEW pc \in ConsentPC, NEW c \in Cred, ConsentsTyped,
           consent' = [consent EXCEPT ![s].pc = pc, ![s].seen = c]
    PROVE  ConsentsTypedNext /\ SignInMoves(s, pc)
  BY DEF ConsentsTyped, ConsentsTypedNext, SignInMoves, ConsentRec

LEMMA OneSignInFields ==
    ASSUME NEW s \in SignIns, NEW new \in ConsentRec, ConsentsTyped,
           consent' = [consent EXCEPT ![s] = new]
    PROVE  ConsentsTypedNext /\ SignInMoves(s, new.pc) /\ consent'[s] = new
  BY DEF ConsentsTyped, ConsentsTypedNext, SignInMoves

LEMMA ExchangeFields ==
    ASSUME NEW s \in SignIns, NEW a \in Accounts, NEW given \in BOOLEAN, ConsentsTyped,
           consent' = [consent EXCEPT ![s].pc = "reuse", ![s].account = a, ![s].given = given]
    PROVE  ConsentsTypedNext /\ SignInMoves(s, "reuse") /\ consent'[s].account = a
<1> DEFINE new == [consent[s] EXCEPT !.pc = "reuse", !.account = a, !.given = given]
<1>1. "reuse" \in ConsentPC /\ a \in Accounts \cup {NoSignIn}
  BY DEF ConsentPC
<1>2. new \in ConsentRec /\ new.pc = "reuse" /\ new.account = a
  BY <1>1 DEF ConsentsTyped, ConsentRec
<1>3. consent' = [consent EXCEPT ![s] = new]
  BY DEF ConsentsTyped
<1> HIDE DEF new
<1>4. ConsentsTypedNext /\ SignInMoves(s, new.pc) /\ consent'[s] = new
  BY <1>2, <1>3, OneSignInFields
<1>5. QED
  BY <1>2, <1>4

LEMMA ReuseFields ==
    ASSUME NEW s \in SignIns, NEW t \in SignIns \cup {NoSignIn}, ConsentsTyped,
           consent' = [consent EXCEPT ![s].pc = "save", ![s].refresh = t]
    PROVE  /\ ConsentsTypedNext /\ SignInMoves(s, "save") /\ consent'[s].refresh = t
           /\ consent'[s].account = consent[s].account
<1>1. "save" \in ConsentPC
  BY DEF ConsentPC
<1>2. QED
  BY <1>1 DEF ConsentsTyped, ConsentsTypedNext, SignInMoves, ConsentRec

(* The credential's fields. *)
LEMMA CredFacts ==
    ASSUME NEW c \in Cred
    PROVE  /\ c.conn \in SignIns \cup {NoSignIn} /\ c.gen \in Generation
           /\ c.secret # NoTokens => c.secret \in Tokens
           /\ c.secret \in Tokens =>
                 /\ c.secret.conn \in SignIns /\ c.secret # NoTokens
                 /\ c.secret.refresh \in SignIns \cup {NoSignIn}
<1>1. ASSUME NEW t \in Tokens PROVE t.conn \in SignIns /\ t # NoTokens
  <2>1. t.conn \in SignIns
    BY DEF Tokens
  <2>2. t # NoTokens
    BY <2>1, GoogleAssumption DEF NoTokens
  <2>3. QED BY <2>1, <2>2
<1>2. c.conn \in SignIns \cup {NoSignIn} /\ c.gen \in Generation /\ c.secret \in Tokens \cup {NoTokens}
  BY DEF Cred
<1>3. QED BY <1>1, <1>2 DEF Tokens

(* Generations of different sign-ins, and of disconnects, differ. *)
LEMMA GenerationsDiffer ==
    /\ \A s, t : <<"connect", s>> = <<"connect", t>> => s = t
    /\ \A s, x : <<"connect", s>> # <<"off", x>> /\ <<"connect", s>> # <<"saved", x>>
    /\ \A s : <<"connect", s>> # NoGeneration
  BY DEF NoGeneration

(* Everything but the types. *)
GoogleCore ==
    Uncut /\ Unsaved /\ Profiled /\ Renewing /\ SecretOfConnection /\ DisconnectHolds
LEMMA GoogleHalves == GoogleInv <=> GoogleTypeOK /\ GoogleCore
  BY DEF GoogleInv, GoogleCore
LEMMA GoogleHalvesNext == GoogleInv' <=> GoogleTypeOK' /\ GoogleCore'
  BY DEF GoogleInv, GoogleCore

(* A sign-in moves on without touching the row. *)
LEMMA SignInQuiet ==
    ASSUME GoogleInv, NEW s \in SignIns, NEW pc \in ConsentPC, SignInMoves(s, pc),
           cred' = cred, cut' = cut, renewal' = renewal,
           pc \in {"new", "rotate", "swap"} => consent[s].pc \in {"new", "rotate", "swap"},
           pc = "save" /\ cred.gen = <<"connect", s>> => consent'[s].refresh \notin cut,
           pc # "over" => consent[s].pc # "over",
           pc \in {"reuse", "save"} => consent'[s].account \in Accounts
    PROVE  GoogleCore'
<1>1. Uncut'
  BY DEF GoogleInv, Uncut, SignInMoves
<1>2. Unsaved'
  BY DEF GoogleInv, Unsaved, SignInMoves
<1>3. Profiled'
  BY DEF GoogleInv, Profiled, SignInMoves
<1>4. Renewing' /\ SecretOfConnection' /\ DisconnectHolds'
  BY DEF GoogleInv, Renewing, SecretOfConnection, DisconnectHolds
<1>5. QED BY <1>1, <1>2, <1>3, <1>4 DEF GoogleCore

(* The other calls, when they leave the row, the cuts and the sign-ins alone. *)
LEMMA RowQuiet ==
    ASSUME GoogleInv, cred' = cred, cut' = cut, consent' = consent, renewal' = renewal
    PROVE  GoogleCore'
  BY DEF GoogleInv, GoogleCore, Uncut, Unsaved, Profiled, Renewing, SecretOfConnection,
         DisconnectHolds

LEMMA SignInReads ==
    ASSUME GoogleInv, NEW s \in SignIns,
           \/ RotateRead(s) \/ PutState(s) \/ TakeState(s) \/ CheckGeneration(s) \/ SignInFails(s)
           \/ \E a \in Accounts, given \in BOOLEAN : Exchange(s, a, given)
           \/ ReuseToken(s)
    PROVE  GoogleInv'
<1>0. GoogleTypeOK /\ ConsentsTyped /\ cred \in Cred
  BY GoogleHalves, GoogleParts
<1>1. /\ cred' = cred /\ lapsed' = lapsed /\ leaving' = leaving /\ renewal' = renewal
      /\ cut' = cut
  BY DEF RotateRead, PutState, TakeState, CheckGeneration, SignInFails, Exchange, ReuseToken
<1>t. ASSUME ConsentsTypedNext PROVE GoogleTypeOK'
  BY <1>0, <1>1, <1>t, GoogleParts, GooglePartsNext
<1>2. ASSUME RotateRead(s) PROVE GoogleInv'
  <2>1. PICK c \in Cred : c = cred
    BY <1>0
  <2>2. /\ consent[s].pc \in {"new", "rotate"}
        /\ consent' = [consent EXCEPT ![s].pc = "swap", ![s].seen = c]
    BY <2>1, <1>2 DEF RotateRead
  <2>3. ConsentsTypedNext /\ SignInMoves(s, "swap")
    BY <2>2, <1>0, SignInSeenFields DEF ConsentPC
  <2>4. GoogleCore'
    BY <2>2, <2>3, <1>1, SignInQuiet DEF ConsentPC
  <2>5. QED BY <2>3, <2>4, <1>t, GoogleHalvesNext
<1>3. ASSUME PutState(s) \/ TakeState(s) \/ CheckGeneration(s) \/ SignInFails(s) PROVE GoogleInv'
  <2>1. PICK pc \in {"google", "check", "exchange", "over"} :
           SignInGoto(s, pc) /\ (pc # "over" => consent[s].pc # "over")
    BY <1>3 DEF PutState, TakeState, CheckGeneration, SignInFails
  <2>2. pc \in ConsentPC /\ pc \notin {"new", "rotate", "swap", "reuse", "save"}
    BY DEF ConsentPC
  <2>3. ConsentsTypedNext /\ SignInMoves(s, pc)
    BY <2>1, <2>2, <1>0, SignInGotoFields
  <2>4. GoogleCore'
    BY <2>1, <2>2, <2>3, <1>1, SignInQuiet
  <2>5. QED BY <2>3, <2>4, <1>t, GoogleHalvesNext
<1>4. ASSUME NEW a \in Accounts, NEW given \in BOOLEAN, Exchange(s, a, given) PROVE GoogleInv'
  <2>1. /\ consent[s].pc = "exchange"
        /\ consent' = [consent EXCEPT ![s].pc = "reuse", ![s].account = a, ![s].given = given]
    BY <1>4 DEF Exchange
  <2>2. ConsentsTypedNext /\ SignInMoves(s, "reuse") /\ consent'[s].account = a
    BY <2>1, <1>0, ExchangeFields
  <2>3. GoogleCore'
    BY <2>1, <2>2, <1>1, SignInQuiet DEF ConsentPC
  <2>4. QED BY <2>2, <2>3, <1>t, GoogleHalvesNext
<1>5. ASSUME ReuseToken(s) PROVE GoogleInv'
  <2>1. PICK t \in SignIns \cup {NoSignIn} :
           /\ consent' = [consent EXCEPT ![s].pc = "save", ![s].refresh = t]
           /\ t = s \/ t = NoSignIn \/ (cred.secret # NoTokens /\ t = cred.secret.refresh)
    <3>1. cred.secret # NoTokens => cred.secret.refresh \in SignIns \cup {NoSignIn}
      BY <1>0, CredFacts
    <3>2. QED BY <3>1, <1>5 DEF ReuseToken
  <2>2. consent[s].pc = "reuse"
    BY <1>5 DEF ReuseToken
  <2>3. /\ ConsentsTypedNext /\ SignInMoves(s, "save") /\ consent'[s].refresh = t
        /\ consent'[s].account = consent[s].account
    BY <2>1, <1>0, ReuseFields
  <2>4. NoSignIn \notin cut
    BY <1>0, GoogleAssumption DEF GoogleTypeOK
  <2>5. cred.gen = <<"connect", s>> => t \notin cut
    BY <2>1, <2>4 DEF GoogleInv, Uncut, DisconnectHolds
  <2>6. consent[s].account \in Accounts
    BY <2>2 DEF GoogleInv, Profiled
  <2>7. GoogleCore'
    BY <2>2, <2>3, <2>5, <2>6, <1>1, SignInQuiet DEF ConsentPC
  <2>8. QED BY <2>3, <2>7, <1>t, GoogleHalvesNext
<1>6. QED BY <1>2, <1>3, <1>4, <1>5

LEMMA RotateSwapStep ==
    ASSUME GoogleInv, NEW s \in SignIns, RotateSwap(s)
    PROVE  GoogleInv'
<1>0. GoogleTypeOK /\ ConsentsTyped /\ cred \in Cred
  BY GoogleHalves, GoogleParts
<1>1. /\ lapsed' = lapsed /\ leaving' = leaving /\ renewal' = renewal /\ cut' = cut
      /\ consent[s].pc = "swap"
  BY DEF RotateSwap
<1>2. CASE cred # consent[s].seen
  <2>1. cred' = cred /\ SignInGoto(s, "rotate")
    BY <1>2 DEF RotateSwap
  <2>2. ConsentsTypedNext /\ SignInMoves(s, "rotate")
    BY <2>1, <1>0, SignInGotoFields DEF ConsentPC
  <2>3. GoogleCore'
    BY <2>1, <2>2, <1>1, SignInQuiet DEF ConsentPC
  <2>4. GoogleTypeOK'
    BY <2>1, <2>2, <1>0, <1>1, GoogleParts, GooglePartsNext
  <2>5. QED BY <2>3, <2>4, GoogleHalvesNext
<1>3. CASE cred = consent[s].seen
  <2>1. /\ cred' = [cred EXCEPT !.exists = TRUE, !.gen = <<"connect", s>>]
        /\ consent' = [consent EXCEPT ![s].pc = "store", ![s].seen = NoCred]
    BY <1>3 DEF RotateSwap
  <2>2. NoCred \in Cred /\ <<"connect", s>> \in Generation
    BY DEF NoCred, Cred, NoGeneration, Generation
  <2>3. /\ cred' \in Cred /\ cred'.gen = <<"connect", s>> /\ cred'.conn = cred.conn
        /\ cred'.secret = cred.secret
    BY <2>1, <2>2, <1>0 DEF Cred
  <2>4. ConsentsTypedNext /\ SignInMoves(s, "store")
    BY <2>1, <2>2, <1>0, SignInSeenFields DEF ConsentPC
  <2>5. GoogleTypeOK'
    BY <2>3, <2>4, <1>0, <1>1, GoogleParts, GooglePartsNext
  <2>6. Uncut'
    BY <2>3, <2>4, <1>1, GenerationsDiffer DEF GoogleInv, Uncut, SignInMoves
  <2>7. Unsaved' /\ Profiled'
    BY <2>3, <2>4, <1>1 DEF GoogleInv, Unsaved, Profiled, SignInMoves
  <2>8. Renewing' /\ SecretOfConnection' /\ DisconnectHolds'
    BY <2>3, <1>1 DEF GoogleInv, Renewing, SecretOfConnection, DisconnectHolds
  <2>9. QED BY <2>5, <2>6, <2>7, <2>8, GoogleHalvesNext DEF GoogleCore
<1>4. QED BY <1>2, <1>3

LEMMA SaveStep ==
    ASSUME GoogleInv, NEW s \in SignIns, Save(s)
    PROVE  GoogleInv'
<1>0. GoogleTypeOK /\ ConsentsTyped /\ cred \in Cred
  BY GoogleHalves, GoogleParts
<1>1. /\ leaving' = leaving /\ renewal' = renewal /\ cut' = cut /\ consent[s].pc = "save"
      /\ SignInGoto(s, "over")
  BY DEF Save
<1>2. ConsentsTypedNext /\ SignInMoves(s, "over")
  BY <1>0, <1>1, SignInGotoFields DEF ConsentPC
<1>3. CASE ~SaveFits(s)
  <2>1. cred' = cred /\ lapsed' = lapsed
    BY <1>3 DEF Save
  <2>2. GoogleCore'
    BY <2>1, <1>1, <1>2, SignInQuiet DEF ConsentPC
  <2>3. GoogleTypeOK'
    BY <2>1, <1>0, <1>1, <1>2, GoogleParts, GooglePartsNext
  <2>4. QED BY <2>2, <2>3, GoogleHalvesNext
<1>4. CASE SaveFits(s)
  <2> DEFINE tok == [conn |-> s, account |-> consent[s].account,
                     refresh |-> consent[s].refresh, access |-> 0]
  <2>1. /\ cred' = [exists |-> TRUE, gen |-> <<"saved", s>>, conn |-> s, secret |-> tok]
        /\ lapsed' = FALSE
    BY <1>4 DEF Save
  <2>2. /\ consent[s].account \in Accounts /\ consent[s].refresh \in SignIns \cup {NoSignIn}
        /\ s \notin cut /\ consent[s].refresh \notin cut
    BY <1>0, <1>1, <1>4
       DEF GoogleInv, Profiled, Uncut, SaveFits, ConsentsTyped, ConsentRec
  <2>3. tok \in Tokens /\ tok.conn = s /\ tok.refresh = consent[s].refresh
    BY <2>2, GoogleAssumption DEF Tokens
  <2> HIDE DEF tok
  <2>4. <<"saved", s>> \in Generation
    BY DEF Generation
  <2>5. /\ cred' \in Cred /\ cred'.gen = <<"saved", s>> /\ cred'.conn = s /\ cred'.secret = tok
    BY <2>1, <2>3, <2>4 DEF Cred
  <2>6. GoogleTypeOK'
    BY <2>1, <2>5, <1>0, <1>1, <1>2, GoogleParts, GooglePartsNext
  <2>7. Uncut'
    BY <2>5, <1>1, <1>2, GenerationsDiffer DEF GoogleInv, Uncut, SignInMoves
  <2>8. Unsaved' /\ Profiled'
    BY <2>5, <1>1, <1>2 DEF GoogleInv, Unsaved, Profiled, SignInMoves
  <2>9. \A r \in Refreshes : renewal[r].pc \in Working => renewal[r].seen.conn # s
    BY <1>1 DEF GoogleInv, Unsaved
  <2>10. Renewing'
    BY <2>5, <2>9, <1>1 DEF GoogleInv, Renewing
  <2>11. SecretOfConnection' /\ DisconnectHolds'
    BY <2>2, <2>3, <2>5, <1>1 DEF SecretOfConnection, DisconnectHolds
  <2>12. QED BY <2>6, <2>7, <2>8, <2>10, <2>11, GoogleHalvesNext DEF GoogleCore
<1>5. QED BY <1>3, <1>4

(* disconnect() *)
LEMMA LeaveSteps ==
    ASSUME GoogleInv, NEW x \in Disconnects, LeaveRead(x) \/ LeaveSwap(x) \/ Revoke(x)
    PROVE  GoogleInv'
<1>0. /\ GoogleTypeOK /\ ConsentsTyped /\ cred \in Cred /\ cut \subseteq SignIns
      /\ leaving \in [Disconnects -> LeavingRec]
  BY GoogleHalves, GoogleParts
<1>1. lapsed' = lapsed /\ consent' = consent /\ renewal' = renewal
  BY DEF LeaveRead, LeaveSwap, Revoke
<1>2. leaving' \in [Disconnects -> LeavingRec]
  <2>1. ASSUME NEW pc \in {"rotate", "revoke", "over"}, LeavingGoto(x, pc)
        PROVE  leaving' \in [Disconnects -> LeavingRec]
    BY <2>1, <1>0 DEF LeavingGoto, LeavingRec
  <2>2. ASSUME LeaveRead(x) PROVE leaving' \in [Disconnects -> LeavingRec]
    <3>1. PICK c \in Cred : c = cred
      BY <1>0
    <3>2. leaving' = [leaving EXCEPT ![x].pc = "swap", ![x].seen = c]
      BY <3>1, <2>2 DEF LeaveRead
    <3>3. QED BY <3>2, <1>0 DEF LeavingRec
  <2>3. QED BY <2>1, <2>2 DEF LeaveSwap, Revoke
<1>3. CASE cred' = cred /\ cut' = cut
  <2>1. GoogleTypeOK'
    BY <1>0, <1>1, <1>2, <1>3, GoogleParts, GooglePartsNext DEF ConsentsTyped, ConsentsTypedNext
  <2>2. QED BY <2>1, <1>1, <1>3, RowQuiet, GoogleHalvesNext
<1>4. CASE LeaveSwap(x) /\ cred = leaving[x].seen
  <2>1. /\ cred' = [exists |-> TRUE, gen |-> <<"off", x>>, conn |-> NoSignIn, secret |-> NoTokens]
        /\ cut' = cut \cup {s \in SignIns : consent[s].pc \notin {"new", "rotate", "swap"}}
    BY <1>4 DEF LeaveSwap
  <2>2. <<"off", x>> \in Generation
    BY DEF Generation
  <2>3. /\ cred' \in Cred /\ cred'.gen = <<"off", x>> /\ cred'.conn = NoSignIn
        /\ cred'.secret = NoTokens
    BY <2>1, <2>2 DEF Cred
  <2>4. cut' \subseteq SignIns
    BY <2>1, <1>0
  <2>5. GoogleTypeOK'
    BY <2>3, <2>4, <1>0, <1>1, <1>2, GoogleParts, GooglePartsNext
       DEF ConsentsTyped, ConsentsTypedNext
  <2>6. Uncut'
    BY <2>1, <2>3, <1>1, GenerationsDiffer DEF GoogleInv, Uncut
  <2>7. Unsaved' /\ Profiled'
    BY <2>3, <1>1, GoogleAssumption DEF GoogleInv, Unsaved, Profiled
  <2>8. \A r \in Refreshes : renewal[r].pc \in Working => renewal[r].seen.conn # NoSignIn
    BY GoogleAssumption DEF GoogleInv, Renewing, Tokens
  <2>9. Renewing'
    BY <2>3, <2>8, <1>1 DEF GoogleInv, Renewing
  <2>10. SecretOfConnection' /\ DisconnectHolds'
    BY <2>3 DEF SecretOfConnection, DisconnectHolds
  <2>11. QED BY <2>5, <2>6, <2>7, <2>9, <2>10, GoogleHalvesNext DEF GoogleCore
<1>5. QED BY <1>3, <1>4 DEF LeaveRead, LeaveSwap, Revoke

(* accessToken() *)
LEMMA RenewalSteps ==
    ASSUME GoogleInv, NEW r \in Refreshes, ReadTokens(r) \/ FetchToken(r) \/ RefreshFails(r)
    PROVE  GoogleInv'
<1>0. /\ GoogleTypeOK /\ ConsentsTyped /\ cred \in Cred /\ renewal \in [Refreshes -> RenewalRec]
  BY GoogleHalves, GoogleParts
<1>1. /\ cred' = cred /\ lapsed' = lapsed /\ consent' = consent /\ leaving' = leaving
      /\ cut' = cut
  BY DEF ReadTokens, FetchToken, RefreshFails
<1>2. PICK x \in RenewalRec :
         /\ renewal' = [renewal EXCEPT ![r] = x]
         /\ x.pc \in Working =>
               \/ renewal[r].pc \in Working /\ x.seen = renewal[r].seen
               \/ /\ x.seen = cred.secret /\ cred.secret # NoTokens
                  /\ cred.secret.access < MaxRefreshed
  <2>1. ASSUME ReadTokens(r)
        PROVE  \E x \in RenewalRec :
                  /\ renewal' = [renewal EXCEPT ![r] = x] /\ x.seen = cred.secret
                  /\ cred.secret # NoTokens /\ cred.secret.access < MaxRefreshed
    <3>1. PICK t \in Tokens : t = cred.secret
      BY <2>1, <1>0, CredFacts DEF ReadTokens
    <3>2. [pc |-> "fetch", seen |-> t] \in RenewalRec
      BY DEF RenewalRec
    <3>3. QED BY <3>1, <3>2, <2>1 DEF ReadTokens
  <2>2. ASSUME FetchToken(r)
        PROVE  \E x \in RenewalRec :
                  /\ renewal' = [renewal EXCEPT ![r] = x] /\ x.seen = renewal[r].seen
                  /\ renewal[r].pc \in Working
    <3>1. PICK y \in RenewalRec : y = renewal[r]
      BY <1>0
    <3>2. [y EXCEPT !.pc = "update"] \in RenewalRec /\ [y EXCEPT !.pc = "update"].seen = y.seen
      BY DEF RenewalRec
    <3>3. renewal' = [renewal EXCEPT ![r] = [y EXCEPT !.pc = "update"]]
      BY <3>1, <2>2 DEF FetchToken
    <3>4. renewal[r].pc \in Working
      BY <2>2 DEF FetchToken, Working
    <3>5. QED BY <3>1, <3>2, <3>3, <3>4
  <2>3. ASSUME RefreshFails(r)
        PROVE  \E x \in RenewalRec : renewal' = [renewal EXCEPT ![r] = x] /\ x.pc = "off"
    <3>1. NoRenewal \in RenewalRec /\ NoRenewal.pc = "off"
      BY DEF NoRenewal, RenewalRec
    <3>2. QED BY <3>1, <2>3 DEF RefreshFails
  <2>4. QED BY <2>1, <2>2, <2>3 DEF Working
<1>3. /\ renewal' \in [Refreshes -> RenewalRec] /\ renewal'[r] = x
      /\ \A u \in Refreshes : u # r => renewal'[u] = renewal[u]
  BY <1>0, <1>2
<1>4. GoogleTypeOK'
  BY <1>0, <1>1, <1>3, GoogleParts, GooglePartsNext DEF ConsentsTyped, ConsentsTypedNext
<1>5. cred.secret # NoTokens =>
         /\ cred.secret \in Tokens /\ cred.secret.conn = cred.conn
         /\ cred.secret.conn \notin cut /\ cred.secret.refresh \notin cut
  BY <1>0, CredFacts DEF GoogleInv, SecretOfConnection, DisconnectHolds
<1>6. Renewing'
  BY <1>1, <1>2, <1>3, <1>5 DEF GoogleInv, Renewing
<1>7. Unsaved'
  BY <1>1, <1>2, <1>3, <1>5 DEF GoogleInv, Unsaved
<1>8. Uncut' /\ Profiled' /\ SecretOfConnection' /\ DisconnectHolds'
  BY <1>1 DEF GoogleInv, Uncut, Profiled, SecretOfConnection, DisconnectHolds
<1>9. QED BY <1>4, <1>6, <1>7, <1>8, GoogleHalvesNext DEF GoogleCore

LEMMA UpdateStep ==
    ASSUME GoogleInv, NEW r \in Refreshes, UpdateCredential(r)
    PROVE  GoogleInv'
<1>0. /\ GoogleTypeOK /\ ConsentsTyped /\ cred \in Cred /\ renewal \in [Refreshes -> RenewalRec]
  BY GoogleHalves, GoogleParts
<1>1. /\ consent' = consent /\ leaving' = leaving /\ cut' = cut /\ renewal[r].pc = "update"
      /\ renewal' = [renewal EXCEPT ![r] = NoRenewal]
  BY DEF UpdateCredential
<1>2. NoRenewal \in RenewalRec /\ NoRenewal.pc \notin Working
  BY DEF NoRenewal, RenewalRec, Working
<1>3. /\ renewal' \in [Refreshes -> RenewalRec] /\ renewal'[r] = NoRenewal
      /\ \A u \in Refreshes : u # r => renewal'[u] = renewal[u]
  BY <1>0, <1>1, <1>2
<1>4. /\ cred' \in Cred /\ cred'.gen = cred.gen /\ cred'.conn = cred.conn /\ lapsed' \in BOOLEAN
      /\ \/ cred'.secret = cred.secret
         \/ /\ cred'.secret.conn = cred.conn /\ cred'.secret.conn \notin cut
            /\ cred'.secret.refresh \notin cut
  <2>1. CASE ~SameConnection(r)
    BY <2>1, <1>0 DEF UpdateCredential, GoogleTypeOK
  <2>2. CASE SameConnection(r)
    <3>1. PICK t \in Tokens : t = renewal[r].seen
      BY <1>1 DEF GoogleInv, Renewing, Working
    <3>2. t.access < MaxRefreshed /\ t.conn = cred.conn /\ t.conn \notin cut /\ t.refresh \notin cut
      BY <3>1, <2>2, <1>1 DEF GoogleInv, Renewing, Working, SameConnection
    <3> DEFINE n == [t EXCEPT !.access = @ + 1]
    <3>3. n \in Tokens /\ n.conn = t.conn /\ n.refresh = t.refresh
      BY <3>2, GoogleAssumption DEF Tokens
    <3>4. cred' = [cred EXCEPT !.secret = n] /\ lapsed' = FALSE
      BY <3>1, <2>2 DEF UpdateCredential
    <3> HIDE DEF n
    <3>5. QED BY <3>2, <3>3, <3>4, <1>0 DEF Cred
  <2>3. QED BY <2>1, <2>2
<1>5. GoogleTypeOK'
  BY <1>0, <1>1, <1>3, <1>4, GoogleParts, GooglePartsNext DEF ConsentsTyped, ConsentsTypedNext
<1>6. Uncut' /\ Profiled'
  BY <1>1, <1>4 DEF GoogleInv, Uncut, Profiled
<1>7. Unsaved' /\ Renewing'
  BY <1>1, <1>2, <1>3, <1>4 DEF GoogleInv, Unsaved, Renewing
<1>8. SecretOfConnection' /\ DisconnectHolds'
  BY <1>1, <1>4 DEF GoogleInv, SecretOfConnection, DisconnectHolds
<1>9. QED BY <1>5, <1>6, <1>7, <1>8, GoogleHalvesNext DEF GoogleCore

LEMMA GoogleInitInv == GoogleInit => GoogleInv
<1> SUFFICES ASSUME GoogleInit PROVE GoogleInv
  OBVIOUS
<1>1. /\ NoCred \in Cred /\ NoCred.gen = NoGeneration /\ NoCred.conn = NoSignIn
      /\ NoCred.secret = NoTokens
  BY DEF NoCred, Cred, NoGeneration, Generation
<1>2. NoRenewal \in RenewalRec /\ NoRenewal.pc = "off"
  BY DEF NoRenewal, RenewalRec
<1>3. /\ cred = NoCred /\ lapsed = FALSE /\ renewal = [r \in Refreshes |-> NoRenewal] /\ cut = {}
      /\ leaving = [x \in Disconnects |-> [pc |-> "new", seen |-> NoCred]]
      /\ consent = [s \in SignIns |-> [pc |-> "new", seen |-> NoCred, given |-> FALSE,
                                       account |-> NoSignIn, refresh |-> NoSignIn]]
  BY DEF GoogleInit
<1>4. ConsentsTyped /\ \A s \in SignIns : consent[s].pc = "new"
  BY <1>1, <1>3 DEF ConsentsTyped, ConsentRec, ConsentPC
<1>5. leaving \in [Disconnects -> LeavingRec]
  BY <1>1, <1>3 DEF LeavingRec
<1>6. GoogleTypeOK
  BY <1>1, <1>2, <1>3, <1>4, <1>5, GoogleParts
<1>7. Uncut /\ Unsaved /\ Profiled
  BY <1>1, <1>2, <1>3, <1>4, GoogleAssumption DEF Uncut, Unsaved, Profiled, Working
<1>8. Renewing /\ SecretOfConnection /\ DisconnectHolds
  BY <1>1, <1>2, <1>3 DEF Renewing, SecretOfConnection, DisconnectHolds, Working
<1>9. QED BY <1>6, <1>7, <1>8 DEF GoogleInv

LEMMA GoogleNextInv == GoogleInv /\ [GoogleNext]_googleVars => GoogleInv'
<1> SUFFICES ASSUME GoogleInv, [GoogleNext]_googleVars PROVE GoogleInv'
  OBVIOUS
<1>1. ASSUME Expire \/ UNCHANGED googleVars PROVE GoogleInv'
  <2>1. /\ cred' = cred /\ consent' = consent /\ leaving' = leaving /\ renewal' = renewal
        /\ cut' = cut /\ (lapsed' = TRUE \/ lapsed' = lapsed)
    BY <1>1 DEF Expire, googleVars
  <2>2. GoogleTypeOK'
    BY <2>1, GoogleHalves, GoogleParts, GooglePartsNext DEF ConsentsTyped, ConsentsTypedNext
  <2>3. QED BY <2>1, <2>2, RowQuiet, GoogleHalvesNext
<1>2. QED
  BY <1>1, SignInReads, RotateSwapStep, SaveStep, LeaveSteps, RenewalSteps, UpdateStep
     DEF GoogleNext

LEMMA GoogleAlways == GoogleSpec => []GoogleInv
  BY GoogleInitInv, GoogleNextInv, PTL DEF GoogleSpec

(* The credential, the sign-ins, the disconnects and the refreshes are always  *)
(* well typed.                                                                 *)
THEOREM GoogleTyped == GoogleSpec => []GoogleTypeOK
<1>1. GoogleInv => GoogleTypeOK
  BY DEF GoogleInv
<1>2. QED BY <1>1, GoogleAlways, PTL

(* A disconnect holds against every callback and refresh that was under way,   *)
(* for any number of them (disconnect, finishCallback, refresh).               *)
THEOREM GoogleDisconnectHolds == GoogleSpec => []DisconnectHolds
<1>1. GoogleInv => DisconnectHolds
  BY DEF GoogleInv
<1>2. QED BY <1>1, GoogleAlways, PTL

(* A slow refresh of one connection never lands under another.                 *)
THEOREM GoogleSecretFits == GoogleSpec => []SecretOfConnection
<1>1. GoogleInv => SecretOfConnection
  BY DEF GoogleInv
<1>2. QED BY <1>1, GoogleAlways, PTL

----------------------------------------------------------------------------
(* The event bus.  Every entry in the row, or read from it, is a record of its *)
(* key; and what the map remembers is less than a window after one.            *)
EmitRec == [pc : {"off", "look", "write", "stamp", "read", "swap"}, proc : BusProcs,
            owner : BusOwners, key : DedupeKeys, at : 0..MaxClock,
            seen : Seq(Entry), attempt : 0..Attempts]

Stamped(st, x) == x.at \in st[x.key]
AllStamped(st, s) == \A i \in 1..Len(s) : Stamped(st, s[i])
StampedEmit(st, r) == (r.pc \in {"read", "swap"} => Stamped(st, r)) /\ AllStamped(st, r.seen)
Remembered(st, k, at) == at # 0 => \E t \in st[k] : at <= t + (Ttl - 1)

BusInv ==
    /\ BusTypeOK
    /\ \A o \in BusOwners : AllStamped(stamps, lru[o])
    /\ \A e \in Emits : StampedEmit(stamps, emit[e])
    /\ \A p \in BusProcs, k \in DedupeKeys : Remembered(stamps, k, mem[p][k])

LEMMA NoEmitRec ==
    /\ NoEmit \in EmitRec /\ NoEmit.pc = "off" /\ NoEmit.seen = <<>>
    /\ \A st : StampedEmit(st, NoEmit)
<1>1. (CHOOSE p \in BusProcs : TRUE) \in BusProcs /\ (CHOOSE o \in BusOwners : TRUE) \in BusOwners
      /\ (CHOOSE k \in DedupeKeys : TRUE) \in DedupeKeys
  BY BusAssumption, Zenon
<1>2. <<>> \in Seq(Entry) /\ 0 \in 0..MaxClock /\ 0 \in 0..Attempts
  BY BusAssumption
<1>3. NoEmit \in EmitRec /\ NoEmit.pc = "off" /\ NoEmit.seen = <<>>
  BY <1>1, <1>2 DEF NoEmit, NoSeen, EmitRec
<1>4. QED
  BY <1>3 DEF StampedEmit, AllStamped

(* A record is never taken back. *)
LEMMA StampsGrow ==
    ASSUME NEW st, NEW more, \A k \in DedupeKeys : st[k] \subseteq more[k]
    PROVE  /\ \A s \in Seq(Entry) : AllStamped(st, s) => AllStamped(more, s)
           /\ \A r \in EmitRec : StampedEmit(st, r) => StampedEmit(more, r)
           /\ \A k \in DedupeKeys : \A at : Remembered(st, k, at) => Remembered(more, k, at)
<1>1. \A s \in Seq(Entry) : \A i \in 1..Len(s) : s[i].key \in DedupeKeys
  <2>1. \A s \in Seq(Entry) : \A i \in 1..Len(s) : s[i] \in Entry
    OBVIOUS
  <2>2. \A x \in Entry : x.key \in DedupeKeys
    BY DEF Entry
  <2>3. QED
    BY <2>1, <2>2
<1>2. \A s \in Seq(Entry) : AllStamped(st, s) => AllStamped(more, s)
  BY <1>1 DEF AllStamped, Stamped
<1>3. \A r \in EmitRec : r.seen \in Seq(Entry) /\ r.key \in DedupeKeys
  BY DEF EmitRec
<1>4. \A r \in EmitRec : StampedEmit(st, r) => StampedEmit(more, r)
  BY <1>2, <1>3 DEF StampedEmit, Stamped
<1>5. ASSUME NEW k \in DedupeKeys, NEW at, Remembered(st, k, at), at # 0
      PROVE  \E t \in more[k] : at <= t + (Ttl - 1)
  <2>1. PICK t \in st[k] : at <= t + (Ttl - 1)
    BY <1>5 DEF Remembered
  <2>2. t \in more[k]
    BY <2>1
  <2>3. QED
    BY <2>1, <2>2
<1>6. \A k \in DedupeKeys : \A at : Remembered(st, k, at) => Remembered(more, k, at)
  BY <1>5 DEF Remembered
<1>7. QED
  BY <1>2, <1>4, <1>6

(* One emission changes; a row, the map and the records may change with it.    *)
LEMMA BusStep ==
    ASSUME BusInv, NEW e \in Emits, NEW r \in EmitRec, emit' = [emit EXCEPT ![e] = r],
           clock' = clock, emitted' \in 0..MaxEmits,
           stamps' \in [DedupeKeys -> SUBSET (1..MaxClock)],
           \A k \in DedupeKeys : stamps[k] \subseteq stamps'[k],
           StampedEmit(stamps', r),
           lru' \in [BusOwners -> Seq(Entry)],
           \A o \in BusOwners : \/ lru'[o] = lru[o]
                                \/ Len(lru'[o]) <= MaxEntries /\ AllStamped(stamps', lru'[o]),
           mem' \in [BusProcs -> [DedupeKeys -> 0..MaxClock]],
           \A p \in BusProcs, k \in DedupeKeys :
              mem'[p][k] = mem[p][k] \/ Remembered(stamps', k, mem'[p][k])
    PROVE  BusInv'
<1>1. BusTypeOK'
  BY DEF BusInv, BusTypeOK, EmitRec
<1>2. /\ \A s \in Seq(Entry) : AllStamped(stamps, s) => AllStamped(stamps', s)
      /\ \A f \in EmitRec : StampedEmit(stamps, f) => StampedEmit(stamps', f)
      /\ \A k \in DedupeKeys : \A at : Remembered(stamps, k, at) => Remembered(stamps', k, at)
  BY StampsGrow
<1>3. \A o \in BusOwners : AllStamped(stamps', lru'[o])
  <2>1. \A o \in BusOwners : lru[o] \in Seq(Entry) /\ AllStamped(stamps, lru[o])
    BY DEF BusInv, BusTypeOK
  <2>2. QED
    BY <1>2, <2>1
<1>4. \A f \in Emits : StampedEmit(stamps', emit'[f])
  <2>1. \A f \in Emits : emit'[f] = IF f = e THEN r ELSE emit[f]
    BY DEF BusInv, BusTypeOK
  <2>2. \A f \in Emits : emit[f] \in EmitRec /\ StampedEmit(stamps, emit[f])
    BY DEF BusInv, BusTypeOK, EmitRec
  <2>3. QED
    BY <1>2, <2>1, <2>2
<1>5. \A p \in BusProcs, k \in DedupeKeys : Remembered(stamps', k, mem'[p][k])
  <2>1. \A p \in BusProcs, k \in DedupeKeys : Remembered(stamps, k, mem[p][k])
    BY DEF BusInv
  <2>2. QED
    BY <1>2, <2>1
<1>6. QED
  BY <1>1, <1>3, <1>4, <1>5 DEF BusInv

(* One emission alone changes. *)
LEMMA EmitStep ==
    ASSUME BusInv, NEW e \in Emits, NEW r \in EmitRec, emit' = [emit EXCEPT ![e] = r],
           StampedEmit(stamps, r), emitted' \in 0..MaxEmits, UNCHANGED <<clock, lru, mem, stamps>>
    PROVE  BusInv'
  BY BusStep DEF BusInv, BusTypeOK

(* The emission that e is, at another place of emit(). *)
LEMMA EmitMoves ==
    ASSUME BusInv, NEW e \in Emits, NEW pc \in {"write", "stamp"}
    PROVE  LET r == [emit[e] EXCEPT !.pc = pc] IN r \in EmitRec /\ StampedEmit(stamps, r)
<1>1. emit[e] \in EmitRec /\ StampedEmit(stamps, emit[e])
  BY DEF BusInv, BusTypeOK, EmitRec
<1> DEFINE r == [emit[e] EXCEPT !.pc = pc]
<1>2. r \in EmitRec /\ r.pc = pc /\ r.seen = emit[e].seen
  BY <1>1 DEF EmitRec
<1> HIDE DEF r
<1>3. StampedEmit(stamps, r)
  BY <1>1, <1>2 DEF StampedEmit
<1>4. QED
  BY <1>2, <1>3 DEF r

LEMMA BusQuiet ==
    ASSUME BusInv, NEW e \in Emits,
           \/ \E p \in BusProcs, o \in BusOwners, k \in DedupeKeys : Emit(e, p, o, k)
           \/ DropByMap(e) \/ PassOn(e) \/ Write(e) \/ EmitThrows(e)
    PROVE  BusInv'
<1>0. emit \in [Emits -> EmitRec] /\ emitted \in 0..MaxEmits /\ clock \in 1..MaxClock
  BY DEF BusInv, BusTypeOK, EmitRec
<1>1. CASE DropByMap(e) \/ EmitThrows(e)
  BY <1>0, <1>1, NoEmitRec, EmitStep DEF DropByMap, EmitThrows, EmitOff
<1>2. ASSUME NEW pc \in {"write", "stamp"}, EmitGoto(e, pc),
             UNCHANGED <<clock, lru, mem, stamps, emitted>>
      PROVE  BusInv'
  <2> DEFINE r == [emit[e] EXCEPT !.pc = pc]
  <2>1. emit' = [emit EXCEPT ![e] = r]
    BY <1>0, <1>2 DEF EmitGoto
  <2>2. r \in EmitRec /\ StampedEmit(stamps, r)
    BY EmitMoves
  <2> HIDE DEF r
  <2>3. QED
    BY <1>0, <1>2, <2>1, <2>2, EmitStep
<1>3. CASE PassOn(e) \/ Write(e)
  BY <1>2, <1>3 DEF PassOn, Write
<1>4. ASSUME NEW p \in BusProcs, NEW o \in BusOwners, NEW k \in DedupeKeys, Emit(e, p, o, k)
      PROVE  BusInv'
  <2> DEFINE r == [NoEmit EXCEPT !.pc = "look", !.proc = p, !.owner = o, !.key = k, !.at = clock]
  <2>1. r \in EmitRec /\ r.pc = "look" /\ r.seen = <<>>
    <3>1. NoEmit \in EmitRec /\ NoEmit.seen = <<>>
      BY NoEmitRec
    <3>2. clock \in 0..MaxClock
      BY <1>0, BusAssumption
    <3>3. QED
      BY <3>1, <3>2 DEF EmitRec
  <2>2. emit' = [emit EXCEPT ![e] = r] /\ UNCHANGED <<clock, lru, mem, stamps>>
    BY <1>4 DEF Emit
  <2>5. emitted' \in 0..MaxEmits
    <3>1. emitted < MaxEmits /\ emitted' = emitted + 1
      BY <1>4 DEF Emit
    <3>2. QED
      BY <1>0, <3>1, BusAssumption
  <2> HIDE DEF r
  <2>3. StampedEmit(stamps, r)
    BY <2>1 DEF StampedEmit, AllStamped
  <2>4. QED
    BY <2>1, <2>2, <2>3, <2>5, EmitStep
<1>5. QED
  BY <1>1, <1>3, <1>4

(* The map of a process: one key is set, and one may leave. *)
LEMMA EvictedMap ==
    ASSUME NEW m \in [DedupeKeys -> 0..MaxClock]
    PROVE  /\ Evicted(m) \in [DedupeKeys -> 0..MaxClock]
           /\ \A k \in DedupeKeys : Evicted(m)[k] \in {m[k], 0}
<1> DEFINE oldest == CHOOSE k \in DedupeKeys :
                       m[k] # 0 /\ \A j \in DedupeKeys : m[j] # 0 => m[k] <= m[j]
<1>1. Evicted(m) = m \/ Evicted(m) = [m EXCEPT ![oldest] = 0]
  BY DEF Evicted
<1> HIDE DEF oldest
<1>2. 0 \in 0..MaxClock
  BY BusAssumption
<1>3. QED
  BY <1>1, <1>2

LEMMA BusDropByRow ==
    ASSUME BusInv, NEW e \in Emits, DropByRow(e)
    PROVE  BusInv'
<1> DEFINE r == emit[e]
<1>0. /\ r \in EmitRec /\ lru \in [BusOwners -> Seq(Entry)] /\ stamps \in [DedupeKeys -> SUBSET (1..MaxClock)]
      /\ mem \in [BusProcs -> [DedupeKeys -> 0..MaxClock]] /\ emitted \in 0..MaxEmits
  BY DEF BusInv, BusTypeOK, EmitRec
<1>1. r.proc \in BusProcs /\ r.key \in DedupeKeys /\ r.at \in 0..MaxClock /\ r.owner \in BusOwners
  BY <1>0 DEF EmitRec
<1>2. Remembered(stamps, r.key, r.at)
  <2>1. PICK i \in DOMAIN lru[r.owner] : lru[r.owner][i].key = r.key /\ Fresh(r.at, lru[r.owner][i].at)
    BY DEF DropByRow, RowHit
  <2>2. i \in 1..Len(lru[r.owner]) /\ lru[r.owner][i] \in Entry
    BY <1>0, <1>1, <2>1
  <2>3. lru[r.owner][i].at \in stamps[r.key] /\ lru[r.owner][i].at \in 1..MaxClock
    BY <1>1, <2>1, <2>2 DEF BusInv, AllStamped, Stamped, Entry
  <2>4. r.at < lru[r.owner][i].at + Ttl
    BY <2>1 DEF Fresh
  <2>5. r.at <= lru[r.owner][i].at + (Ttl - 1)
    BY <1>1, <2>3, <2>4, BusAssumption
  <2>6. QED
    BY <2>3, <2>5 DEF Remembered
<1>3. mem' = [mem EXCEPT ![r.proc][r.key] = r.at] /\ emit' = [emit EXCEPT ![e] = NoEmit]
      /\ UNCHANGED <<clock, lru, stamps, emitted>>
  BY DEF DropByRow, EmitOff
<1> HIDE DEF r
<1>4. mem' \in [BusProcs -> [DedupeKeys -> 0..MaxClock]]
      /\ \A p \in BusProcs, k \in DedupeKeys :
            mem'[p][k] = IF p = r.proc /\ k = r.key THEN r.at ELSE mem[p][k]
  BY <1>0, <1>1, <1>3
<1>5. \A p \in BusProcs, k \in DedupeKeys :
         mem'[p][k] = mem[p][k] \/ Remembered(stamps', k, mem'[p][k])
  BY <1>2, <1>3, <1>4
<1>6. NoEmit \in EmitRec /\ StampedEmit(stamps', NoEmit)
  BY NoEmitRec
<1>7. QED
  BY <1>0, <1>3, <1>4, <1>5, <1>6, BusStep

LEMMA BusStamp ==
    ASSUME BusInv, NEW e \in Emits, Stamp(e)
    PROVE  BusInv'
<1> DEFINE r == [emit[e] EXCEPT !.pc = "read", !.at = clock]
           p0 == emit[e].proc
           k0 == emit[e].key
           m == [mem[p0] EXCEPT ![k0] = clock]
<1>0. /\ emit \in [Emits -> EmitRec] /\ emit[e] \in EmitRec /\ clock \in 1..MaxClock
      /\ stamps \in [DedupeKeys -> SUBSET (1..MaxClock)] /\ lru \in [BusOwners -> Seq(Entry)]
      /\ mem \in [BusProcs -> [DedupeKeys -> 0..MaxClock]] /\ emitted \in 0..MaxEmits
      /\ AllStamped(stamps, emit[e].seen)
  BY DEF BusInv, BusTypeOK, EmitRec, StampedEmit
<1>1. p0 \in BusProcs /\ k0 \in DedupeKeys /\ clock \in 0..MaxClock
  BY <1>0, BusAssumption DEF EmitRec
<1>2. r \in EmitRec /\ r.key = k0 /\ r.at = clock /\ r.seen = emit[e].seen
  BY <1>0, <1>1 DEF EmitRec
<1>3. /\ emit' = [emit EXCEPT ![e] = r] /\ mem' = [mem EXCEPT ![p0] = Evicted(m)]
      /\ stamps' = [stamps EXCEPT ![k0] = @ \cup {clock}] /\ UNCHANGED <<clock, lru, emitted>>
  BY <1>0 DEF Stamp
<1>4. m \in [DedupeKeys -> 0..MaxClock]
      /\ \A k \in DedupeKeys : m[k] = IF k = k0 THEN clock ELSE mem[p0][k]
  BY <1>0, <1>1
<1> HIDE DEF r, p0, k0, m
<1>5. /\ Evicted(m) \in [DedupeKeys -> 0..MaxClock]
      /\ \A k \in DedupeKeys : Evicted(m)[k] \in {m[k], 0}
  BY <1>4, EvictedMap
<1>6. /\ stamps' \in [DedupeKeys -> SUBSET (1..MaxClock)] /\ clock \in stamps'[k0]
      /\ \A k \in DedupeKeys : stamps[k] \subseteq stamps'[k]
  BY <1>0, <1>1, <1>3
<1>7. StampedEmit(stamps', r)
  <2>1. emit[e].seen \in Seq(Entry)
    BY <1>0 DEF EmitRec
  <2>2. AllStamped(stamps', r.seen)
    BY <1>0, <1>2, <1>6, <2>1, StampsGrow
  <2>3. QED
    BY <1>2, <1>6, <2>2 DEF StampedEmit, Stamped
<1>8. Remembered(stamps', k0, clock)
  <2>1. clock <= clock + (Ttl - 1)
    BY <1>0, BusAssumption
  <2>2. QED
    BY <1>6, <2>1 DEF Remembered
<1>9. mem' \in [BusProcs -> [DedupeKeys -> 0..MaxClock]]
      /\ \A p \in BusProcs : mem'[p] = IF p = p0 THEN Evicted(m) ELSE mem[p]
  BY <1>0, <1>3, <1>5
<1>10. ASSUME NEW p \in BusProcs, NEW k \in DedupeKeys
       PROVE  mem'[p][k] = mem[p][k] \/ Remembered(stamps', k, mem'[p][k])
  <2>1. mem'[p][k] = mem[p][k] \/ mem'[p][k] = 0 \/ (k = k0 /\ mem'[p][k] = clock)
    BY <1>4, <1>5, <1>9
  <2>2. Remembered(stamps', k, 0)
    BY DEF Remembered
  <2>3. QED
    BY <1>8, <2>1, <2>2
<1>11. QED
  BY <1>0, <1>2, <1>3, <1>6, <1>7, <1>9, <1>10, BusStep

LEMMA BusReadRow ==
    ASSUME BusInv, NEW e \in Emits, ReadRow(e)
    PROVE  BusInv'
<1>0. emit \in [Emits -> EmitRec] /\ emit[e] \in EmitRec /\ emitted \in 0..MaxEmits
      /\ lru \in [BusOwners -> Seq(Entry)] /\ emit[e].pc = "read" /\ StampedEmit(stamps, emit[e])
      /\ UNCHANGED <<clock, lru, mem, stamps, emitted>>
  BY DEF BusInv, BusTypeOK, EmitRec, ReadRow
<1>1. CASE EmitOff(e)
  BY <1>0, <1>1, NoEmitRec, EmitStep DEF EmitOff
<1> DEFINE r == [emit[e] EXCEPT !.pc = "swap", !.seen = lru[emit[e].owner]]
<1>2. CASE emit' = [emit EXCEPT ![e].pc = "swap", ![e].seen = lru[emit[e].owner]]
  <2>0. lru[emit[e].owner] \in Seq(Entry) /\ emit[e].owner \in BusOwners
    BY <1>0 DEF EmitRec
  <2>1. r \in EmitRec /\ r.key = emit[e].key /\ r.at = emit[e].at /\ r.seen = lru[emit[e].owner]
    BY <1>0, <2>0 DEF EmitRec
  <2>2. emit' = [emit EXCEPT ![e] = r]
    BY <1>0, <1>2
  <2> HIDE DEF r
  <2>3. StampedEmit(stamps, r)
    BY <1>0, <2>0, <2>1 DEF StampedEmit, Stamped, BusInv
  <2>4. QED
    BY <1>0, <2>1, <2>2, <2>3, EmitStep
<1>3. QED
  BY <1>1, <1>2 DEF ReadRow

(* What is written to the row. *)
LEMMA TrimmedRow ==
    ASSUME BusInv, NEW e \in Emits, emit[e].pc = "swap"
    PROVE  Trimmed(e) \in Seq(Entry) /\ Len(Trimmed(e)) <= MaxEntries /\ AllStamped(stamps, Trimmed(e))
<1> DEFINE s == StillFresh(emit[e].seen, emit[e].at)
           x == [key |-> emit[e].key, at |-> emit[e].at]
           last == Trimmed(e)
<1>0. emit[e] \in EmitRec /\ AllStamped(stamps, emit[e].seen) /\ Stamped(stamps, emit[e])
      /\ stamps \in [DedupeKeys -> SUBSET (1..MaxClock)]
  BY DEF BusInv, BusTypeOK, EmitRec, StampedEmit
<1>1. emit[e].seen \in Seq(Entry) /\ emit[e].key \in DedupeKeys
  BY <1>0 DEF EmitRec
<1>2. x \in Entry /\ Stamped(stamps, x)
  BY <1>0, <1>1 DEF Stamped, Entry
<1>3. s \in Seq(Entry) /\ \A n \in 1..Len(s) : \E i \in 1..Len(emit[e].seen) : s[n] = emit[e].seen[i]
  <2>1. PICK read, now : read \in Seq(Entry) /\ read = emit[e].seen /\ now = emit[e].at
    BY <1>1
  <2>2. /\ StillFresh(read, now) \in Seq(Entry)
        /\ \A n \in 1..Len(StillFresh(read, now)) :
              \E i \in 1..Len(read) : StillFresh(read, now)[n] = read[i]
    BY <2>1, FilterKeeps
  <2>3. QED
    BY <2>1, <2>2, Zenon
<1>4. AllStamped(stamps, s)
  BY <1>0, <1>3 DEF AllStamped
<1> HIDE DEF s, x
<1>5. /\ last \in Seq(Entry) /\ Len(last) <= MaxEntries
      /\ \A n \in 1..Len(last) : last[n] = x \/ \E i \in 1..Len(s) : last[n] = s[i]
  <2>1. last = SubSeq(Append(s, x),
                      IF Len(Append(s, x)) > MaxEntries THEN Len(Append(s, x)) - MaxEntries + 1 ELSE 1,
                      Len(Append(s, x)))
    BY DEF Trimmed, s, x
  <2> HIDE DEF last
  <2>2. QED
    BY <1>2, <1>3, <2>1, BusAssumption, LastEntries
<1> HIDE DEF last
<1>6. AllStamped(stamps, last)
  BY <1>2, <1>4, <1>5 DEF AllStamped
<1>7. QED
  BY <1>5, <1>6 DEF last

LEMMA BusSwapRow ==
    ASSUME BusInv, NEW e \in Emits, SwapRow(e)
    PROVE  BusInv'
<1> DEFINE o == emit[e].owner
           r == [emit[e] EXCEPT !.pc = "read", !.attempt = @ + 1, !.seen = NoSeen]
<1>0. /\ emit \in [Emits -> EmitRec] /\ emit[e] \in EmitRec /\ emit[e].pc = "swap"
      /\ lru \in [BusOwners -> Seq(Entry)] /\ emitted \in 0..MaxEmits
      /\ mem \in [BusProcs -> [DedupeKeys -> 0..MaxClock]]
      /\ stamps \in [DedupeKeys -> SUBSET (1..MaxClock)]
      /\ StampedEmit(stamps, emit[e])
      /\ UNCHANGED <<clock, mem, stamps, emitted>>
  BY DEF BusInv, BusTypeOK, EmitRec, SwapRow
<1>1. CASE lru' = [lru EXCEPT ![o] = Trimmed(e)] /\ EmitOff(e)
  <2>1. Trimmed(e) \in Seq(Entry) /\ Len(Trimmed(e)) <= MaxEntries /\ AllStamped(stamps, Trimmed(e))
    BY <1>0, TrimmedRow
  <2>2. lru' \in [BusOwners -> Seq(Entry)]
        /\ \A q \in BusOwners : lru'[q] = lru[q] \/ lru'[q] = Trimmed(e)
    BY <1>0, <1>1, <2>1
  <2>3. \A q \in BusOwners : \/ lru'[q] = lru[q]
                             \/ Len(lru'[q]) <= MaxEntries /\ AllStamped(stamps', lru'[q])
    BY <1>0, <2>1, <2>2
  <2>4. NoEmit \in EmitRec /\ StampedEmit(stamps', NoEmit)
    BY NoEmitRec
  <2>5. emit' = [emit EXCEPT ![e] = NoEmit]
    BY <1>1 DEF EmitOff
  <2>6. QED
    BY <1>0, <2>2, <2>3, <2>4, <2>5, BusStep
<1>2. CASE lru' = lru /\ EmitOff(e)
  BY <1>0, <1>2, NoEmitRec, EmitStep DEF EmitOff
<1>3. CASE lru' = lru /\ emit[e].attempt + 1 < Attempts
           /\ emit' = [emit EXCEPT ![e].pc = "read", ![e].attempt = @ + 1, ![e].seen = NoSeen]
  <2>1. emit[e].attempt + 1 \in 0..Attempts /\ <<>> \in Seq(Entry)
    BY <1>0, <1>3, BusAssumption DEF EmitRec
  <2>2. r \in EmitRec /\ r.key = emit[e].key /\ r.at = emit[e].at /\ r.seen = <<>>
    BY <1>0, <2>1 DEF EmitRec, NoSeen
  <2>3. emit' = [emit EXCEPT ![e] = r]
    BY <1>0, <1>3
  <2> HIDE DEF r
  <2>4. StampedEmit(stamps, r)
    BY <1>0, <2>2 DEF StampedEmit, Stamped, AllStamped
  <2>5. QED
    BY <1>0, <1>3, <2>2, <2>3, <2>4, EmitStep
<1>4. QED
  BY <1>1, <1>2, <1>3 DEF SwapRow

(* The clock, and a process that starts again. *)
LEMMA BusRestart ==
    ASSUME BusInv, Ms \/ \E p \in BusProcs : Restart(p)
    PROVE  BusInv'
<1>1. CASE Ms
  <2>1. clock' \in 1..MaxClock /\ UNCHANGED <<lru, mem, emit, stamps, emitted>>
    BY <1>1, BusAssumption DEF Ms, BusInv, BusTypeOK
  <2>2. QED
    BY <2>1 DEF BusInv, BusTypeOK
<1>2. ASSUME NEW p \in BusProcs, Restart(p)
      PROVE  BusInv'
  <2>0. /\ emit \in [Emits -> EmitRec] /\ mem \in [BusProcs -> [DedupeKeys -> 0..MaxClock]]
        /\ UNCHANGED <<clock, lru, stamps, emitted>>
    BY <1>2 DEF BusInv, BusTypeOK, EmitRec, Restart
  <2>1. \A e \in Emits : emit'[e] = NoEmit \/ emit'[e] = emit[e]
    BY <1>2 DEF Restart
  <2>2. emit' \in [Emits -> EmitRec]
    BY <1>2, <2>0, NoEmitRec DEF Restart
  <2>3. mem' \in [BusProcs -> [DedupeKeys -> 0..MaxClock]]
        /\ \A q \in BusProcs, k \in DedupeKeys : mem'[q][k] \in {mem[q][k], 0}
    BY <1>2, <2>0, BusAssumption DEF Restart
  <2>4. BusTypeOK'
    BY <2>0, <2>2, <2>3 DEF BusInv, BusTypeOK, EmitRec
  <2>5. \A e \in Emits : StampedEmit(stamps, emit'[e])
    BY <2>1, NoEmitRec DEF BusInv
  <2>6. \A q \in BusProcs, k \in DedupeKeys : Remembered(stamps, k, mem'[q][k])
    <3>1. \A q \in BusProcs, k \in DedupeKeys : Remembered(stamps, k, mem[q][k]) /\ Remembered(stamps, k, 0)
      BY DEF BusInv, Remembered
    <3>2. QED
      BY <2>3, <3>1
  <2>7. QED
    BY <2>0, <2>4, <2>5, <2>6 DEF BusInv
<1>3. QED
  BY <1>1, <1>2

LEMMA BusStarts ==
    ASSUME BusInit
    PROVE  BusInv
<1>1. <<>> \in Seq(Entry) /\ Len(<<>>) <= MaxEntries /\ AllStamped(stamps, <<>>)
  BY BusAssumption DEF AllStamped
<1>2. BusTypeOK
  BY <1>1, NoEmitRec, BusAssumption DEF BusInit, BusTypeOK, EmitRec, NoSeen
<1>3. QED
  BY <1>1, <1>2, NoEmitRec DEF BusInit, BusInv, NoSeen, Remembered

LEMMA BusKeeps ==
    ASSUME BusInv, [BusNext]_busVars
    PROVE  BusInv'
<1>1. CASE UNCHANGED busVars
  BY <1>1 DEF busVars, BusInv, BusTypeOK
<1>2. CASE BusNext
  BY <1>2, BusQuiet, BusDropByRow, BusStamp, BusReadRow, BusSwapRow, BusRestart DEF BusNext
<1>3. QED
  BY <1>1, <1>2

(* A drop has its reason in the state it is made in. *)
LEMMA DropReason ==
    ASSUME BusInv, NEW e \in Emits, DropByRow(e) \/ DropByMap(e)
    PROVE  \E t \in stamps[emit[e].key] : emit[e].at <= t + 2 * (Ttl - 1)
<1> DEFINE r == emit[e]
<1>0. r \in EmitRec /\ lru \in [BusOwners -> Seq(Entry)] /\ stamps \in [DedupeKeys -> SUBSET (1..MaxClock)]
      /\ mem \in [BusProcs -> [DedupeKeys -> 0..MaxClock]]
  BY DEF BusInv, BusTypeOK, EmitRec
<1>1. r.proc \in BusProcs /\ r.key \in DedupeKeys /\ r.at \in 0..MaxClock /\ r.owner \in BusOwners
  BY <1>0 DEF EmitRec
<1>2. Ttl - 1 \in Nat
  BY BusAssumption
<1>3. CASE DropByRow(e)
  <2>1. PICK i \in DOMAIN lru[r.owner] : lru[r.owner][i].key = r.key /\ Fresh(r.at, lru[r.owner][i].at)
    BY <1>3 DEF DropByRow, RowHit
  <2>2. i \in 1..Len(lru[r.owner]) /\ lru[r.owner][i] \in Entry
    BY <1>0, <1>1, <2>1
  <2>3. lru[r.owner][i].at \in stamps[r.key] /\ lru[r.owner][i].at \in 1..MaxClock
    BY <1>1, <2>1, <2>2 DEF BusInv, AllStamped, Stamped, Entry
  <2>4. r.at < lru[r.owner][i].at + Ttl
    BY <2>1 DEF Fresh
  <2>5. r.at <= lru[r.owner][i].at + 2 * (Ttl - 1)
    BY <1>1, <1>2, <2>3, <2>4, BusAssumption
  <2>6. QED
    BY <2>3, <2>5
<1>4. CASE DropByMap(e)
  <2>1. Fresh(r.at, mem[r.proc][r.key])
    BY <1>4 DEF DropByMap, MemHit
  <2>2. mem[r.proc][r.key] # 0 /\ r.at < mem[r.proc][r.key] + Ttl /\ mem[r.proc][r.key] \in 0..MaxClock
    BY <1>0, <1>1, <2>1 DEF Fresh
  <2>3. PICK t \in stamps[r.key] : mem[r.proc][r.key] <= t + (Ttl - 1)
    BY <1>1, <2>2 DEF BusInv, Remembered
  <2>4. t \in 1..MaxClock
    BY <1>0, <1>1, <2>3
  <2>5. r.at <= t + 2 * (Ttl - 1)
    BY <1>1, <1>2, <2>2, <2>3, <2>4, BusAssumption
  <2>6. QED
    BY <2>3, <2>5
<1>5. QED
  BY <1>3, <1>4

(* emit() drops an event only for a record of its key less than two windows    *)
(* old, for any number of processes, owners, keys and emissions in flight.     *)
THEOREM BusDropsHaveReason == BusSpec => DropHasReason
<1>1. BusInit => BusInv
  BY BusStarts
<1>2. BusInv /\ [BusNext]_busVars => BusInv'
  BY BusKeeps
<1>3. BusInv /\ [BusNext]_busVars =>
         [\A e \in Emits : (DropByRow(e) \/ DropByMap(e)) =>
             \E t \in stamps[emit[e].key] : emit[e].at <= t + 2 * (Ttl - 1)]_busVars
  BY DropReason
<1>4. QED
  BY <1>1, <1>2, <1>3, PTL DEF BusSpec, DropHasReason

----------------------------------------------------------------------------
(* The services together: a step is a step of one of them, and leaves the      *)
(* others alone.                                                               *)
ServicesInv ==
    /\ AuditInv /\ ComputerInv /\ BusInv /\ GoogleInv /\ OutboundInv /\ InboundInv
    /\ ModelInv /\ Counted

LEMMA OneServiceMoves ==
    ASSUME [ServicesNext]_servicesVars
    PROVE  /\ [AuditNext]_auditVars /\ [ComputerNext]_computerVars /\ [BusNext]_busVars
           /\ [GoogleNext]_googleVars /\ [OutboundNext]_outVars /\ [InboundNext]_inVars
           /\ [ModelNext]_modelVars
  BY DEF ServicesNext, servicesVars

LEMMA ServicesInvTypes == ServicesInv => ServicesTypeOK
<1> SUFFICES ASSUME ServicesInv PROVE ServicesTypeOK
  OBVIOUS
<1>1. AuditTypeOK /\ ComputerTypeOK /\ BusTypeOK /\ GoogleTypeOK /\ InboundTypeOK
  BY DEF ServicesInv, AuditInv, ComputerInv, BusInv, GoogleInv, InboundInv
<1>2. OutboundTypeOK
  BY DEF ServicesInv, OutboundInv, OutboundTypes, OutboundTypeOK, DecisionRec, DecisionPC
<1>3. ModelTypeOK
  BY CountsBounded DEF ServicesInv, ModelInv, Counted, AttemptRec, ModelTypeOK
<1>4. QED
  BY <1>1, <1>2, <1>3 DEF ServicesTypeOK

(* Every row and every call of every service keeps its type, for any number of *)
(* calls, processes, owners, runs and specifiers: a lease is only replaced by  *)
(* a lease, a dedupe row never outgrows its limit, and a provider's counter    *)
(* never counts a run twice.                                                   *)
THEOREM ServicesTyped == ServicesSpec => []ServicesTypeOK
<1>1. ServicesInit => ServicesInv
  BY AuditStart, InitInv, BusStarts, GoogleInitInv, OutboundInitInv, InboundInitInv, ModelInitInv,
     CountsStart
     DEF ServicesInit, ServicesInv
<1>2. ServicesInv /\ [ServicesNext]_servicesVars => ServicesInv'
  BY OneServiceMoves, AuditStep, NextInv, BusKeeps, GoogleNextInv, OutboundNextInv, InboundNextInv,
     ModelNextInv, CountsKept
     DEF ServicesInv
<1>3. QED
  BY <1>1, <1>2, ServicesInvTypes, PTL DEF ServicesSpec
=============================================================================
