----------------------------- MODULE AuditChain -----------------------------
(* apps/server/src/kernel/audit/store-store.ts: the audit trail of a tenant, *)
(* a chain of entries linked by hashes.  append() moves the anchor row to    *)
(* the new hash by compareAndSwap, then puts the entry; other processes may  *)
(* append, or this one die, in between.  An entry is named by its hash:      *)
(* hashes cover a fresh id, so they do not collide, and no entry is ever     *)
(* altered, so that verify() has only the order of the links to look at.     *)
EXTENDS Naturals, Sequences, FiniteSets

CONSTANTS
    Appenders,      \* append() calls in flight at once
    Hashes,         \* bound: the hashes that appends draw from
    NoHash,         \* previousHash of the first entry; hash of an absent anchor
    Anchor,         \* the row "__audit_anchor__", as verify() meets it
    Legacy,         \* entries of a chain from before the anchor, in order
    MaxAttempts,    \* MAX_ATTEMPTS, 8 in the code
    Page,           \* PAGE, 1000 in the code
    ReadErrors      \* whether a read of the anchor may throw (it counts as absent)

ASSUME AuditAssumption ==
    /\ NoHash \notin Hashes /\ Anchor \notin Hashes
    /\ Legacy \in Seq(Hashes)
    /\ \A i, j \in 1 .. Len(Legacy) : Legacy[i] = Legacy[j] => i = j
    /\ MaxAttempts \in Nat \ {0} /\ Page \in Nat \ {0}
    /\ ReadErrors \in BOOLEAN

VARIABLES
    anchor,         \* hash kept in the anchor row, or NoHash
    anchorAt,       \* how many entries were put before the anchor was moved last
    log,            \* the entries by updated_at, which is the order of the puts
    prev,           \* previousHash of the entries
    app,            \* the append() calls
    drawn,          \* hashes of legacy entries, and those the anchor was moved to
    died            \* history: an append died on the way

auditVars == <<anchor, anchorAt, log, prev, app, drawn, died>>

(* pc: idle; tip (the anchor was read as absent, the last row is next); read *)
(* (previousHash is known); swap (the anchor still has it); again (to be     *)
(* retried); put (the anchor was moved); failed (append threw).              *)
Call == [pc      : {"idle", "tip", "read", "swap", "again", "put", "failed"},
         prev    : Hashes \cup {NoHash},
         hash    : Hashes \cup {NoHash},
         attempt : Nat,
         base    : Nat,                \* history: hashes drawn when it began
         thrown  : Nat]                \* history: reads of the anchor that threw

NoCall == [pc |-> "idle", prev |-> NoHash, hash |-> NoHash, attempt |-> 0,
           base |-> 0, thrown |-> 0]

Entries == {log[i] : i \in DOMAIN log}

AuditTypeOK ==
    /\ anchor \in Hashes \cup {NoHash}
    /\ anchorAt \in Nat
    /\ log \in Seq(Hashes)
    /\ prev \in [Hashes -> Hashes \cup {NoHash}]
    /\ app \in [Appenders -> Call]
    /\ drawn \subseteq Hashes
    /\ died \in BOOLEAN

AuditInit ==
    /\ anchor = NoHash /\ anchorAt = 0
    /\ log = Legacy
    /\ prev = [h \in Hashes |->
                 IF \E i \in 2 .. Len(Legacy) : Legacy[i] = h
                 THEN Legacy[(CHOOSE i \in 2 .. Len(Legacy) : Legacy[i] = h) - 1] ELSE NoHash]
    /\ app = [p \in Appenders |-> NoCall]
    /\ drawn = {Legacy[i] : i \in DOMAIN Legacy}
    /\ died = FALSE

----------------------------------------------------------------------------
(* append() *)

SetCall(p, c) == app' = [app EXCEPT ![p] = c]

(* Mutant of Again: lastHash() is called once, before the loop. *)
Again_Stale(p, call) ==
    SetCall(p, [call EXCEPT !.attempt = @ + 1,
                   !.pc = IF call.attempt + 1 < MaxAttempts THEN "read" ELSE "failed"])

(* The next turn of the loop, or the error after the last one. *)
Again(p, call) ==
    SetCall(p, [call EXCEPT !.attempt = @ + 1, !.prev = NoHash,
                   !.pc = IF call.attempt + 1 < MaxAttempts THEN "again" ELSE "failed"])

(* lastHash(): the anchor, if there is one. *)
ReadTip(p) ==
    /\ app[p].pc \in {"idle", "failed", "again"}
    /\ LET call == IF app[p].pc = "again" THEN app[p]
                   ELSE [NoCall EXCEPT !.base = Cardinality(drawn)]
       IN  \/ /\ anchor # NoHash
              /\ SetCall(p, [call EXCEPT !.pc = "read", !.prev = anchor])
           \/ /\ anchor = NoHash
              /\ SetCall(p, [call EXCEPT !.pc = "tip"])
           \/ /\ ReadErrors
              /\ SetCall(p, [call EXCEPT !.thrown = @ + 1, !.pc = "tip"])
    /\ UNCHANGED <<anchor, anchorAt, log, prev, drawn, died>>

(* The hash of the row with the latest updated_at, the anchor included. *)
LastRowHash ==
    IF anchor # NoHash /\ anchorAt = Len(log) THEN anchor
    ELSE IF log = <<>> THEN NoHash ELSE log[Len(log)]

(* lastHash(): otherwise the latest row. *)
ListLast(p) ==
    /\ app[p].pc = "tip"
    /\ SetCall(p, [app[p] EXCEPT !.pc = "read", !.prev = LastRowHash])
    /\ UNCHANGED <<anchor, anchorAt, log, prev, drawn, died>>

(* The anchor, as it was seen, still has previousHash, or the turn is lost. *)
Compare(p, call, seen) ==
    \/ seen = call.prev /\ SetCall(p, [call EXCEPT !.pc = "swap"])
    \/ seen # call.prev /\ Again(p, call)

(* append(): the anchor is read once more and compared. *)
ReadAnchor(p) ==
    /\ app[p].pc = "read"
    /\ \/ Compare(p, app[p], anchor)
       \/ ReadErrors /\ Compare(p, [app[p] EXCEPT !.thrown = @ + 1], NoHash)
    /\ UNCHANGED <<anchor, anchorAt, log, prev, drawn, died>>

(* Mutant of AnchorIs: the anchor is overwritten. *)
AnchorIs_Put(h) == TRUE

(* insertIfAbsent wins if there is no anchor, compareAndSwap if it has hash h. *)
AnchorIs(h) == anchor = h

(* append(): the anchor moves to the hash of the new entry. *)
Swap(p) ==
    /\ app[p].pc = "swap"
    /\ IF AnchorIs(app[p].prev)
       THEN \E h \in Hashes \ drawn :
               /\ anchor' = h /\ anchorAt' = Len(log) /\ drawn' = drawn \cup {h}
               /\ SetCall(p, [app[p] EXCEPT !.pc = "put", !.hash = h])
       ELSE Again(p, app[p]) /\ UNCHANGED <<anchor, anchorAt, drawn>>
    /\ UNCHANGED <<log, prev, died>>

(* append(): the entry is put. *)
Put(p) ==
    /\ app[p].pc = "put"
    /\ log' = Append(log, app[p].hash)
    /\ prev' = [prev EXCEPT ![app[p].hash] = app[p].prev]
    /\ SetCall(p, NoCall)
    /\ UNCHANGED <<anchor, anchorAt, drawn, died>>

(* The process dies, or a statement throws. *)
Die(p) ==
    /\ app[p].pc \notin {"idle", "failed"}
    /\ SetCall(p, NoCall)
    /\ died' = TRUE
    /\ UNCHANGED <<anchor, anchorAt, log, prev, drawn>>

AuditNext ==
    \E p \in Appenders :
       ReadTip(p) \/ ListLast(p) \/ ReadAnchor(p) \/ Swap(p) \/ Put(p) \/ Die(p)

AuditSpec == AuditInit /\ [][AuditNext]_auditVars

----------------------------------------------------------------------------
(* verify() *)

(* All rows by updated_at, oldest first. *)
Rows == IF anchor = NoHash THEN log
        ELSE SubSeq(log, 1, anchorAt) \o <<Anchor>> \o SubSeq(log, anchorAt + 1, Len(log))

(* The rows as verify() meets them: pages from the newest to the oldest, and *)
(* each page, which listPaged sorts downwards, reversed.                     *)
Walk == LET n == Len(Rows) IN
    [k \in 1 .. n |->
        LET hi == n - ((k - 1) \div Page) * Page         \* newest row of the page
            lo == IF hi > Page THEN hi - Page + 1 ELSE 1
        IN  Rows[lo + ((k - 1) % Page)]]

(* verify(): every entry names the one met before it. *)
Verify ==
    LET met == SelectSeq(Walk, LAMBDA r : r # Anchor)
    IN  \A i \in 2 .. Len(met) : prev[met[i]] = met[i - 1]

----------------------------------------------------------------------------
(* Properties *)

(* The chain does not fork: no two entries name the same predecessor, however *)
(* many processes append at once and die on the way.                         *)
NoFork == \A g, h \in Entries : g # h => prev[g] # prev[h]

(* append() retries, and in the end throws, only for a reason: every turn of *)
(* the loop that fails was overtaken by a swap of its own, or a read of the  *)
(* anchor threw in it.                                                       *)
EachRetryLost ==
    \A p \in Appenders : app[p].pc # "idle" =>
       app[p].attempt + app[p].base <= Cardinality(drawn) + app[p].thrown

(* "verify() recorre la cadena y confirma que no se ha modificado nada": a   *)
(* chain that nobody tampered with, and that no append is working on or      *)
(* died on, verifies.                                                        *)
IntactVerifies ==
    (\A p \in Appenders : app[p].pc \in {"idle", "failed"}) /\ ~died => Verify
============================================================================
