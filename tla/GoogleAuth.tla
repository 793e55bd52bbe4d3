----------------------------- MODULE GoogleAuth -----------------------------
(* apps/server/src/google-auth.ts: the Google credential of one owner.  A      *)
(* sign-in rotates the generation of the row, leaves an OAuth state, and comes *)
(* back through callback(); disconnect() rotates and empties the row; expired  *)
(* tokens are refreshed.  Every call awaits the store and Google in between.   *)
(*                                                                             *)
(* Google is external: it answers or not, gives a refresh token or not, for    *)
(* one of the user's accounts.  Scopes, PKCE and encryption are left out, and  *)
(* so is the map that lets callers of one process share a refresh.             *)
EXTENDS Naturals

CONSTANTS
    SignIns,        \* sign-ins; each is its state id, its connectionId and its refresh token
    Disconnects,    \* calls of disconnect()
    Refreshes,      \* calls of accessToken() in flight at once
    Accounts,       \* Google accounts of the user
    NoSignIn,       \* null
    MaxRefreshed    \* bound: refreshes of one connection

ASSUME GoogleAssumption == NoSignIn \notin SignIns /\ MaxRefreshed \in Nat

VARIABLES
    cred,           \* "credentials" / "google"
    lapsed,         \* expiresAt of the stored tokens has passed
    consent,        \* the sign-ins: the OAuth state row and the call that works on it
    leaving,        \* the calls of disconnect()
    renewal,        \* the calls of accessToken()
    cut             \* history: the sign-ins that had begun when a disconnect took effect

googleVars == <<cred, lapsed, consent, leaving, renewal, cut>>

(* randomUUID() *)
Generation == {<<"none">>} \cup ({"connect", "saved"} \X SignIns) \cup ({"off"} \X Disconnects)
NoGeneration == <<"none">>

(* access: which of its access tokens the connection has. *)
Tokens == [conn : SignIns, account : Accounts, refresh : SignIns \cup {NoSignIn},
           access : 0..MaxRefreshed]
NoTokens == [conn |-> NoSignIn]

(* exists FALSE: no row yet. *)
Cred == [exists : BOOLEAN, gen : Generation, conn : SignIns \cup {NoSignIn},
         secret : Tokens \cup {NoTokens}]
NoCred == [exists |-> FALSE, gen |-> NoGeneration, conn |-> NoSignIn, secret |-> NoTokens]

NoRenewal == [pc |-> "off", seen |-> NoTokens]

GoogleTypeOK ==
    /\ cred \in Cred /\ lapsed \in BOOLEAN
    /\ consent \in [SignIns -> [pc : {"new", "rotate", "swap", "store", "google", "check", "exchange",
                                      "reuse", "save", "over"},
                                seen : Cred, account : Accounts \cup {NoSignIn}, given : BOOLEAN,
                                refresh : SignIns \cup {NoSignIn}]]
    /\ leaving \in [Disconnects -> [pc : {"new", "rotate", "swap", "revoke", "over"}, seen : Cred]]
    /\ renewal \in [Refreshes -> [pc : {"off", "fetch", "update"}, seen : Tokens \cup {NoTokens}]]
    /\ cut \subseteq SignIns

GoogleInit ==
    /\ cred = NoCred /\ lapsed = FALSE
    /\ consent = [s \in SignIns |-> [pc |-> "new", seen |-> NoCred, given |-> FALSE,
                                     account |-> NoSignIn, refresh |-> NoSignIn]]
    /\ leaving = [x \in Disconnects |-> [pc |-> "new", seen |-> NoCred]]
    /\ renewal = [r \in Refreshes |-> NoRenewal]
    /\ cut = {}

SignInGoto(s, pc) == consent' = [consent EXCEPT ![s].pc = pc]
LeavingGoto(x, pc) == leaving' = [leaving EXCEPT ![x].pc = pc]

----------------------------------------------------------------------------
(* rotateGeneration(): the row is read, and replaced if it is still the one    *)
(* that was read; otherwise once more.                                         *)
RotateRead(s) ==
    /\ consent[s].pc \in {"new", "rotate"}
    /\ consent' = [consent EXCEPT ![s].pc = "swap", ![s].seen = cred]
    /\ UNCHANGED <<cred, lapsed, leaving, renewal, cut>>
RotateSwap(s) ==
    /\ consent[s].pc = "swap"
    /\ IF cred = consent[s].seen
       THEN /\ cred' = [cred EXCEPT !.exists = TRUE, !.gen = <<"connect", s>>]
            /\ consent' = [consent EXCEPT ![s].pc = "store", ![s].seen = NoCred]
       ELSE UNCHANGED cred /\ SignInGoto(s, "rotate")
    /\ UNCHANGED <<lapsed, leaving, renewal, cut>>

(* connect(): the OAuth state, with the generation, and the user goes to Google. *)
PutState(s) ==
    /\ consent[s].pc = "store"
    /\ SignInGoto(s, "google")
    /\ UNCHANGED <<cred, lapsed, leaving, renewal, cut>>

(* callback(): the state is taken; a second delivery finds none. *)
TakeState(s) ==
    /\ consent[s].pc = "google"
    /\ SignInGoto(s, "check")
    /\ UNCHANGED <<cred, lapsed, leaving, renewal, cut>>

(* finishCallback(): still the sign-in of this generation ... *)
CheckGeneration(s) ==
    /\ consent[s].pc = "check"
    /\ SignInGoto(s, IF cred.gen = <<"connect", s>> THEN "exchange" ELSE "over")
    /\ UNCHANGED <<cred, lapsed, leaving, renewal, cut>>

(* ... the code is exchanged and the profile read ... *)
Exchange(s, a, given) ==
    /\ consent[s].pc = "exchange"
    /\ consent' = [consent EXCEPT ![s].pc = "reuse", ![s].account = a, ![s].given = given]
    /\ UNCHANGED <<cred, lapsed, leaving, renewal, cut>>

(* ... without a refresh token, that of the same account is kept ... *)
ReuseToken(s) ==
    /\ consent[s].pc = "reuse"
    /\ LET kept == IF cred.secret # NoTokens /\ cred.secret.account = consent[s].account
                   THEN cred.secret.refresh ELSE NoSignIn IN
       consent' = [consent EXCEPT ![s].pc = "save",
                                  ![s].refresh = IF consent[s].given THEN s ELSE kept]
    /\ UNCHANGED <<cred, lapsed, leaving, renewal, cut>>

(* Mutant of SaveFits: the credential is put. *)
SaveFits_Put(s) == TRUE

(* save(): compareAndSwap on the generation. *)
SaveFits(s) == cred.gen = <<"connect", s>>

(* ... and the tokens are saved under a new generation and connection. *)
Save(s) ==
    /\ consent[s].pc = "save"
    /\ IF SaveFits(s)
       THEN /\ cred' = [exists |-> TRUE, gen |-> <<"saved", s>>, conn |-> s,
                     secret |-> [conn |-> s, account |-> consent[s].account,
                                 refresh |-> consent[s].refresh, access |-> 0]]
            /\ lapsed' = FALSE
       ELSE UNCHANGED <<cred, lapsed>>
    /\ SignInGoto(s, "over")
    /\ UNCHANGED <<leaving, renewal, cut>>

(* A request fails, the state expires, the user gives up or the process dies. *)
SignInFails(s) ==
    /\ consent[s].pc \notin {"new", "over"}
    /\ SignInGoto(s, "over")
    /\ UNCHANGED <<cred, lapsed, leaving, renewal, cut>>

----------------------------------------------------------------------------
(* disconnect(): rotateGeneration with an empty secret, then revocation. *)
LeaveRead(x) ==
    /\ leaving[x].pc \in {"new", "rotate"}
    /\ leaving' = [leaving EXCEPT ![x].pc = "swap", ![x].seen = cred]
    /\ UNCHANGED <<cred, lapsed, consent, renewal, cut>>
LeaveSwap(x) ==
    /\ leaving[x].pc = "swap"
    /\ IF cred = leaving[x].seen
       THEN /\ cred' = [exists |-> TRUE, gen |-> <<"off", x>>, conn |-> NoSignIn, secret |-> NoTokens]
            /\ cut' = cut \cup {s \in SignIns : consent[s].pc \notin {"new", "rotate", "swap"}}
            /\ LeavingGoto(x, IF cred.secret = NoTokens THEN "over" ELSE "revoke")
       ELSE UNCHANGED <<cred, cut>> /\ LeavingGoto(x, "rotate")
    /\ UNCHANGED <<lapsed, consent, renewal>>
Revoke(x) ==
    /\ leaving[x].pc = "revoke"
    /\ LeavingGoto(x, "over")
    /\ UNCHANGED <<cred, lapsed, consent, renewal, cut>>

----------------------------------------------------------------------------
(* An hour passes. *)
Expire ==
    /\ cred.secret # NoTokens /\ ~lapsed
    /\ lapsed' = TRUE
    /\ UNCHANGED <<cred, consent, leaving, renewal, cut>>

(* accessToken(): tokens that have expired are refreshed, if they can be. *)
ReadTokens(r) ==
    /\ renewal[r].pc = "off"
    /\ cred.secret # NoTokens /\ lapsed /\ cred.secret.refresh # NoSignIn
    /\ cred.secret.access < MaxRefreshed
    /\ renewal' = [renewal EXCEPT ![r] = [pc |-> "fetch", seen |-> cred.secret]]
    /\ UNCHANGED <<cred, lapsed, consent, leaving, cut>>
FetchToken(r) ==
    /\ renewal[r].pc = "fetch"
    /\ renewal' = [renewal EXCEPT ![r].pc = "update"]
    /\ UNCHANGED <<cred, lapsed, consent, leaving, cut>>
RefreshFails(r) ==
    /\ renewal[r].pc # "off"
    /\ renewal' = [renewal EXCEPT ![r] = NoRenewal]
    /\ UNCHANGED <<cred, lapsed, consent, leaving, cut>>

(* Mutant of SameConnection: any credential is updated. *)
SameConnection_Any(r) == cred.exists

(* updateCredential: WHERE data->>'connectionId' = the connection that was read. *)
SameConnection(r) == cred.conn = renewal[r].seen.conn

(* refresh(): the secret of that connection gets the new access token. *)
UpdateCredential(r) ==
    /\ renewal[r].pc = "update"
    /\ IF SameConnection(r)
       THEN cred' = [cred EXCEPT !.secret = [renewal[r].seen EXCEPT !.access = @ + 1]] /\ lapsed' = FALSE
       ELSE UNCHANGED <<cred, lapsed>>
    /\ renewal' = [renewal EXCEPT ![r] = NoRenewal]
    /\ UNCHANGED <<consent, leaving, cut>>

GoogleNext ==
    \/ \E s \in SignIns :
          \/ RotateRead(s) \/ RotateSwap(s) \/ PutState(s) \/ TakeState(s) \/ CheckGeneration(s)
          \/ \E a \in Accounts, given \in BOOLEAN : Exchange(s, a, given)
          \/ ReuseToken(s) \/ Save(s) \/ SignInFails(s)
    \/ \E x \in Disconnects : LeaveRead(x) \/ LeaveSwap(x) \/ Revoke(x)
    \/ Expire
    \/ \E r \in Refreshes :
          ReadTokens(r) \/ FetchToken(r) \/ RefreshFails(r) \/ UpdateCredential(r)

GoogleSpec == GoogleInit /\ [][GoogleNext]_googleVars

----------------------------------------------------------------------------
(* A disconnect holds: neither a callback nor a refresh that was under way     *)
(* brings the account back, and no tokens, nor the refresh token reused by a   *)
(* later sign-in, come from a sign-in that had begun before it.                *)
DisconnectHolds ==
    cred.secret # NoTokens => cred.secret.conn \notin cut /\ cred.secret.refresh \notin cut

(* The secret is the one of the connection that the row names, which is what   *)
(* an action prepared for a connection is checked against: a slow refresh of   *)
(* one account never lands under another.                                      *)
SecretOfConnection == cred.secret # NoTokens => cred.secret.conn = cred.conn
============================================================================
