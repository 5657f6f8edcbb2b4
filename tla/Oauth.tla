------------------------------- MODULE Oauth -------------------------------
(***************************************************************************)
(* The authorization-code grant with PKCE (OauthCodeService) and the       *)
(* client-credentials grant (OauthService.token).  Codes and refresh       *)
(* tokens live in two Maps of the process; a request takes its credential  *)
(* out of a Map in one synchronous step and then awaits the user row, so   *)
(* other requests, the deletion of the account, time and a restart come in *)
(* between.                                                                *)
(***************************************************************************)
EXTENDS Integers, FiniteSets

CONSTANTS
    Requests,       \* a code or refresh token is named by the request it answers
    NoCredential,   \* one the service never issued
    NoEntry,        \* a Map has nothing under a key
    Users,
    Redirects, Verifiers,
    Bodies,         \* what clients send, but for the credential
    TTL,            \* CODE_TTL_MS, in ticks
    MaxEvents       \* bound: clock ticks, restarts and deletions of accounts

Body == [op : {"consent", "exchange", "refresh", "client"},
         client : {"public", "confidential"},   \* publicClientId(), or a configured
                                                \* client with its secret
         user : Users,                          \* whose e-mail the form carries
         form : {"allow", "deny", "wrongPassword", "invalid"},
         redirect : Redirects,
         verifier : Verifiers]                  \* and its challenge: S256 is injective

\* clientId is publicClientId() in every entry; a refresh token keeps what it needs.
Entry == [user : Users, redirect : Redirects, challenge : Verifiers, expiresAt : Nat]

ASSUME OauthAssumption ==
    /\ Bodies \subseteq Body /\ Bodies # {}
    /\ NoCredential \notin Requests
    /\ NoEntry \notin Entry
    /\ TTL \in Nat /\ MaxEvents \in Nat

VARIABLES
    codes, refreshTokens,   \* the two Maps
    deactivated,            \* users with deactivated_at
    now, crashes,
    req, shown, pc, answer, \* body, credential presented, where, the HTTP answer
    held,                   \* the entry a request took out of its Map
    active,                 \* the user row it read was not deactivated
    origin,                 \* history: the consent a credential descends from
    born,                   \* history: the clock and the restarts when it was minted
    turn,                   \* history: which presentation of its credential a request is
    late                    \* history: requests for an account already deactivated

maps == <<codes, refreshTokens>>
handler == <<req, shown, pc, answer, held, active>>
history == <<origin, born, turn, late>>
vars == <<maps, deactivated, now, crashes, handler, history>>

Init ==
    /\ codes = [r \in Requests |-> NoEntry]
    /\ refreshTokens = [r \in Requests |-> NoEntry]
    /\ deactivated = {}
    /\ now = 0 /\ crashes = 0
    /\ req = [r \in Requests |-> CHOOSE b \in Bodies : TRUE]
    /\ shown = [r \in Requests |-> NoCredential]
    /\ pc = [r \in Requests |-> "idle"]
    /\ answer = [r \in Requests |-> "none"]
    /\ held = [r \in Requests |-> NoEntry]
    /\ active = [r \in Requests |-> FALSE]
    /\ origin = [r \in Requests |-> NoCredential]
    /\ born = [r \in Requests |-> NoCredential]
    /\ turn = [r \in Requests |-> 0]
    /\ late = {}

Goto(r, to) == pc' = [pc EXCEPT ![r] = to] /\ UNCHANGED answer
Finish(r, a) == pc' = [pc EXCEPT ![r] = "done"] /\ answer' = [answer EXCEPT ![r] = a]

\* The account a credential speaks for, and the birth of a new credential of r.
AccountOf(c) == req[origin[c]].user
Born(r, consent) ==
    /\ origin' = [origin EXCEPT ![r] = consent]
    /\ born' = [born EXCEPT ![r] = [time |-> now, crashes |-> crashes]]

------------------------------------------------------------------------------
(***************************************************************************)
(* A request is received and served up to its first await: one synchronous *)
(* step.  A credential can be presented once it was handed out.            *)
(***************************************************************************)
HandedOut == {s \in Requests : answer[s] \in {"code", "token"}}

Receive(r, b, c) ==
    /\ pc[r] = "idle"
    /\ req' = [req EXCEPT ![r] = b]
    /\ shown' = [shown EXCEPT ![r] = c]
    /\ late' = IF (IF c = NoCredential THEN b.user ELSE AccountOf(c)) \in deactivated
               THEN late \cup {r} ELSE late
    /\ UNCHANGED <<deactivated, now, crashes, active, origin, born>>

\* decide: the form is validated; a denial redirects with an error.
Decide(r) ==
    \E b \in Bodies :
        /\ b.op = "consent"
        /\ Receive(r, b, NoCredential)
        /\ CASE b.client # "public" \/ b.form = "invalid" -> Finish(r, "badRequest")
             [] b.form = "deny" -> Finish(r, "denied")
             [] OTHER -> Goto(r, "findUser")
        /\ UNCHANGED <<maps, held, turn>>

Issued(map, c) == IF c = NoCredential THEN NoEntry ELSE map[c]
Without(map, c) == [d \in Requests |-> IF d = c THEN NoEntry ELSE map[d]]

\* Mutants: PKCE is not checked; a code never expires.
MatchesRedirect(b, issued) == issued.redirect = b.redirect
NeverExpired(issued) == FALSE

Matches(b, issued) ==
    /\ issued.redirect = b.redirect
    /\ issued.challenge = b.verifier
Expired(issued) == issued.expiresAt < now

\* Mutant: a refresh token stays in its Map.
TokensKept(c) == refreshTokens

\* What is presented is gone whatever the checks say.
CodesAfter(c, good) == Without(codes, c)
TokensAfter(c) == Without(refreshTokens, c)

\* Requests that took part in the race for c at the same endpoint, r being the last.
TurnOf(r, b, c) ==
    turn' = [turn EXCEPT ![r] =
        1 + Cardinality({s \in Requests : shown[s] = c /\ req[s].op = b.op /\ turn[s] > 0})]

\* The entry goes into the request's hands, or the grant is refused.
Take(r, b, c, issued, good) ==
    /\ TurnOf(r, b, c)
    /\ IF good THEN held' = [held EXCEPT ![r] = issued] /\ Goto(r, "loadUser")
               ELSE Finish(r, "invalidGrant") /\ UNCHANGED held

\* exchange, up to its first await.
Exchange(r) ==
    \E b \in Bodies, c \in HandedOut \cup {NoCredential} :
        LET issued == Issued(codes, c)
            good == issued # NoEntry /\ ~Expired(issued) /\ Matches(b, issued)
        IN  /\ b.op = "exchange" /\ b.client = "public"
            /\ Receive(r, b, c)
            /\ codes' = CodesAfter(c, good)
            /\ Take(r, b, c, issued, good)
            /\ UNCHANGED refreshTokens

\* Any other client_id: 401, and the code stays.
ExchangeByOther(r) ==
    \E b \in Bodies, c \in HandedOut :
        /\ b.op = "exchange" /\ b.client # "public"
        /\ Receive(r, b, c)
        /\ Finish(r, "unauthorized")
        /\ UNCHANGED <<maps, held, turn>>

\* refresh, up to its first await; entries are all the public client's.
Refresh(r) ==
    \E b \in Bodies, c \in HandedOut \cup {NoCredential} :
        LET issued == Issued(refreshTokens, c)
            good == issued # NoEntry /\ b.client = "public"
        IN  /\ b.op = "refresh"
            /\ Receive(r, b, c)
            /\ refreshTokens' = TokensAfter(c)
            /\ Take(r, b, c, issued, good)
            /\ UNCHANGED codes

\* token, for the client-credentials grant: an access token and nothing kept.
ClientGrant(r) ==
    \E b \in Bodies :
        /\ b.op = "client"
        /\ Receive(r, b, NoCredential)
        /\ Finish(r, IF b.client = "public" THEN "unauthorized" ELSE "accessToken")
        /\ UNCHANGED <<maps, held, turn>>

------------------------------------------------------------------------------
(***************************************************************************)
(* After the awaits.                                                       *)
(***************************************************************************)
\* The user row is read: by validateCredentials before it compares the
\* password, by issue before it mints.
ReadUser(r) ==
    /\ pc[r] \in {"findUser", "loadUser"}
    /\ active' = [active EXCEPT ![r] =
          (IF pc[r] = "findUser" THEN req[r].user ELSE held[r].user) \notin deactivated]
    /\ Goto(r, IF pc[r] = "findUser" THEN "compare" ELSE "issue")
    /\ UNCHANGED <<maps, deactivated, now, crashes, req, shown, held, history>>

Welcome(r) == active[r]

AfterUser == <<deactivated, now, crashes, req, shown, held, active, turn, late>>

\* The password was compared: the sign-in page again, or a code.
MintCode(r) ==
    /\ pc[r] = "compare"
    /\ IF req[r].form = "wrongPassword" \/ ~Welcome(r)
       THEN Finish(r, "signIn") /\ UNCHANGED <<codes, origin, born>>
       ELSE /\ codes' = [codes EXCEPT ![r] =
                  [user |-> req[r].user, redirect |-> req[r].redirect,
                   challenge |-> req[r].verifier, expiresAt |-> now + TTL]]
            /\ Born(r, r)
            /\ Finish(r, "code")
    /\ UNCHANGED <<refreshTokens, AfterUser>>

\* issue, once the user row is there.
Issue(r) ==
    /\ pc[r] = "issue"
    /\ IF Welcome(r)
       THEN /\ refreshTokens' = [refreshTokens EXCEPT ![r] = held[r]]
            /\ Born(r, origin[shown[r]])
            /\ Finish(r, "token")
       ELSE Finish(r, "unauthorized") /\ UNCHANGED <<refreshTokens, origin, born>>
    /\ UNCHANGED <<codes, AfterUser>>

Handle(r) ==
    \/ Decide(r) \/ Exchange(r) \/ ExchangeByOther(r) \/ Refresh(r) \/ ClientGrant(r)
    \/ ReadUser(r) \/ MintCode(r) \/ Issue(r)

------------------------------------------------------------------------------
(***************************************************************************)
(* The environment.                                                        *)
(***************************************************************************)
EventLeft == now + crashes + Cardinality(deactivated) < MaxEvents

\* JobsService.startAccountDeletion, to which the Maps are unknown.
Deactivate(u) ==
    /\ u \notin deactivated /\ EventLeft
    /\ deactivated' = deactivated \cup {u}
    /\ UNCHANGED <<maps, now, crashes, handler, history>>

Tick ==
    /\ EventLeft
    /\ now' = now + 1
    /\ UNCHANGED <<maps, deactivated, crashes, handler, history>>

\* Mutant: refresh tokens outlive the process.
CrashKeepsTokens ==
    /\ EventLeft
    /\ crashes' = crashes + 1
    /\ codes' = [r \in Requests |-> NoEntry]
    /\ pc' = [r \in Requests |-> IF pc[r] = "idle" THEN "idle" ELSE "done"]
    /\ held' = [r \in Requests |-> NoEntry]
    /\ UNCHANGED <<refreshTokens, deactivated, now, req, shown, answer, active, history>>

\* The process restarts: both Maps are empty and requests are cut off.
Crash ==
    /\ EventLeft
    /\ crashes' = crashes + 1
    /\ codes' = [r \in Requests |-> NoEntry]
    /\ refreshTokens' = [r \in Requests |-> NoEntry]
    /\ pc' = [r \in Requests |-> IF pc[r] = "idle" THEN "idle" ELSE "done"]
    /\ held' = [r \in Requests |-> NoEntry]
    /\ UNCHANGED <<deactivated, now, req, shown, answer, active, history>>

Next ==
    \/ \E r \in Requests : Handle(r)
    \/ \E u \in Users : Deactivate(u)
    \/ Tick
    \/ Crash

Spec == Init /\ [][Next]_vars

------------------------------------------------------------------------------
(***************************************************************************)
(* Properties.                                                             *)
(***************************************************************************)
\* Every variable has its type.
TypeOK ==
    /\ codes \in [Requests -> Entry \cup {NoEntry}]
    /\ refreshTokens \in [Requests -> Entry \cup {NoEntry}]
    /\ deactivated \subseteq Users
    /\ now + crashes + Cardinality(deactivated) \in 0..MaxEvents
    /\ req \in [Requests -> Bodies]
    /\ shown \in [Requests -> Requests \cup {NoCredential}]
    /\ pc \in [Requests -> {"idle", "findUser", "compare", "loadUser", "issue", "done"}]
    /\ answer \in [Requests -> {"none", "badRequest", "denied", "signIn", "code", "token",
                                "unauthorized", "invalidGrant", "accessToken"}]
    /\ held \in [Requests -> Entry \cup {NoEntry}]
    /\ \A r \in Requests : pc[r] \in {"loadUser", "issue"} => held[r] # NoEntry
    /\ active \in [Requests -> BOOLEAN]
    /\ origin \in [Requests -> Requests \cup {NoCredential}]

\* A credential is live while it is in a Map, or in the hands of the request that
\* took it out and has not answered.
Live == {c \in Requests :
            \/ codes[c] # NoEntry
            \/ refreshTokens[c] # NoEntry
            \/ \E r \in Requests : shown[r] = c /\ pc[r] \in {"loadUser", "issue"}}

Grants == INSTANCE GrantChain
            WITH Credentials <- Requests, live <- Live, origin <- origin

\* "A refresh token rotates on use": with any retries, restarts and deletions in
\* between, the two Maps and the awaits amount to the steps of GrantChain, where a
\* credential is replaced by one successor in a single step.
Rotates == Grants!ChainSpec

\* However often clients retry a sign-in, it never has two credentials that work.
OneLivePerConsent == Grants!OneLivePerConsent

\* "Single use whatever happens next": only the first request that presents a
\* credential can succeed, and a first one that was refused has spent it.
FirstPresentationOnly ==
    \A r \in Requests : answer[r] = "token" => turn[r] = 1

\* "Bound to the challenge, the client and the redirect it was issued for": every
\* token goes back to a consent that was allowed with the right password, is for that
\* account, and its code was exchanged with that redirect and verifier.
BoundToConsent ==
    \A r \in Requests :
        answer[r] = "token" =>
            LET consent == req[origin[r]] IN
            /\ consent.op = "consent" /\ consent.form = "allow"
            /\ refreshTokens[r] # NoEntry => refreshTokens[r].user = consent.user
            /\ req[r].op = "exchange" => /\ req[r].redirect = consent.redirect
                                        /\ req[r].verifier = consent.verifier
                                        /\ shown[r] = origin[r]

\* "State that is meant to die with the process", and a code "lives a minute": no
\* request accepts a credential of an earlier process or a code older than its TTL.
NothingOutlives ==
    [][ \A r \in Requests :
            pc[r] # "loadUser" /\ pc'[r] = "loadUser" =>
                /\ born[shown'[r]].crashes = crashes
                /\ req'[r].op = "exchange" => now <= born[shown'[r]].time + TTL ]_vars

\* The deletion of an account does not reach these Maps, yet nothing that is asked
\* for after it yields a code or a token.
DeactivatedGetsNothing ==
    \A r \in late : answer[r] \notin {"code", "token"}

\* Whoever gets a token was the first to present what a consent gave to them, with the
\* account still there.
TokensAreEarned == FirstPresentationOnly /\ BoundToConsent /\ DeactivatedGetsNothing
=============================================================================
