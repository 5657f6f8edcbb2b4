---------------------------- MODULE OauthProofs ----------------------------
(***************************************************************************)
(* The two Maps and the awaits of Oauth implement GrantChain, for any      *)
(* requests, bodies, clocks, deletions and restarts; so a consent never    *)
(* has two credentials that work.  A second invariant follows a credential *)
(* from the consent to the token: who may get one, for what, and until     *)
(* when.                                                                   *)
(***************************************************************************)
EXTENDS Oauth, FiniteSetTheorems, TLAPS

InHand(r) == pc[r] \in {"loadUser", "issue"}

Types ==
    /\ codes \in [Requests -> Entry \cup {NoEntry}]
    /\ refreshTokens \in [Requests -> Entry \cup {NoEntry}]
    /\ req \in [Requests -> Bodies]
    /\ shown \in [Requests -> Requests \cup {NoCredential}]
    /\ pc \in [Requests -> {"idle", "findUser", "compare", "loadUser", "issue", "done"}]
    /\ answer \in [Requests -> {"none", "badRequest", "denied", "signIn", "code", "token",
                                "unauthorized", "invalidGrant", "accessToken"}]
    /\ held \in [Requests -> Entry \cup {NoEntry}]
    /\ origin \in [Requests -> Requests \cup {NoCredential}]
    /\ now \in Nat

\* A request that has not answered has minted nothing.
NothingMintedYet ==
    \A r \in Requests :
        pc[r] # "done" =>
            /\ codes[r] = NoEntry /\ refreshTokens[r] = NoEntry
            /\ origin[r] = NoCredential
            /\ answer[r] = "none"

\* What a request took out of a Map is in neither, and was minted before.
TakenIsGone ==
    \A r \in Requests :
        InHand(r) =>
            /\ shown[r] \in Requests /\ pc[shown[r]] = "done"
            /\ codes[shown[r]] = NoEntry /\ refreshTokens[shown[r]] = NoEntry
            /\ held[r] \in Entry

OneTaker ==
    \A r, s \in Requests : InHand(r) /\ InHand(s) /\ shown[r] = shown[s] => r = s

OneMap == \A c \in Requests : codes[c] = NoEntry \/ refreshTokens[c] = NoEntry

\* That a redeemed credential is live nowhere else takes all of it: the synchronous
\* deletion before the await is what keeps OneTaker.
IInv == Types /\ NothingMintedYet /\ TakenIsGone /\ OneTaker /\ OneMap

ChainStep == [Grants!ChainNext]_(Grants!chain)

LEMMA InitInv == Init => IInv /\ Grants!ChainInit
<1> SUFFICES ASSUME Init PROVE IInv /\ Grants!ChainInit
  OBVIOUS
<1> USE OauthAssumption
<1>1. Types
  <2>1. (CHOOSE b \in Bodies : TRUE) \in Bodies
    OBVIOUS
  <2> QED BY <2>1 DEF Init, Types
<1>2. NothingMintedYet /\ TakenIsGone /\ OneTaker /\ OneMap
  BY DEF Init, NothingMintedYet, TakenIsGone, OneTaker, OneMap, InHand
<1>3. Live = {}
  BY DEF Init, Live
<1> QED BY <1>1, <1>2, <1>3 DEF IInv, Grants!ChainInit, Init

------------------------------------------------------------------------------
\* A step that keeps every live credential where it is, or drops some, is a step of
\* GrantChain.
LEMMA DropsAreSteps ==
    ASSUME Live' \subseteq Live, UNCHANGED origin
    PROVE  ChainStep
<1>1. Live' = Live \ (Live \ Live')
  OBVIOUS
<1> QED
  BY <1>1 DEF ChainStep, Grants!ChainNext, Grants!Burn, Grants!chain

\* What one request does before its first await: its own row of every variable.
LEMMA ReceiveFacts ==
    ASSUME IInv, NEW r \in Requests, NEW b \in Bodies,
           NEW c \in Requests \cup {NoCredential}, Receive(r, b, c)
    PROVE  /\ pc[r] = "idle"
           /\ req' = [req EXCEPT ![r] = b] /\ req' \in [Requests -> Bodies]
           /\ shown' = [shown EXCEPT ![r] = c]
           /\ shown' \in [Requests -> Requests \cup {NoCredential}]
           /\ UNCHANGED <<now, origin>>
BY DEF Receive, IInv, Types

\* Steps of a request that touch neither Map nor anything taken from one.
Aside(r) ==
    /\ UNCHANGED <<codes, refreshTokens, held, origin, now>>
    /\ req' \in [Requests -> Bodies]
    /\ shown' \in [Requests -> Requests \cup {NoCredential}]
    /\ \E to \in {"findUser", "compare", "issue", "done"}, a \in
             {"none", "badRequest", "denied", "signIn", "code", "token",
              "unauthorized", "invalidGrant", "accessToken"} :
          /\ pc' = [pc EXCEPT ![r] = to]
          /\ answer' = [answer EXCEPT ![r] = a]
          /\ to # "done" => a = "none"
          /\ to = "issue" => pc[r] = "loadUser"
    /\ pc[r] # "done"
    /\ \A s \in Requests \ {r} : shown'[s] = shown[s]
    /\ InHand(r) => shown'[r] = shown[r]

LEMMA AsideStep ==
    ASSUME IInv, NEW r \in Requests, Aside(r)
    PROVE  IInv' /\ ChainStep
<1>1. /\ \A s \in Requests \ {r} : pc'[s] = pc[s] /\ answer'[s] = answer[s]
      /\ pc'[r] = "issue" => pc[r] = "loadUser"
      /\ pc'[r] # "loadUser"
      /\ pc'[r] # "done" => answer'[r] = "none"
      /\ pc[r] # "done"
  BY DEF Aside, IInv, Types
<1>2. \A s \in Requests : (InHand(s))' => InHand(s) /\ shown'[s] = shown[s]
  BY <1>1 DEF InHand, Aside
<1>3. Types'
  BY DEF Aside, IInv, Types
<1>4. NothingMintedYet'
  BY <1>1 DEF Aside, IInv, NothingMintedYet
<1>5. TakenIsGone'
  <2> SUFFICES ASSUME NEW s \in Requests, (InHand(s))'
               PROVE  /\ shown'[s] \in Requests /\ pc'[shown'[s]] = "done"
                      /\ codes'[shown'[s]] = NoEntry /\ refreshTokens'[shown'[s]] = NoEntry
                      /\ held'[s] \in Entry
    BY DEF TakenIsGone
  <2>1. /\ shown[s] \in Requests /\ pc[shown[s]] = "done"
        /\ codes[shown[s]] = NoEntry /\ refreshTokens[shown[s]] = NoEntry
        /\ held[s] \in Entry
    BY <1>2 DEF IInv, TakenIsGone
  <2> QED BY <1>1, <1>2, <2>1 DEF Aside
<1>6. OneTaker' /\ OneMap'
  BY <1>2 DEF Aside, IInv, OneTaker, OneMap
<1>7. Live' \subseteq Live
  BY <1>2 DEF Live, InHand, Aside
<1> QED BY <1>3, <1>4, <1>5, <1>6, <1>7, DropsAreSteps DEF IInv, Aside

LEMMA AsideActions ==
    ASSUME IInv, NEW r \in Requests,
           Decide(r) \/ ExchangeByOther(r) \/ ClientGrant(r) \/ ReadUser(r)
    PROVE  Aside(r)
<1>1. CASE Decide(r)
  <2> PICK b \in Bodies :
         /\ Receive(r, b, NoCredential)
         /\ UNCHANGED <<maps, held, turn>>
         /\ \/ Finish(r, "badRequest") \/ Finish(r, "denied") \/ Goto(r, "findUser")
    BY <1>1 DEF Decide
  <2>1. /\ pc[r] = "idle" /\ answer[r] = "none"
        /\ req' \in [Requests -> Bodies]
        /\ shown' = [shown EXCEPT ![r] = NoCredential]
        /\ shown' \in [Requests -> Requests \cup {NoCredential}]
        /\ UNCHANGED <<now, origin>>
    BY ReceiveFacts DEF IInv, NothingMintedYet, Receive
  <2> QED BY <2>1 DEF Aside, Finish, Goto, maps, InHand, IInv, Types
<1>2. CASE ExchangeByOther(r)
  <2> PICK b \in Bodies, c \in Requests :
         /\ Receive(r, b, c)
         /\ UNCHANGED <<maps, held, turn>>
         /\ Finish(r, "unauthorized")
    BY <1>2 DEF ExchangeByOther, HandedOut
  <2>1. /\ pc[r] = "idle"
        /\ req' \in [Requests -> Bodies]
        /\ shown' = [shown EXCEPT ![r] = c]
        /\ shown' \in [Requests -> Requests \cup {NoCredential}]
        /\ UNCHANGED <<now, origin>>
    BY ReceiveFacts
  <2> QED BY <2>1 DEF Aside, Finish, maps, InHand, IInv, Types
<1>3. CASE ClientGrant(r)
  <2> PICK b \in Bodies :
         /\ Receive(r, b, NoCredential)
         /\ UNCHANGED <<maps, held, turn>>
         /\ Finish(r, "unauthorized") \/ Finish(r, "accessToken")
    BY <1>3 DEF ClientGrant
  <2>1. /\ pc[r] = "idle"
        /\ req' \in [Requests -> Bodies]
        /\ shown' = [shown EXCEPT ![r] = NoCredential]
        /\ shown' \in [Requests -> Requests \cup {NoCredential}]
        /\ UNCHANGED <<now, origin>>
    BY ReceiveFacts
  <2> QED BY <2>1 DEF Aside, Finish, maps, InHand, IInv, Types
<1>4. CASE ReadUser(r)
  <2>1. pc[r] \in {"findUser", "loadUser"} /\ answer[r] = "none"
    BY <1>4 DEF ReadUser, IInv, NothingMintedYet
  <2>2. /\ UNCHANGED <<codes, refreshTokens, held, origin, now, req, shown>>
        /\ pc' = [pc EXCEPT ![r] = IF pc[r] = "findUser" THEN "compare" ELSE "issue"]
        /\ answer' = [answer EXCEPT ![r] = "none"]
    BY <1>4, <2>1 DEF ReadUser, Goto, maps, history, IInv, Types
  <2> QED BY <2>1, <2>2 DEF Aside, InHand, IInv, Types
<1> QED BY <1>1, <1>2, <1>3, <1>4

\* A credential is presented: it is in no Map afterwards, and in r's hands if all
\* the checks passed.
Takes(r, c, good, issued) ==
    /\ pc[r] = "idle"
    /\ codes' \in [Requests -> Entry \cup {NoEntry}]
    /\ refreshTokens' \in [Requests -> Entry \cup {NoEntry}]
    /\ \A d \in Requests : /\ codes'[d] \in {codes[d], NoEntry}
                           /\ refreshTokens'[d] \in {refreshTokens[d], NoEntry}
    /\ req' \in [Requests -> Bodies]
    /\ shown' \in [Requests -> Requests \cup {NoCredential}]
    /\ shown' = [shown EXCEPT ![r] = c]
    /\ UNCHANGED <<now, origin>>
    /\ IF good
       THEN /\ c \in Requests /\ issued \in Entry
            /\ codes'[c] = NoEntry /\ refreshTokens'[c] = NoEntry
            /\ codes[c] # NoEntry \/ refreshTokens[c] # NoEntry
            /\ held' = [held EXCEPT ![r] = issued]
            /\ pc' = [pc EXCEPT ![r] = "loadUser"]
            /\ UNCHANGED answer
       ELSE /\ UNCHANGED held
            /\ pc' = [pc EXCEPT ![r] = "done"]
            /\ answer' = [answer EXCEPT ![r] = "invalidGrant"]

LEMMA TakesStep ==
    ASSUME IInv, NEW r \in Requests, NEW c \in Requests \cup {NoCredential},
           NEW good \in BOOLEAN, NEW issued, Takes(r, c, good, issued)
    PROVE  IInv' /\ ChainStep
<1>1. /\ \A s \in Requests \ {r} : /\ pc'[s] = pc[s] /\ answer'[s] = answer[s]
                                   /\ shown'[s] = shown[s] /\ held'[s] = held[s]
      /\ pc[r] = "idle" /\ pc'[r] \in {"loadUser", "done"} /\ shown'[r] = c
      /\ pc'[r] = "loadUser" <=> good
  BY DEF Takes, IInv, Types
<1>2. good => pc[c] = "done" /\ c # r /\ \A s \in Requests : InHand(s) => shown[s] # c
  BY <1>1 DEF Takes, IInv, NothingMintedYet, TakenIsGone
<1>3. \A s \in Requests \ {r} : (InHand(s))' <=> InHand(s)
  BY <1>1 DEF InHand
<1>4. (InHand(r))' <=> good
  BY <1>1 DEF InHand
<1>5. Types'
  BY DEF Takes, IInv, Types
<1>6. NothingMintedYet'
  BY <1>1 DEF Takes, IInv, NothingMintedYet, Types
<1>7. TakenIsGone'
  <2> SUFFICES ASSUME NEW s \in Requests, (InHand(s))'
               PROVE  /\ shown'[s] \in Requests /\ pc'[shown'[s]] = "done"
                      /\ codes'[shown'[s]] = NoEntry /\ refreshTokens'[shown'[s]] = NoEntry
                      /\ held'[s] \in Entry
    BY DEF TakenIsGone
  <2>1. CASE s = r
    <3>1. good /\ held'[r] = issued
      BY <1>4, <2>1 DEF Takes, IInv, Types
    <3> QED BY <1>1, <1>2, <2>1, <3>1 DEF Takes
  <2>2. CASE s # r
    <3>1. /\ shown[s] \in Requests /\ pc[shown[s]] = "done"
          /\ codes[shown[s]] = NoEntry /\ refreshTokens[shown[s]] = NoEntry
          /\ held[s] \in Entry
      BY <1>3, <2>2 DEF IInv, TakenIsGone
    <3> QED BY <1>1, <2>2, <3>1 DEF Takes
  <2> QED BY <2>1, <2>2
<1>8. OneTaker'
  BY <1>1, <1>2, <1>3, <1>4 DEF IInv, OneTaker
<1>9. OneMap'
  BY DEF Takes, IInv, OneMap
<1>10. Live' \subseteq Live
  <2> SUFFICES ASSUME NEW d \in Live' PROVE d \in Live
    OBVIOUS
  <2>1. d \in Requests
    BY DEF Live
  <2>2. CASE codes'[d] # NoEntry \/ refreshTokens'[d] # NoEntry
    BY <2>1, <2>2 DEF Takes, Live
  <2>3. CASE \E s \in Requests : shown'[s] = d /\ (InHand(s))'
    <3> PICK s \in Requests : shown'[s] = d /\ (InHand(s))'
      BY <2>3
    <3>1. CASE s = r
      BY <1>1, <1>4, <2>1, <3>1 DEF Takes, Live
    <3>2. CASE s # r
      BY <1>1, <1>3, <2>1, <3>2 DEF Live, InHand
    <3> QED BY <3>1, <3>2
  <2> QED BY <2>2, <2>3 DEF Live, InHand
<1> QED BY <1>5, <1>6, <1>7, <1>8, <1>9, <1>10, DropsAreSteps DEF IInv, Takes

LEMMA ExchangeTakes ==
    ASSUME IInv, NEW r \in Requests, Exchange(r)
    PROVE  IInv' /\ ChainStep
<1> PICK b \in Bodies, c \in HandedOut \cup {NoCredential} :
       LET issued == Issued(codes, c)
           good == issued # NoEntry /\ ~Expired(issued) /\ Matches(b, issued)
       IN  /\ Receive(r, b, c)
           /\ codes' = CodesAfter(c, good)
           /\ Take(r, b, c, issued, good)
           /\ UNCHANGED refreshTokens
  BY DEF Exchange
<1> DEFINE issued == Issued(codes, c)
           good == issued # NoEntry /\ ~Expired(issued) /\ Matches(b, issued)
<1>1. c \in Requests \cup {NoCredential}
  BY DEF HandedOut
<1>2. /\ pc[r] = "idle"
      /\ req' \in [Requests -> Bodies]
      /\ shown' = [shown EXCEPT ![r] = c]
      /\ shown' \in [Requests -> Requests \cup {NoCredential}]
      /\ UNCHANGED <<now, origin>>
  BY <1>1, ReceiveFacts
<1>3. /\ codes' = [d \in Requests |-> IF d = c THEN NoEntry ELSE codes[d]]
      /\ refreshTokens' = refreshTokens
  BY DEF CodesAfter, Without
<1>4. good => c \in Requests /\ issued = codes[c] /\ issued \in Entry
  BY <1>1 DEF Issued, IInv, Types
<1>5. good => refreshTokens[c] = NoEntry
  BY <1>4 DEF IInv, OneMap
<1>6. Takes(r, c, good, issued)
  <2>1. /\ codes' \in [Requests -> Entry \cup {NoEntry}]
        /\ refreshTokens' \in [Requests -> Entry \cup {NoEntry}]
        /\ \A d \in Requests : /\ codes'[d] \in {codes[d], NoEntry}
                               /\ refreshTokens'[d] \in {refreshTokens[d], NoEntry}
    BY <1>3 DEF IInv, Types
  <2>2. CASE good
    BY <1>2, <1>3, <1>4, <1>5, <2>1, <2>2 DEF Takes, Take, Goto
  <2>3. CASE ~good
    BY <1>2, <2>1, <2>3 DEF Takes, Take, Finish
  <2> QED BY <2>2, <2>3
<1> HIDE DEF good, issued
<1>7. good \in BOOLEAN
  BY DEF good
<1> QED BY <1>1, <1>6, <1>7, TakesStep

LEMMA RefreshTakes ==
    ASSUME IInv, NEW r \in Requests, Refresh(r)
    PROVE  IInv' /\ ChainStep
<1> PICK b \in Bodies, c \in HandedOut \cup {NoCredential} :
       LET issued == Issued(refreshTokens, c)
           good == issued # NoEntry /\ b.client = "public"
       IN  /\ Receive(r, b, c)
           /\ refreshTokens' = TokensAfter(c)
           /\ Take(r, b, c, issued, good)
           /\ UNCHANGED codes
  BY DEF Refresh
<1> DEFINE issued == Issued(refreshTokens, c)
           good == issued # NoEntry /\ b.client = "public"
<1>1. c \in Requests \cup {NoCredential}
  BY DEF HandedOut
<1>2. /\ pc[r] = "idle"
      /\ req' \in [Requests -> Bodies]
      /\ shown' = [shown EXCEPT ![r] = c]
      /\ shown' \in [Requests -> Requests \cup {NoCredential}]
      /\ UNCHANGED <<now, origin>>
  BY <1>1, ReceiveFacts
<1>3. /\ refreshTokens' = [d \in Requests |-> IF d = c THEN NoEntry ELSE refreshTokens[d]]
      /\ codes' = codes
  BY DEF TokensAfter, Without
<1>4. good => c \in Requests /\ issued = refreshTokens[c] /\ issued \in Entry
  BY <1>1 DEF Issued, IInv, Types
<1>5. good => codes[c] = NoEntry
  BY <1>4 DEF IInv, OneMap
<1>6. Takes(r, c, good, issued)
  <2>1. /\ codes' \in [Requests -> Entry \cup {NoEntry}]
        /\ refreshTokens' \in [Requests -> Entry \cup {NoEntry}]
        /\ \A d \in Requests : /\ codes'[d] \in {codes[d], NoEntry}
                               /\ refreshTokens'[d] \in {refreshTokens[d], NoEntry}
    BY <1>3 DEF IInv, Types
  <2>2. CASE good
    BY <1>2, <1>3, <1>4, <1>5, <2>1, <2>2 DEF Takes, Take, Goto
  <2>3. CASE ~good
    BY <1>2, <2>1, <2>3 DEF Takes, Take, Finish
  <2> QED BY <2>2, <2>3
<1> HIDE DEF good, issued
<1>7. good \in BOOLEAN
  BY DEF good
<1> QED BY <1>1, <1>6, <1>7, TakesStep

\* A code begins a chain; a refused sign-in changes nothing.
LEMMA MintCodeStep ==
    ASSUME IInv, NEW r \in Requests, MintCode(r)
    PROVE  IInv' /\ ChainStep
<1>1. CASE req[r].form = "wrongPassword" \/ ~Welcome(r)
  <2>1. pc[r] = "compare" /\ Finish(r, "signIn")
        /\ UNCHANGED <<codes, refreshTokens, origin, now, req, shown, held>>
    BY <1>1 DEF MintCode, AfterUser
  <2>2. Aside(r)
    BY <2>1 DEF Aside, Finish, InHand, IInv, Types
  <2> QED BY <2>2, AsideStep
<1>2. CASE ~(req[r].form = "wrongPassword" \/ ~Welcome(r))
  <2> DEFINE entry == [user |-> req[r].user, redirect |-> req[r].redirect,
                       challenge |-> req[r].verifier, expiresAt |-> now + TTL]
  <2>1. /\ pc[r] = "compare"
        /\ codes' = [codes EXCEPT ![r] = entry]
        /\ origin' = [origin EXCEPT ![r] = r]
        /\ pc' = [pc EXCEPT ![r] = "done"]
        /\ answer' = [answer EXCEPT ![r] = "code"]
        /\ UNCHANGED <<refreshTokens, now, req, shown, held>>
    BY <1>2 DEF MintCode, Born, Finish, AfterUser
  <2>2. req[r] \in Body /\ now \in Nat /\ TTL \in Nat
    BY OauthAssumption DEF IInv, Types
  <2>3. entry \in Entry /\ entry # NoEntry
    <3>1. entry \in Entry
      BY <2>2 DEF Entry, Body
    <3> QED BY <3>1, OauthAssumption
  <2> HIDE DEF entry
  <2>4. codes[r] = NoEntry /\ refreshTokens[r] = NoEntry /\ origin[r] = NoCredential
    BY <2>1 DEF IInv, NothingMintedYet
  <2>5. \A s \in Requests : /\ (InHand(s))' <=> InHand(s)
                            /\ InHand(s) => shown[s] # r /\ s # r
    BY <2>1 DEF InHand, IInv, Types, TakenIsGone
  <2>6. Types'
    BY <2>1, <2>3 DEF IInv, Types
  <2>7. NothingMintedYet'
    BY <2>1 DEF IInv, Types, NothingMintedYet
  <2>8. TakenIsGone' /\ OneTaker'
    BY <2>1, <2>5 DEF IInv, Types, TakenIsGone, OneTaker
  <2>9. OneMap'
    BY <2>1, <2>4 DEF IInv, Types, OneMap
  <2>10. Live' = Live \cup {r}
    <3>1. \A d \in Requests :
             codes'[d] # NoEntry <=> codes[d] # NoEntry \/ d = r
      BY <2>1, <2>3 DEF IInv, Types
    <3> QED BY <2>1, <2>5, <3>1 DEF Live, InHand
  <2>11. Grants!Consent(r)
    BY <2>1, <2>4, <2>10 DEF Grants!Consent, Grants!Unminted
  <2> QED
    BY <2>6, <2>7, <2>8, <2>9, <2>11 DEF IInv, ChainStep, Grants!ChainNext
<1> QED BY <1>1, <1>2

\* The successor takes the place of what r holds, or that is burnt.
LEMMA IssueStep ==
    ASSUME IInv, NEW r \in Requests, Issue(r)
    PROVE  IInv' /\ ChainStep
<1>1. CASE ~Welcome(r)
  <2>1. pc[r] = "issue" /\ Finish(r, "unauthorized")
        /\ UNCHANGED <<codes, refreshTokens, origin, now, req, shown, held>>
    BY <1>1 DEF Issue, AfterUser
  <2>2. Aside(r)
    BY <2>1 DEF Aside, Finish, InHand, IInv, Types
  <2> QED BY <2>2, AsideStep
<1>2. CASE Welcome(r)
  <2> DEFINE old == shown[r]
  <2>1. /\ pc[r] = "issue"
        /\ refreshTokens' = [refreshTokens EXCEPT ![r] = held[r]]
        /\ origin' = [origin EXCEPT ![r] = origin[old]]
        /\ pc' = [pc EXCEPT ![r] = "done"]
        /\ answer' = [answer EXCEPT ![r] = "token"]
        /\ UNCHANGED <<codes, now, req, shown, held>>
    BY <1>2 DEF Issue, Born, Finish, AfterUser
  <2>2. /\ old \in Requests /\ pc[old] = "done"
        /\ codes[old] = NoEntry /\ refreshTokens[old] = NoEntry
        /\ held[r] \in Entry /\ held[r] # NoEntry
        /\ old # r
    BY <2>1, OauthAssumption DEF IInv, TakenIsGone, InHand
  <2>3. codes[r] = NoEntry /\ refreshTokens[r] = NoEntry /\ origin[r] = NoCredential
    BY <2>1 DEF IInv, NothingMintedYet
  <2>4. \A s \in Requests : /\ (InHand(s))' <=> InHand(s) /\ s # r
                            /\ InHand(s) => shown[s] # r
                            /\ InHand(s) /\ s # r => shown[s] # old
    BY <2>1 DEF InHand, IInv, Types, TakenIsGone, OneTaker
  <2>5. Types'
    BY <2>1, <2>2 DEF IInv, Types
  <2>6. NothingMintedYet'
    BY <2>1 DEF IInv, Types, NothingMintedYet
  <2>7. TakenIsGone' /\ OneTaker'
    BY <2>1, <2>4 DEF IInv, Types, TakenIsGone, OneTaker
  <2>8. OneMap'
    BY <2>1, <2>3 DEF IInv, Types, OneMap
  <2>9. old \in Live /\ Live' = (Live \ {old}) \cup {r}
    <3>1. \A d \in Requests :
             refreshTokens'[d] # NoEntry <=> refreshTokens[d] # NoEntry \/ d = r
      BY <2>1, <2>2 DEF IInv, Types
    <3>2. Live = {c \in Requests : \/ codes[c] # NoEntry \/ refreshTokens[c] # NoEntry
                                   \/ \E s \in Requests : shown[s] = c /\ InHand(s)}
      BY DEF Live, InHand
    <3>3. Live' = {c \in Requests : \/ codes[c] # NoEntry
                                    \/ refreshTokens[c] # NoEntry \/ c = r
                                    \/ \E s \in Requests :
                                          shown[s] = c /\ InHand(s) /\ s # r}
      BY <2>1, <2>4, <3>1 DEF Live, InHand
    <3>4. InHand(r)
      BY <2>1 DEF InHand
    <3> QED BY <2>2, <2>4, <3>2, <3>3, <3>4
  <2>10. Grants!Redeem(old, r)
    BY <2>1, <2>3, <2>9 DEF Grants!Redeem, Grants!Unminted
  <2> QED
    BY <2>2, <2>5, <2>6, <2>7, <2>8, <2>10 DEF IInv, ChainStep, Grants!ChainNext
<1> QED BY <1>1, <1>2

\* A restart empties both Maps and cuts off whoever holds something.
LEMMA CrashStep ==
    ASSUME IInv, Crash
    PROVE  IInv' /\ ChainStep
<1>1. /\ codes' = [r \in Requests |-> NoEntry]
      /\ refreshTokens' = [r \in Requests |-> NoEntry]
      /\ held' = [r \in Requests |-> NoEntry]
      /\ pc' = [r \in Requests |-> IF pc[r] = "idle" THEN "idle" ELSE "done"]
      /\ UNCHANGED <<now, req, shown, answer, origin>>
  BY DEF Crash, history
<1>2. \A r \in Requests : ~(InHand(r))'
  BY <1>1 DEF InHand
<1>3. Types'
  BY <1>1 DEF IInv, Types
<1>4. NothingMintedYet'
  BY <1>1 DEF IInv, NothingMintedYet
<1>5. TakenIsGone' /\ OneTaker' /\ OneMap'
  BY <1>1, <1>2 DEF TakenIsGone, OneTaker, OneMap
<1>6. Live' \subseteq Live
  BY <1>1, <1>2 DEF Live, InHand
<1> QED BY <1>1, <1>3, <1>4, <1>5, <1>6, DropsAreSteps DEF IInv

\* Time passes, or an account is deactivated: the Maps do not notice.
LEMMA ElsewhereStep ==
    ASSUME IInv, UNCHANGED <<maps, handler, origin>>, now' \in Nat
    PROVE  IInv' /\ ChainStep
<1>1. UNCHANGED <<codes, refreshTokens, req, shown, pc, answer, held, origin>>
  BY DEF maps, handler
<1>2. Types'
  BY <1>1 DEF IInv, Types
<1>3. NothingMintedYet' /\ TakenIsGone' /\ OneTaker' /\ OneMap'
  BY <1>1 DEF IInv, NothingMintedYet, TakenIsGone, OneTaker, OneMap, InHand
<1>4. Live' \subseteq Live
  BY <1>1 DEF Live
<1> QED BY <1>1, <1>2, <1>3, <1>4, DropsAreSteps DEF IInv

LEMMA NextStep ==
    ASSUME IInv, [Next]_vars
    PROVE  IInv' /\ ChainStep
<1>1. ASSUME NEW r \in Requests, Handle(r)
      PROVE  IInv' /\ ChainStep
  <2>1. CASE Decide(r) \/ ExchangeByOther(r) \/ ClientGrant(r) \/ ReadUser(r)
    BY <2>1, AsideActions, AsideStep
  <2>2. CASE Exchange(r)
    BY <2>2, ExchangeTakes
  <2>3. CASE Refresh(r)
    BY <2>3, RefreshTakes
  <2>4. CASE MintCode(r)
    BY <2>4, MintCodeStep
  <2>5. CASE Issue(r)
    BY <2>5, IssueStep
  <2> QED BY <1>1, <2>1, <2>2, <2>3, <2>4, <2>5 DEF Handle
<1>2. ASSUME NEW u \in Users, Deactivate(u)
      PROVE  IInv' /\ ChainStep
  BY <1>2, ElsewhereStep DEF Deactivate, history, IInv, Types
<1>3. CASE Tick
  BY <1>3, ElsewhereStep DEF Tick, history, IInv, Types
<1>4. CASE Crash
  BY <1>4, CrashStep
<1>5. CASE UNCHANGED vars
  BY <1>5, ElsewhereStep DEF vars, history, IInv, Types
<1> QED BY <1>1, <1>2, <1>3, <1>4, <1>5 DEF Next

\* "A refresh token rotates on use": however requests, restarts, deletions and the
\* clock interleave, what the two Maps and the awaits do are steps of GrantChain.
THEOREM RotatesHolds == Spec => Rotates
<1>1. Init => IInv /\ Grants!ChainInit
  BY InitInv
<1>2. IInv /\ [Next]_vars => IInv' /\ ChainStep
  BY NextStep
<1> QED BY <1>1, <1>2, PTL DEF Spec, Rotates, Grants!ChainSpec, ChainStep

------------------------------------------------------------------------------
(***************************************************************************)
(* GrantChain keeps its promise, and so does what implements it.           *)
(***************************************************************************)

\* Every minted credential descends from a minted consent.
Rooted ==
    \A c \in Requests :
        ~Grants!Unminted(c) => origin[c] \in Requests /\ ~Grants!Unminted(origin[c])

\* That a consent has one credential is not inductive: a new consent might be the origin
\* of an older credential, a redeemed one of credentials never minted.
ChainInv ==
    /\ origin \in [Requests -> Requests \cup {NoCredential}]
    /\ Live \subseteq {c \in Requests : ~Grants!Unminted(c)}
    /\ Rooted
    /\ Grants!OneLivePerConsent

LEMMA ChainInitInv ==
    ASSUME Grants!ChainInit
    PROVE  ChainInv
BY OauthAssumption
   DEF Grants!ChainInit, ChainInv, Rooted, Grants!Unminted, Grants!OneLivePerConsent

\* No credential minted before descends from a consent given only now.
LEMMA ConsentInv ==
    ASSUME ChainInv, NEW c \in Requests, Grants!Consent(c)
    PROVE  ChainInv'
<1>1. /\ origin' \in [Requests -> Requests \cup {NoCredential}]
      /\ origin'[c] = c
      /\ \A d \in Requests \ {c} : origin'[d] = origin[d]
  BY DEF ChainInv, Grants!Consent
<1>2. Live' \subseteq {d \in Requests : origin'[d] # NoCredential}
  BY <1>1, OauthAssumption DEF ChainInv, Grants!Consent, Grants!Unminted
<1>3. \A d \in Requests \ {c} : origin[d] # c
  BY OauthAssumption DEF ChainInv, Rooted, Grants!Consent, Grants!Unminted
<1>4. Rooted'
  BY <1>1, <1>3 DEF ChainInv, Rooted, Grants!Unminted
<1>5. Grants!OneLivePerConsent'
  <2> SUFFICES ASSUME NEW a \in Live', NEW b \in Live', origin'[a] = origin'[b]
               PROVE  a = b
    BY DEF Grants!OneLivePerConsent
  <2>1. a \in Live \cup {c} /\ b \in Live \cup {c} /\ Live \subseteq Requests
    BY DEF ChainInv, Grants!Consent
  <2>2. CASE a = c \/ b = c
    BY <1>1, <1>3, <2>1, <2>2
  <2>3. CASE a # c /\ b # c
    BY <1>1, <2>1, <2>3 DEF ChainInv, Grants!OneLivePerConsent
  <2> QED BY <2>2, <2>3
<1> QED BY <1>1, <1>2, <1>4, <1>5 DEF ChainInv, Grants!Unminted

\* The successor takes the place of the only live credential of its consent.
LEMMA RedeemInv ==
    ASSUME ChainInv, NEW old \in Requests, NEW new \in Requests, Grants!Redeem(old, new)
    PROVE  ChainInv'
<1>1. /\ origin' \in [Requests -> Requests \cup {NoCredential}]
      /\ origin'[new] = origin[old]
      /\ \A d \in Requests \ {new} : origin'[d] = origin[d]
  BY DEF ChainInv, Grants!Redeem
<1>2. origin[old] \in Requests /\ origin[new] = NoCredential
  BY DEF ChainInv, Rooted, Grants!Redeem, Grants!Unminted
<1>3. Live' \subseteq {d \in Requests : origin'[d] # NoCredential}
  BY <1>1, <1>2 DEF ChainInv, Grants!Redeem, Grants!Unminted
<1>4. Rooted'
  BY <1>1, <1>2 DEF ChainInv, Rooted, Grants!Redeem, Grants!Unminted
<1>5. Grants!OneLivePerConsent'
  <2> SUFFICES ASSUME NEW a \in Live', NEW b \in Live', origin'[a] = origin'[b]
               PROVE  a = b
    BY DEF Grants!OneLivePerConsent
  <2>1. /\ a \in (Live \ {old}) \cup {new}
        /\ b \in (Live \ {old}) \cup {new}
        /\ Live \subseteq Requests /\ old \in Live
    BY DEF ChainInv, Grants!Redeem
  <2>2. \A d \in Live \ {old} : origin[d] # origin[old]
    BY <2>1 DEF ChainInv, Grants!OneLivePerConsent
  <2>3. CASE a = new \/ b = new
    BY <1>1, <2>1, <2>2, <2>3
  <2>4. CASE a # new /\ b # new
    BY <1>1, <2>1, <2>4 DEF ChainInv, Grants!OneLivePerConsent
  <2> QED BY <2>3, <2>4
<1> QED BY <1>1, <1>3, <1>4, <1>5 DEF ChainInv, Grants!Unminted

\* A consent never has two working credentials, whatever is redeemed, burnt or lost.
THEOREM ChainOneLive == Grants!ChainSpec => []OneLivePerConsent
<1>1. Grants!ChainInit => ChainInv
  BY ChainInitInv
<1>2. ChainInv /\ [Grants!ChainNext]_(Grants!chain) => ChainInv'
  <2> SUFFICES ASSUME ChainInv, [Grants!ChainNext]_(Grants!chain)
               PROVE  ChainInv'
    OBVIOUS
  <2>1. ASSUME NEW c \in Requests, Grants!Consent(c)
        PROVE  ChainInv'
    BY <2>1, ConsentInv
  <2>2. ASSUME NEW old \in Requests, NEW new \in Requests, Grants!Redeem(old, new)
        PROVE  ChainInv'
    BY <2>2, RedeemInv
  <2>3. ASSUME NEW gone \in SUBSET Live, Grants!Burn(gone)
        PROVE  ChainInv'
    BY <2>3 DEF Grants!Burn, ChainInv, Rooted, Grants!Unminted, Grants!OneLivePerConsent
  <2>4. CASE UNCHANGED Grants!chain
    BY <2>4 DEF Grants!chain, ChainInv, Rooted, Grants!Unminted, Grants!OneLivePerConsent
  <2> QED BY <2>1, <2>2, <2>3, <2>4 DEF Grants!ChainNext
<1>3. ChainInv => OneLivePerConsent
  BY DEF ChainInv, OneLivePerConsent
<1> QED BY <1>1, <1>2, <1>3, PTL DEF Grants!ChainSpec

\* A consent never has two credentials that work, however often clients retry.
THEOREM OneLive == Spec => []OneLivePerConsent
BY RotatesHolds, ChainOneLive, PTL DEF Rotates

------------------------------------------------------------------------------
(***************************************************************************)
(* What a token goes back to, and how long its credential lived.           *)
(***************************************************************************)
Domains ==
    /\ DOMAIN born = Requests /\ DOMAIN turn = Requests
    /\ active \in [Requests -> BOOLEAN]
    /\ crashes \in Nat
    /\ late \subseteq Requests
    /\ deactivated \subseteq Users /\ IsFiniteSet(deactivated)
    /\ now + crashes + Cardinality(deactivated) <= MaxEvents

GaveOut(r) == answer[r] \in {"code", "token"}

\* The consent at the root was allowed, and its request is over.
Allowed(o) ==
    /\ o \in Requests /\ pc[o] = "done"
    /\ req[o].op = "consent" /\ req[o].form = "allow"

\* What is presented was handed out, and what is handed out has an allowed consent.
RootIsAllowed(r) ==
    /\ shown[r] \in Requests => GaveOut(shown[r])
    /\ GaveOut(r) => Allowed(origin[r])
    /\ pc[r] \in {"findUser", "compare"} =>
          req[r].op = "consent" /\ req[r].form \in {"allow", "wrongPassword"}

\* An entry of a Map remembers what its consent was for.
EntryIsTrue(r) ==
    /\ codes[r] # NoEntry =>
          /\ answer[r] = "code" /\ origin[r] = r
          /\ codes[r].user = req[r].user /\ codes[r].redirect = req[r].redirect
          /\ codes[r].challenge = req[r].verifier
    /\ refreshTokens[r] # NoEntry =>
          answer[r] = "token" /\ refreshTokens[r].user = req[origin[r]].user

\* So does the entry a request took out, and with the checks it passed the request too.
Proven(r, o) ==
    req[r].op = "exchange" =>
        /\ shown[r] = o
        /\ req[r].redirect = req[o].redirect /\ req[r].verifier = req[o].verifier

HandIsTrue(r) ==
    /\ InHand(r) => /\ held[r].user = req[origin[shown[r]]].user
                    /\ Proven(r, origin[shown[r]])
    /\ answer[r] = "token" => Proven(r, origin[r])

\* Whoever presented a credential has emptied its place in the Map; so who takes one out
\* is the first.
TurnIsTaken(r) ==
    /\ pc[r] = "idle" => turn[r] = 0
    /\ InHand(r) \/ answer[r] = "token" => turn[r] = 1
    /\ shown[r] \in Requests /\ turn[r] > 0 =>
          /\ req[r].op = "exchange" => codes[shown[r]] = NoEntry
          /\ req[r].op = "refresh" => refreshTokens[shown[r]] = NoEntry

\* A request for an account that was deactivated when it came finds it so.
LateFindsOut(r) ==
    r \in late =>
        /\ ~GaveOut(r) /\ pc[r] # "idle"
        /\ pc[r] \in {"findUser", "compare"} => req[r].user \in deactivated
        /\ InHand(r) => req[origin[shown[r]]].user \in deactivated
        /\ pc[r] \in {"compare", "issue"} => ~active[r]

\* An entry of a Map is of this process, and a code's end is its birth and its TTL.
AgeIsTrue(r) ==
    /\ codes[r] # NoEntry => /\ born[r].crashes = crashes
                             /\ codes[r].expiresAt = born[r].time + TTL
    /\ refreshTokens[r] # NoEntry => born[r].crashes = crashes

Earned(r) ==
    /\ RootIsAllowed(r) /\ EntryIsTrue(r) /\ HandIsTrue(r) /\ TurnIsTaken(r)
    /\ LateFindsOut(r) /\ AgeIsTrue(r)

EarnedInv == Domains /\ \A r \in Requests : Earned(r)

LEMMA EarnedInit == Init => EarnedInv
<1> SUFFICES ASSUME Init PROVE EarnedInv
  OBVIOUS
<1> USE DEF Init
<1>1. Domains
  BY OauthAssumption, FS_EmptySet DEF Domains
<1>2. ASSUME NEW r \in Requests PROVE Earned(r)
  BY OauthAssumption DEF Earned, RootIsAllowed, GaveOut, EntryIsTrue, HandIsTrue, Proven,
     InHand, TurnIsTaken, LateFindsOut, AgeIsTrue
<1> QED BY <1>1, <1>2 DEF EarnedInv

\* A request is served in rows of its own; only what it presents goes from the Maps.
LEMMA OthersStay ==
    ASSUME IInv, Domains, NEW r \in Requests, Handle(r)
    PROVE  /\ pc[r] # "done" /\ answer[r] = "none" /\ pc'[r] # "idle"
           /\ UNCHANGED <<deactivated, now, crashes>>
           /\ \A s \in Requests \ {r} :
                 /\ req'[s] = req[s] /\ shown'[s] = shown[s] /\ pc'[s] = pc[s]
                 /\ answer'[s] = answer[s] /\ held'[s] = held[s] /\ active'[s] = active[s]
                 /\ origin'[s] = origin[s] /\ born'[s] = born[s] /\ turn'[s] = turn[s]
                 /\ codes'[s] \in {codes[s], NoEntry}
                 /\ refreshTokens'[s] \in {refreshTokens[s], NoEntry}
           /\ late' \ {r} = late \ {r}
           /\ Domains'
<1> USE DEF IInv, Types, Domains
<1>1. pc[r] # "done" /\ answer[r] = "none"
  BY DEF NothingMintedYet, Handle, Decide, Exchange, ExchangeByOther, Refresh, ClientGrant,
         Receive, ReadUser, MintCode, Issue
<1>2. UNCHANGED <<deactivated, now, crashes>>
  BY DEF Handle, Decide, Exchange, ExchangeByOther, Refresh, ClientGrant, Receive, ReadUser,
         MintCode, Issue, AfterUser
<1> USE DEF Goto, Finish, maps, history
<1>3. CASE Decide(r) \/ ExchangeByOther(r) \/ ClientGrant(r)
  <2>1. PICK b \in Bodies, c \in HandedOut \cup {NoCredential} :
            /\ Receive(r, b, c) /\ UNCHANGED <<maps, held, turn>>
            /\ Finish(r, answer'[r]) \/ Goto(r, "findUser")
    BY <1>3 DEF Decide, ExchangeByOther, ClientGrant
  <2> QED BY <1>1, <1>2, <2>1 DEF Receive
<1>4. CASE Exchange(r)
  BY <1>1, <1>2, <1>4 DEF Exchange, Receive, Take, TurnOf, CodesAfter, Without
<1>5. CASE Refresh(r)
  BY <1>1, <1>2, <1>5 DEF Refresh, Receive, Take, TurnOf, TokensAfter, Without
<1>6. CASE ReadUser(r)
  BY <1>1, <1>2, <1>6 DEF ReadUser
<1>7. CASE MintCode(r)
  BY <1>1, <1>2, <1>7 DEF MintCode, AfterUser, Born
<1>8. CASE Issue(r)
  BY <1>1, <1>2, <1>8 DEF Issue, AfterUser, Born
<1> QED BY <1>3, <1>4, <1>5, <1>6, <1>7, <1>8 DEF Handle

\* Credentials that were handed out, and their consents, are other requests' and stay.
LEMMA CredentialsStay ==
    ASSUME IInv, EarnedInv, NEW r \in Requests, Handle(r)
    PROVE  /\ \A o : Allowed(o) => o # r /\ (Allowed(o))' /\ req'[o] = req[o]
           /\ \A c \in Requests : GaveOut(c) =>
                 /\ c # r /\ (GaveOut(c))'
                 /\ origin'[c] = origin[c] /\ born'[c] = born[c] /\ answer'[c] = answer[c]
                 /\ Allowed(origin[c])
                 /\ req'[origin[c]] = req[origin[c]]
<1>1. /\ pc[r] # "done" /\ answer[r] = "none"
      /\ \A s \in Requests \ {r} :
            /\ req'[s] = req[s] /\ pc'[s] = pc[s] /\ answer'[s] = answer[s]
            /\ origin'[s] = origin[s] /\ born'[s] = born[s]
  BY OthersStay DEF EarnedInv
<1>2. ASSUME NEW o, Allowed(o) PROVE o # r /\ (Allowed(o))' /\ req'[o] = req[o]
  BY <1>1, <1>2 DEF Allowed
<1>3. ASSUME NEW c \in Requests, GaveOut(c) PROVE Allowed(origin[c]) /\ c # r
  BY <1>1, <1>3 DEF EarnedInv, Earned, RootIsAllowed, GaveOut
<1> QED BY <1>1, <1>2, <1>3 DEF GaveOut

LEMMA OthersEarned ==
    ASSUME IInv, EarnedInv, NEW r \in Requests, Handle(r), NEW s \in Requests, s # r
    PROVE  (Earned(s))'
<1>1. /\ pc[r] # "done" /\ answer[r] = "none"
      /\ UNCHANGED <<deactivated, now, crashes>>
      /\ req'[s] = req[s] /\ shown'[s] = shown[s] /\ pc'[s] = pc[s]
      /\ answer'[s] = answer[s] /\ held'[s] = held[s] /\ active'[s] = active[s]
      /\ origin'[s] = origin[s] /\ born'[s] = born[s] /\ turn'[s] = turn[s]
      /\ codes'[s] \in {codes[s], NoEntry}
      /\ refreshTokens'[s] \in {refreshTokens[s], NoEntry}
      /\ s \in late' => s \in late
  BY OthersStay DEF EarnedInv
<1>2. Earned(s)
  BY DEF EarnedInv
<1>3. /\ \A o : Allowed(o) => o # r /\ (Allowed(o))' /\ req'[o] = req[o]
      /\ \A c \in Requests : GaveOut(c) =>
                 /\ c # r /\ (GaveOut(c))'
                 /\ origin'[c] = origin[c]
                 /\ req'[origin[c]] = req[origin[c]]
  BY CredentialsStay
<1>4. InHand(s) => shown[s] \in Requests
  BY DEF IInv, TakenIsGone
<1>5. (InHand(s))' <=> InHand(s)
  BY <1>1 DEF InHand
<1>6. (RootIsAllowed(s))'
  BY <1>1, <1>2, <1>3 DEF Earned, RootIsAllowed, GaveOut
<1>7. (EntryIsTrue(s))'
  BY <1>1, <1>2, <1>3 DEF Earned, EntryIsTrue, GaveOut
<1>8. InHand(s) => /\ origin'[shown[s]] = origin[shown[s]]
                   /\ req'[origin[shown[s]]] = req[origin[shown[s]]]
  BY <1>2, <1>3, <1>4 DEF Earned, RootIsAllowed
<1>9. answer[s] = "token" => req'[origin[s]] = req[origin[s]]
  BY <1>3 DEF GaveOut
<1>10. (HandIsTrue(s))'
  BY <1>1, <1>2, <1>5, <1>8, <1>9 DEF Earned, HandIsTrue, Proven
<1>11. (TurnIsTaken(s))'
  <2>1. shown[s] \in Requests =>
           /\ codes'[shown[s]] \in {codes[shown[s]], NoEntry}
           /\ refreshTokens'[shown[s]] \in {refreshTokens[shown[s]], NoEntry}
    BY <1>2, <1>3, OthersStay DEF Earned, RootIsAllowed, EarnedInv
  <2> QED BY <1>1, <1>2, <1>5, <2>1 DEF Earned, TurnIsTaken
<1>12. (LateFindsOut(s))'
  BY <1>1, <1>2, <1>5, <1>8 DEF Earned, LateFindsOut, GaveOut
<1>13. (AgeIsTrue(s))'
  BY <1>1, <1>2 DEF Earned, AgeIsTrue
<1> QED BY <1>6, <1>7, <1>10, <1>11, <1>12, <1>13 DEF Earned

\* What is true of every request that is received.
LEMMA ReceivedFacts ==
    ASSUME IInv, EarnedInv, NEW r \in Requests, NEW b \in Bodies,
           NEW c \in Requests \cup {NoCredential}, Receive(r, b, c)
    PROVE  /\ pc[r] = "idle" /\ answer[r] = "none" /\ turn[r] = 0 /\ b \in Body
           /\ codes[r] = NoEntry /\ refreshTokens[r] = NoEntry
           /\ req'[r] = b /\ shown'[r] = c
           /\ r \in late' => (IF c = NoCredential THEN b.user ELSE AccountOf(c)) \in deactivated
           /\ UNCHANGED <<deactivated, active, origin, born>>
<1>1. Earned(r) /\ pc[r] = "idle"
  BY DEF EarnedInv, Receive
<1>2. r \notin late /\ turn[r] = 0
  BY <1>1 DEF Earned, LateFindsOut, TurnIsTaken
<1> QED BY <1>1, <1>2, OauthAssumption DEF Receive, IInv, Types, NothingMintedYet

\* A request that presents nothing, or as another client, is answered or waits for the
\* user row.
LEMMA AsideEarned ==
    ASSUME IInv, EarnedInv, NEW r \in Requests,
           Decide(r) \/ ExchangeByOther(r) \/ ClientGrant(r)
    PROVE  (Earned(r))'
<1>1. PICK b \in Bodies, c \in HandedOut \cup {NoCredential} :
         /\ Receive(r, b, c) /\ UNCHANGED <<maps, held, turn>>
         /\ \/ Goto(r, "findUser") /\ b.op = "consent" /\ c = NoCredential
               /\ b.form \in {"allow", "wrongPassword"}
            \/ \E a \in {"badRequest", "denied", "unauthorized", "accessToken"} :
                  Finish(r, a)
  <2>1. \A b \in Bodies : b.form \in {"allow", "deny", "wrongPassword", "invalid"}
    BY OauthAssumption DEF Body
  <2> QED BY <2>1 DEF Decide, ExchangeByOther, ClientGrant
<1>2. /\ c \in Requests \cup {NoCredential}
      /\ c \in Requests => GaveOut(c)
  BY OauthAssumption DEF HandedOut, GaveOut
<1>3. /\ pc[r] = "idle" /\ answer[r] = "none" /\ turn[r] = 0
      /\ codes[r] = NoEntry /\ refreshTokens[r] = NoEntry
      /\ req'[r] = b /\ shown'[r] = c
      /\ r \in late' => (IF c = NoCredential THEN b.user ELSE AccountOf(c)) \in deactivated
      /\ UNCHANGED <<deactivated, active, origin, born>>
  BY <1>1, <1>2, ReceivedFacts
<1>4. /\ codes'[r] = NoEntry /\ refreshTokens'[r] = NoEntry /\ turn'[r] = 0
      /\ answer'[r] \in {"none", "badRequest", "denied", "unauthorized", "accessToken"}
      /\ pc'[r] \in {"findUser", "done"}
      /\ pc'[r] = "findUser" => /\ b.op = "consent" /\ c = NoCredential
                                /\ b.form \in {"allow", "wrongPassword"}
  BY <1>1, <1>3 DEF maps, Goto, Finish, IInv, Types
<1>5. c \in Requests => (GaveOut(c))'
  <2>1. Handle(r)
    BY DEF Handle
  <2> QED BY <1>2, <2>1, CredentialsStay
<1> QED
  BY <1>3, <1>4, <1>5 DEF Earned, RootIsAllowed, EntryIsTrue, HandIsTrue, TurnIsTaken,
     LateFindsOut, AgeIsTrue, InHand, GaveOut

\* The first to present a credential is the only one who finds it.
LEMMA FirstTurn ==
    ASSUME NEW b, NEW c, NEW r \in Requests, TurnOf(r, b, c), DOMAIN turn = Requests,
           \A s \in Requests : shown[s] = c /\ req[s].op = b.op => ~(turn[s] > 0)
    PROVE  turn'[r] = 1
<1>1. {s \in Requests : shown[s] = c /\ req[s].op = b.op /\ turn[s] > 0} = {}
  OBVIOUS
<1>2. turn'[r] = 1 + Cardinality({})
  BY <1>1 DEF TurnOf
<1> QED BY <1>2, FS_EmptySet

LEMMA ExchangeEarned ==
    ASSUME IInv, EarnedInv, NEW r \in Requests, Exchange(r)
    PROVE  (Earned(r))'
<1>1. PICK b \in Bodies, c \in HandedOut \cup {NoCredential} :
         LET issued == Issued(codes, c)
             good == issued # NoEntry /\ ~Expired(issued) /\ Matches(b, issued)
         IN  /\ b.op = "exchange"
             /\ Receive(r, b, c)
             /\ codes' = CodesAfter(c, good)
             /\ Take(r, b, c, issued, good)
             /\ UNCHANGED refreshTokens
  BY DEF Exchange
<1>2. /\ c \in Requests \cup {NoCredential}
      /\ c \in Requests => GaveOut(c)
  BY OauthAssumption DEF HandedOut, GaveOut
<1>3. /\ pc[r] = "idle" /\ answer[r] = "none" /\ turn[r] = 0
      /\ codes[r] = NoEntry /\ refreshTokens[r] = NoEntry
      /\ req'[r] = b /\ shown'[r] = c
      /\ r \in late' => (IF c = NoCredential THEN b.user ELSE AccountOf(c)) \in deactivated
      /\ UNCHANGED <<deactivated, active, origin, born>>
  BY <1>1, <1>2, ReceivedFacts
<1>4. /\ codes'[r] = NoEntry /\ refreshTokens'[r] = NoEntry
      /\ c \in Requests => codes'[c] = NoEntry
      /\ answer'[r] \in {"none", "invalidGrant"} /\ pc'[r] \in {"loadUser", "done"}
      /\ pc'[r] = "loadUser" => /\ Issued(codes, c) # NoEntry
                                /\ Matches(b, Issued(codes, c))
                                /\ held'[r] = Issued(codes, c)
  BY <1>1, <1>3 DEF CodesAfter, Without, Take, Goto, Finish, IInv, Types
<1>5. Handle(r)
  BY DEF Handle
<1>6. c \in Requests => /\ c # r /\ (GaveOut(c))' /\ req'[origin[c]] = req[origin[c]]
  BY <1>2, <1>5, CredentialsStay
<1>7. ASSUME pc'[r] = "loadUser"
      PROVE  /\ c \in Requests /\ turn'[r] = 1 /\ origin[c] = c
             /\ held'[r].user = req[c].user
             /\ b.redirect = req[c].redirect /\ b.verifier = req[c].verifier
  <2>1. c \in Requests /\ held'[r] = codes[c] /\ codes[c] # NoEntry /\ Matches(b, codes[c])
    BY <1>2, <1>4, <1>7 DEF Issued
  <2>2. EntryIsTrue(c) /\ \A s \in Requests : TurnIsTaken(s)
    BY <2>1 DEF EarnedInv, Earned
  <2>3. turn'[r] = 1
    <3>1. TurnOf(r, b, c) /\ b.op = "exchange"
      BY <1>1 DEF Take
    <3> QED BY <2>1, <2>2, <3>1, FirstTurn DEF EarnedInv, Domains, TurnIsTaken
  <2> QED BY <2>1, <2>2, <2>3 DEF EntryIsTrue, Matches
<1>8. (RootIsAllowed(r))' /\ (EntryIsTrue(r))' /\ (AgeIsTrue(r))'
  BY <1>3, <1>4, <1>6 DEF RootIsAllowed, EntryIsTrue, AgeIsTrue, GaveOut
<1>9. (HandIsTrue(r))'
  BY <1>3, <1>4, <1>6, <1>7 DEF HandIsTrue, Proven, InHand
<1>10. (TurnIsTaken(r))'
  BY <1>1, <1>3, <1>4, <1>7 DEF TurnIsTaken, InHand
<1>11. (LateFindsOut(r))'
  BY <1>3, <1>4, <1>6, <1>7, OauthAssumption DEF LateFindsOut, InHand, GaveOut, AccountOf
<1> QED BY <1>8, <1>9, <1>10, <1>11 DEF Earned

LEMMA RefreshEarned ==
    ASSUME IInv, EarnedInv, NEW r \in Requests, Refresh(r)
    PROVE  (Earned(r))'
<1>1. PICK b \in Bodies, c \in HandedOut \cup {NoCredential} :
         LET issued == Issued(refreshTokens, c)
             good == issued # NoEntry /\ b.client = "public"
         IN  /\ b.op = "refresh"
             /\ Receive(r, b, c)
             /\ refreshTokens' = TokensAfter(c)
             /\ Take(r, b, c, issued, good)
             /\ UNCHANGED codes
  BY DEF Refresh
<1>2. /\ c \in Requests \cup {NoCredential}
      /\ c \in Requests => GaveOut(c)
  BY OauthAssumption DEF HandedOut, GaveOut
<1>3. /\ pc[r] = "idle" /\ answer[r] = "none" /\ turn[r] = 0
      /\ codes[r] = NoEntry /\ refreshTokens[r] = NoEntry
      /\ req'[r] = b /\ shown'[r] = c
      /\ r \in late' => (IF c = NoCredential THEN b.user ELSE AccountOf(c)) \in deactivated
      /\ UNCHANGED <<deactivated, active, origin, born>>
  BY <1>1, <1>2, ReceivedFacts
<1>4. /\ codes'[r] = NoEntry /\ refreshTokens'[r] = NoEntry
      /\ c \in Requests => refreshTokens'[c] = NoEntry
      /\ answer'[r] \in {"none", "invalidGrant"} /\ pc'[r] \in {"loadUser", "done"}
      /\ pc'[r] = "loadUser" => /\ Issued(refreshTokens, c) # NoEntry
                                /\ held'[r] = Issued(refreshTokens, c)
  BY <1>1, <1>3 DEF TokensAfter, Without, Take, Goto, Finish, IInv, Types
<1>5. Handle(r)
  BY DEF Handle
<1>6. c \in Requests => /\ c # r /\ (GaveOut(c))' /\ req'[origin[c]] = req[origin[c]]
  BY <1>2, <1>5, CredentialsStay
<1>7. ASSUME pc'[r] = "loadUser"
      PROVE  /\ c \in Requests /\ turn'[r] = 1
             /\ held'[r].user = req[origin[c]].user
  <2>1. c \in Requests /\ held'[r] = refreshTokens[c] /\ refreshTokens[c] # NoEntry
    BY <1>2, <1>4, <1>7 DEF Issued
  <2>2. EntryIsTrue(c) /\ \A s \in Requests : TurnIsTaken(s)
    BY <2>1 DEF EarnedInv, Earned
  <2>3. turn'[r] = 1
    <3>1. TurnOf(r, b, c) /\ b.op = "refresh"
      BY <1>1 DEF Take
    <3> QED BY <2>1, <2>2, <3>1, FirstTurn DEF EarnedInv, Domains, TurnIsTaken
  <2> QED BY <2>1, <2>2, <2>3 DEF EntryIsTrue
<1>8. (RootIsAllowed(r))' /\ (EntryIsTrue(r))' /\ (AgeIsTrue(r))'
  BY <1>3, <1>4, <1>6 DEF RootIsAllowed, EntryIsTrue, AgeIsTrue, GaveOut
<1>9. (HandIsTrue(r))'
  BY <1>1, <1>3, <1>4, <1>6, <1>7 DEF HandIsTrue, Proven, InHand
<1>10. (TurnIsTaken(r))'
  BY <1>1, <1>3, <1>4, <1>7 DEF TurnIsTaken, InHand
<1>11. (LateFindsOut(r))'
  BY <1>3, <1>4, <1>6, <1>7, OauthAssumption DEF LateFindsOut, InHand, GaveOut, AccountOf
<1> QED BY <1>8, <1>9, <1>10, <1>11 DEF Earned

\* The row that is read says what was known when the request came, or more.
LEMMA ReadUserEarned ==
    ASSUME IInv, EarnedInv, NEW r \in Requests, ReadUser(r)
    PROVE  (Earned(r))'
<1>1. /\ pc[r] \in {"findUser", "loadUser"} /\ answer[r] = "none"
      /\ codes[r] = NoEntry /\ refreshTokens[r] = NoEntry
  BY DEF ReadUser, IInv, NothingMintedYet
<1>2. Earned(r)
  BY DEF EarnedInv
<1>3. /\ UNCHANGED <<codes, refreshTokens, deactivated, crashes, req, shown, held, origin,
                     born, turn, late>>
      /\ answer'[r] = "none"
      /\ pc'[r] = IF pc[r] = "findUser" THEN "compare" ELSE "issue"
      /\ active'[r] = ((IF pc[r] = "findUser" THEN req[r].user ELSE held[r].user)
                          \notin deactivated)
  BY <1>1 DEF ReadUser, Goto, maps, history, EarnedInv, Domains, IInv, Types
<1>4. shown[r] \in Requests => answer'[shown[r]] \in {"code", "token"}
  <2>1. Handle(r)
    BY DEF Handle
  <2> QED BY <1>2, <2>1, CredentialsStay DEF Earned, RootIsAllowed, GaveOut
<1> QED
  BY <1>1, <1>2, <1>3, <1>4 DEF Earned, RootIsAllowed, EntryIsTrue, HandIsTrue, Proven,
     TurnIsTaken, LateFindsOut, AgeIsTrue, InHand, GaveOut

\* A code remembers the consent it answers: the form was allowed, the account is there.
LEMMA MintCodeEarned ==
    ASSUME IInv, EarnedInv, NEW r \in Requests, MintCode(r)
    PROVE  (Earned(r))'
<1>1. /\ pc[r] = "compare" /\ answer[r] = "none"
      /\ codes[r] = NoEntry /\ refreshTokens[r] = NoEntry
      /\ UNCHANGED <<refreshTokens, deactivated, now, crashes, req, shown, held, active,
                     turn, late>>
  BY DEF MintCode, AfterUser, IInv, NothingMintedYet
<1>2. Earned(r)
  BY DEF EarnedInv
<1>3. shown[r] \in Requests => answer'[shown[r]] \in {"code", "token"}
  <2>1. Handle(r)
    BY DEF Handle
  <2> QED BY <1>2, <2>1, CredentialsStay DEF Earned, RootIsAllowed, GaveOut
<1>4. CASE req[r].form = "wrongPassword" \/ ~Welcome(r)
  <2>1. /\ codes' = codes /\ origin' = origin /\ born' = born
        /\ answer'[r] = "signIn" /\ pc'[r] = "done"
    BY <1>4 DEF MintCode, Finish, IInv, Types
  <2> QED
    BY <1>1, <1>2, <1>3, <2>1 DEF Earned, RootIsAllowed, EntryIsTrue, HandIsTrue,
       TurnIsTaken, LateFindsOut, AgeIsTrue, InHand, GaveOut
<1>5. CASE ~(req[r].form = "wrongPassword" \/ ~Welcome(r))
  <2> DEFINE entry == [user |-> req[r].user, redirect |-> req[r].redirect,
                       challenge |-> req[r].verifier, expiresAt |-> now + TTL]
  <2>1. /\ codes' = [codes EXCEPT ![r] = entry]
        /\ origin'[r] = r /\ born'[r] = [time |-> now, crashes |-> crashes]
        /\ answer'[r] = "code" /\ pc'[r] = "done"
    BY <1>5 DEF MintCode, Born, Finish, IInv, Types, EarnedInv, Domains
  <2>2. codes'[r] = entry
    BY <2>1 DEF IInv, Types
  <2>3. req[r].op = "consent" /\ req[r].form = "allow" /\ r \notin late
    BY <1>1, <1>2, <1>5 DEF Earned, RootIsAllowed, LateFindsOut, Welcome
  <2>4. shown[r] \in Requests => shown[r] # r
    BY <1>1, <1>2 DEF Earned, RootIsAllowed, GaveOut
  <2>5. (RootIsAllowed(r))' /\ (EntryIsTrue(r))' /\ (AgeIsTrue(r))' /\ (LateFindsOut(r))'
    BY <1>1, <1>3, <2>1, <2>2, <2>3
       DEF RootIsAllowed, EntryIsTrue, AgeIsTrue, LateFindsOut, GaveOut, Allowed
  <2>6. (HandIsTrue(r))'
    BY <1>1, <2>1 DEF HandIsTrue, InHand
  <2>7. (TurnIsTaken(r))'
    BY <1>1, <1>2, <2>1, <2>4 DEF Earned, TurnIsTaken, InHand, IInv, Types
  <2> QED BY <2>5, <2>6, <2>7 DEF Earned
<1> QED BY <1>4, <1>5

\* A token takes what its request holds, and the consent of what was presented.
LEMMA IssueEarned ==
    ASSUME IInv, EarnedInv, NEW r \in Requests, Issue(r)
    PROVE  (Earned(r))'
<1>1. /\ pc[r] = "issue" /\ answer[r] = "none"
      /\ codes[r] = NoEntry /\ refreshTokens[r] = NoEntry
      /\ shown[r] \in Requests /\ held[r] \in Entry
      /\ UNCHANGED <<codes, deactivated, now, crashes, req, shown, held, active, turn, late>>
  BY DEF Issue, AfterUser, IInv, NothingMintedYet, TakenIsGone, InHand
<1>2. Earned(r)
  BY DEF EarnedInv
<1>3. /\ shown[r] # r /\ answer'[shown[r]] \in {"code", "token"}
      /\ Allowed(origin[shown[r]]) /\ (Allowed(origin[shown[r]]))'
      /\ origin'[shown[r]] = origin[shown[r]]
      /\ req'[origin[shown[r]]] = req[origin[shown[r]]]
  <2> DEFINE c == shown[r]
             o == origin[c]
  <2>1. Handle(r) /\ GaveOut(c)
    BY <1>1, <1>2 DEF Handle, Earned, RootIsAllowed
  <2>2. c # r /\ answer'[c] \in {"code", "token"} /\ origin'[c] = o /\ Allowed(o)
    BY <1>1, <2>1, CredentialsStay DEF GaveOut
  <2>3. pc'[o] = "done"
    BY <2>1, <2>2, CredentialsStay DEF Allowed
  <2> QED BY <1>1, <2>2, <2>3 DEF Allowed
<1>4. CASE ~Welcome(r)
  <2>1. /\ refreshTokens' = refreshTokens /\ origin' = origin /\ born' = born
        /\ answer'[r] = "unauthorized" /\ pc'[r] = "done"
    BY <1>4 DEF Issue, Finish, IInv, Types
  <2> QED
    BY <1>1, <1>2, <1>3, <2>1 DEF Earned, RootIsAllowed, EntryIsTrue, HandIsTrue,
       TurnIsTaken, LateFindsOut, AgeIsTrue, InHand, GaveOut
<1>5. CASE Welcome(r)
  <2>1. /\ refreshTokens' = [refreshTokens EXCEPT ![r] = held[r]]
        /\ origin'[r] = origin[shown[r]]
        /\ born'[r] = [time |-> now, crashes |-> crashes]
        /\ answer'[r] = "token" /\ pc'[r] = "done"
    BY <1>5 DEF Issue, Born, Finish, IInv, Types, EarnedInv, Domains
  <2>2. refreshTokens'[r] = held[r] /\ refreshTokens'[shown[r]] = refreshTokens[shown[r]]
    BY <1>1, <1>3, <2>1 DEF IInv, Types
  <2>3. /\ r \notin late /\ InHand(r) /\ turn[r] = 1
        /\ held[r].user = req[origin[shown[r]]].user /\ Proven(r, origin[shown[r]])
    BY <1>1, <1>2, <1>5 DEF Earned, LateFindsOut, HandIsTrue, TurnIsTaken, Welcome, InHand
  <2>4. (RootIsAllowed(r))' /\ (EntryIsTrue(r))' /\ (AgeIsTrue(r))' /\ (LateFindsOut(r))'
    BY <1>1, <1>3, <2>1, <2>2, <2>3
       DEF RootIsAllowed, EntryIsTrue, AgeIsTrue, LateFindsOut, GaveOut, Allowed
  <2>5. (HandIsTrue(r))'
    BY <1>1, <1>3, <2>1, <2>3 DEF HandIsTrue, InHand, Proven
  <2>6. (TurnIsTaken(r))'
    BY <1>1, <1>2, <2>1, <2>2, <2>3 DEF Earned, TurnIsTaken, InHand
  <2> QED BY <2>4, <2>5, <2>6 DEF Earned
<1> QED BY <1>4, <1>5

\* The environment: what it adds to deactivated only strengthens LateFindsOut, and a
\* restart leaves nothing to be accepted.
LEMMA EnvironmentEarned ==
    ASSUME IInv, EarnedInv,
           Tick \/ (\E u \in Users : Deactivate(u)) \/ Crash \/ UNCHANGED vars
    PROVE  EarnedInv'
<1>1. /\ UNCHANGED <<req, shown, answer, active, origin, born, turn, late>>
      /\ deactivated \subseteq deactivated'
  BY DEF Tick, Deactivate, Crash, vars, maps, handler, history
<1>2. Domains'
  <2>1. now \in Nat /\ Cardinality(deactivated) \in Nat /\ MaxEvents \in Nat
    BY FS_CardinalityType, OauthAssumption DEF IInv, Types, EarnedInv, Domains
  <2>2. CASE Tick \/ Crash \/ UNCHANGED vars
    BY <1>1, <2>1, <2>2 DEF Tick, Crash, vars, EventLeft, EarnedInv, Domains
  <2>3. ASSUME NEW u \in Users, Deactivate(u) PROVE Domains'
    <3>1. /\ u \notin deactivated /\ deactivated' = deactivated \cup {u}
          /\ now + crashes + Cardinality(deactivated) < MaxEvents
          /\ UNCHANGED <<now, crashes>>
      BY <2>3 DEF Deactivate, EventLeft
    <3>2. /\ IsFiniteSet(deactivated')
          /\ Cardinality(deactivated') = Cardinality(deactivated) + 1
      BY <3>1, FS_AddElement DEF EarnedInv, Domains
    <3>3. now' + crashes' + Cardinality(deactivated') <= MaxEvents
      BY <2>1, <3>1, <3>2 DEF EarnedInv, Domains
    <3> QED BY <1>1, <3>1, <3>2, <3>3 DEF EarnedInv, Domains
  <2> QED BY <2>2, <2>3
<1>3. ASSUME NEW s \in Requests PROVE (Earned(s))'
  <2>1. Earned(s)
    BY DEF EarnedInv
  <2>2. CASE Tick \/ (\E u \in Users : Deactivate(u)) \/ UNCHANGED vars
    <3>1. UNCHANGED <<codes, refreshTokens, pc, held, crashes>>
      BY <2>2 DEF Tick, Deactivate, vars, maps, handler
    <3> QED
      BY <1>1, <2>1, <3>1 DEF Earned, RootIsAllowed, EntryIsTrue, HandIsTrue, Proven,
         TurnIsTaken, LateFindsOut, AgeIsTrue, InHand, GaveOut, Allowed
  <2>3. CASE Crash
    <3>1. /\ codes'[s] = NoEntry /\ refreshTokens'[s] = NoEntry
          /\ pc'[s] = IF pc[s] = "idle" THEN "idle" ELSE "done"
          /\ \A o \in Requests : pc[o] = "done" => pc'[o] = "done"
      BY <2>3 DEF Crash
    <3>2. \A c \in Requests : codes'[c] = NoEntry /\ refreshTokens'[c] = NoEntry
      BY <2>3 DEF Crash
    <3>3. (RootIsAllowed(s))' /\ (EntryIsTrue(s))' /\ (AgeIsTrue(s))'
      BY <1>1, <2>1, <3>1 DEF Earned, RootIsAllowed, EntryIsTrue, AgeIsTrue, GaveOut, Allowed
    <3>4. (HandIsTrue(s))' /\ (TurnIsTaken(s))' /\ (LateFindsOut(s))'
      BY <1>1, <2>1, <3>1, <3>2 DEF Earned, HandIsTrue, Proven, TurnIsTaken, LateFindsOut,
         InHand, GaveOut
    <3> QED BY <3>3, <3>4 DEF Earned
  <2> QED BY <2>2, <2>3
<1> QED BY <1>2, <1>3 DEF EarnedInv

LEMMA EarnedStep ==
    ASSUME IInv, EarnedInv, [Next]_vars
    PROVE  EarnedInv'
<1>1. ASSUME NEW r \in Requests, Handle(r) PROVE EarnedInv'
  <2>1. (Earned(r))'
    BY <1>1, AsideEarned, ExchangeEarned, RefreshEarned, ReadUserEarned, MintCodeEarned,
       IssueEarned DEF Handle
  <2>2. \A s \in Requests \ {r} : (Earned(s))'
    BY <1>1, OthersEarned
  <2>3. Domains'
    BY <1>1, OthersStay DEF EarnedInv
  <2> QED BY <2>1, <2>2, <2>3 DEF EarnedInv
<1> QED BY <1>1, EnvironmentEarned DEF Next

THEOREM EarnedAlways == Spec => [](IInv /\ EarnedInv)
<1>1. Init => IInv /\ EarnedInv
  BY InitInv, EarnedInit
<1>2. IInv /\ EarnedInv /\ [Next]_vars => (IInv /\ EarnedInv)'
  BY NextStep, EarnedStep
<1> QED BY <1>1, <1>2, PTL DEF Spec

\* Every variable has its type, and the events that are bounded keep within the bound.
THEOREM TypeCorrect == Spec => []TypeOK
<1>1. IInv /\ EarnedInv => TypeOK
  <2> SUFFICES ASSUME IInv, EarnedInv PROVE TypeOK
    OBVIOUS
  <2>1. now \in Nat /\ Cardinality(deactivated) \in Nat /\ crashes \in Nat
    BY FS_CardinalityType DEF IInv, Types, EarnedInv, Domains
  <2>2. now + crashes + Cardinality(deactivated) \in 0..MaxEvents
    BY <2>1, OauthAssumption DEF EarnedInv, Domains
  <2>3. \A r \in Requests : pc[r] \in {"loadUser", "issue"} => held[r] # NoEntry
    BY OauthAssumption DEF IInv, TakenIsGone, InHand
  <2> QED BY <2>2, <2>3 DEF TypeOK, IInv, Types, EarnedInv, Domains
<1> QED BY <1>1, EarnedAlways, PTL

\* "Single use", "bound to the challenge, the client and the redirect" and the checks of
\* the user row: a token goes to the first request that presents what an allowed consent
\* gave out, for that consent's account, and never for an account deactivated before.
THEOREM TokensAreAlwaysEarned == Spec => []TokensAreEarned
<1>1. IInv /\ EarnedInv => TokensAreEarned
  <2> SUFFICES ASSUME IInv, EarnedInv PROVE TokensAreEarned
    OBVIOUS
  <2>1. \A r \in Requests : Earned(r)
    BY DEF EarnedInv
  <2>2. FirstPresentationOnly
    BY <2>1 DEF Earned, TurnIsTaken, FirstPresentationOnly
  <2>3. BoundToConsent
    BY <2>1 DEF Earned, RootIsAllowed, EntryIsTrue, HandIsTrue, Proven, GaveOut, Allowed,
       BoundToConsent
  <2>4. DeactivatedGetsNothing
    BY <2>1 DEF EarnedInv, Domains, Earned, LateFindsOut, GaveOut, DeactivatedGetsNothing
  <2> QED BY <2>2, <2>3, <2>4 DEF TokensAreEarned
<1> QED BY <1>1, EarnedAlways, PTL

\* A request takes a credential in hand only if this process minted it and, when it is a
\* code, no later than its TTL after that.
LEMMA AcceptedIsFresh ==
    ASSUME IInv, EarnedInv, [Next]_vars, NEW r \in Requests,
           pc[r] # "loadUser", pc'[r] = "loadUser"
    PROVE  /\ born[shown'[r]].crashes = crashes
           /\ req'[r].op = "exchange" => now <= born[shown'[r]].time + TTL
<1>1. Exchange(r) \/ Refresh(r)
  <2>1. PICK s \in Requests : Handle(s)
    BY DEF Next, Deactivate, Tick, Crash, handler, vars
  <2>2. s = r
    BY <2>1, OthersStay DEF EarnedInv
  <2>3. ~(Decide(r) \/ ExchangeByOther(r) \/ ClientGrant(r) \/ ReadUser(r))
    BY AsideActions DEF Aside, IInv, Types
  <2>4. ~(MintCode(r) \/ Issue(r))
    BY DEF MintCode, Issue, Finish, IInv, Types
  <2> QED BY <2>1, <2>2, <2>3, <2>4 DEF Handle
<1>2. CASE Exchange(r)
  <2>1. PICK b \in Bodies, c \in HandedOut \cup {NoCredential} :
           LET issued == Issued(codes, c)
               good == issued # NoEntry /\ ~Expired(issued) /\ Matches(b, issued)
           IN  Receive(r, b, c) /\ Take(r, b, c, issued, good)
    BY <1>2 DEF Exchange
  <2>2. /\ Issued(codes, c) # NoEntry /\ ~Expired(Issued(codes, c)) /\ shown'[r] = c
    BY <2>1 DEF Take, Finish, Receive, IInv, Types
  <2>3. c \in Requests /\ codes[c] \in Entry /\ ~(codes[c].expiresAt < now)
    BY <2>2 DEF HandedOut, Issued, Expired, IInv, Types
  <2>4. codes[c].expiresAt \in Nat /\ now \in Nat
    BY <2>3 DEF Entry, IInv, Types
  <2>5. born[c].crashes = crashes /\ codes[c].expiresAt = born[c].time + TTL
    BY <2>2, <2>3 DEF EarnedInv, Earned, AgeIsTrue, Issued
  <2> QED BY <2>2, <2>3, <2>4, <2>5
<1>3. CASE Refresh(r)
  <2>1. PICK b \in Bodies, c \in HandedOut \cup {NoCredential} :
           LET issued == Issued(refreshTokens, c)
               good == issued # NoEntry /\ b.client = "public"
           IN  b.op = "refresh" /\ Receive(r, b, c) /\ Take(r, b, c, issued, good)
    BY <1>3 DEF Refresh
  <2>2. /\ Issued(refreshTokens, c) # NoEntry /\ shown'[r] = c /\ req'[r].op = "refresh"
    BY <2>1 DEF Take, Finish, Receive, IInv, Types
  <2>3. c \in Requests /\ refreshTokens[c] # NoEntry
    BY <2>2 DEF HandedOut, Issued
  <2> QED BY <2>2, <2>3 DEF EarnedInv, Earned, AgeIsTrue
<1> QED BY <1>1, <1>2, <1>3

\* "State that is meant to die with the process", and a code "lives a minute".
THEOREM NothingOutlivesHolds == Spec => NothingOutlives
<1>1. IInv /\ EarnedInv /\ [Next]_vars =>
        [ \A r \in Requests :
            pc[r] # "loadUser" /\ pc'[r] = "loadUser" =>
                /\ born[shown'[r]].crashes = crashes
                /\ req'[r].op = "exchange" => now <= born[shown'[r]].time + TTL ]_vars
  BY AcceptedIsFresh
<1> QED BY <1>1, EarnedAlways, PTL DEF Spec, NothingOutlives
=============================================================================
