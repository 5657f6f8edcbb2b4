--------------------------- MODULE AccountProofs ---------------------------
(***************************************************************************)
(* Proofs about Account for every value of its constants: any number of    *)
(* requests, any bodies, any number of crashes.                            *)
(*                                                                         *)
(* Base says what is true wherever a handler waits; on top of it one       *)
(* invariant per property says what a handler that was interrupted still   *)
(* has in hand: the claimed token, the row it read and the version of it.  *)
(***************************************************************************)
EXTENDS Account, FiniteSetTheorems, TLAPS

Jobs == {"none", "processing", "completed"}
Continuations == {"none", "wipe", "sweep", "complete"}

Stages == {"idle", "done", "findEmail", "insertUser", "issue", "credentials", "issueSecond",
           "claim", "readUser", "assertLive", "revoke", "guard", "findProfile", "saveSelect",
           "saveUpdate", "deactivate", "revokeAll", "startJob"}

Types ==
    /\ TypeOK
    /\ registered \subseteq Requests
    /\ jobs \in [Requests -> Jobs]
    /\ stage \in [Requests -> Continuations]
    /\ pc \in [Requests -> Stages]
    /\ token \in [Requests -> issued \cup {NoToken}]
    /\ answeredBefore \in [Requests -> SUBSET Requests]
    /\ late \subseteq Requests /\ overlap \subseteq Requests /\ unswept \subseteq Requests

\* A handler is at a stage of its operation, and has not answered yet.
StageOfOp(r) ==
    /\ pc[r] \in {"findEmail", "insertUser"} => req[r].op = "register"
    /\ pc[r] = "credentials" => req[r].op \in {"login", "sessionLogin"}
    /\ pc[r] = "issueSecond" => req[r].op = "sessionLogin"
    /\ pc[r] = "claim" => req[r].op = "refresh"
    /\ pc[r] = "assertLive" => req[r].op \in {"sessionRefresh", "use"}
    /\ pc[r] = "readUser" => req[r].op \in {"refresh", "sessionRefresh", "use"}
    /\ pc[r] = "issue" => req[r].op \in {"register", "login", "sessionLogin", "refresh",
                                        "sessionRefresh"}
    /\ pc[r] = "revoke" => req[r].op = "logout"
    /\ pc[r] = "guard" => req[r].op \in {"patch", "delete"}
    /\ pc[r] = "findProfile" => req[r].op \in {"patch", "setRole", "delete"}
    /\ pc[r] \in {"saveSelect", "saveUpdate"} => Saves(r)
    /\ pc[r] \in {"deactivate", "revokeAll", "startJob"} => req[r].op = "delete"
    /\ pc[r] # "done" => answer[r] = "none"
    /\ stage[r] # "none" => pc[r] = "done" /\ req[r].op = "delete"

StagesOfOps == \A r \in Requests : StageOfOp(r)

\* Whoever is past its registration works on an account that exists.
HasUser ==
    /\ \A r \in Requests :
          pc[r] \notin {"idle", "done", "findEmail", "insertUser"} => user # NoUser
    /\ \A r \in Requests : stage[r] # "none" => user # NoUser

Base == Types /\ StagesOfOps /\ HasUser

------------------------------------------------------------------------------
LEMMA Ops ==
    ASSUME Types, NEW r \in Requests
    PROVE  /\ req[r] \in Body /\ req[r].op \in Operations
           /\ req[r].ifMatch \in Nat \cup {NoTag}
BY AccountAssumption DEF Types, TypeOK, Body

\* A row that save or an UPDATE writes is a row.
LEMMA SavedProfile ==
    ASSUME NEW row \in Profile, NEW was \in Profile, NEW own \in Profile
    PROVE  LET saved == Saved(row, was, own)
           IN  /\ saved \in Profile
               /\ saved.deactivated = IF own.deactivated # was.deactivated
                                      THEN own.deactivated ELSE row.deactivated
               /\ saved.attributes = IF own.attributes # was.attributes
                                     THEN own.attributes ELSE row.attributes
<1> DEFINE saved == Saved(row, was, own)
<1>1. DOMAIN row = {"deactivated", "attributes", "role"}
  BY DEF Profile
<1>2. saved = [deactivated |-> IF own.deactivated # was.deactivated
                               THEN own.deactivated ELSE row.deactivated,
               attributes |-> IF own.attributes # was.attributes
                              THEN own.attributes ELSE row.attributes,
               role |-> IF own.role # was.role THEN own.role ELSE row.role]
  BY <1>1 DEF Saved
<1>3. saved \in Profile
  BY <1>2 DEF Profile
<1> QED BY <1>2, <1>3

LEMMA RowIsThere ==
    ASSUME NEW profile \in Profile, NEW version \in Nat \ {0}
    PROVE  /\ Row(profile, version) \in UserRow
           /\ Row(profile, version) # NoUser
           /\ Row(profile, version).profile = profile
           /\ Row(profile, version).version = version
BY AccountAssumption DEF Row, UserRow

LEMMA InitBase == Init => Base
<1> SUFFICES ASSUME Init PROVE Base
  OBVIOUS
<1>1. NewProfile \in Profile
  BY DEF NewProfile, Profile
<1>2. user \in UserRow \cup {NoUser} /\ issued \subseteq Tokens
  BY <1>1, RowIsThere DEF Init, Tokens
<1>3. Types
  <2>1. user = NoUser => issued = {} /\ registered = {}
    BY <1>1, RowIsThere DEF Init
  <2>2. Row(NewProfile, 1) \in UserRow
    BY <1>1, RowIsThere
  <2> QED BY <1>2, <2>1, <2>2 DEF Init, Types, TypeOK, Jobs, Continuations, Stages
<1> QED BY <1>3 DEF Init, Base, StagesOfOps, StageOfOp, HasUser

------------------------------------------------------------------------------
(***************************************************************************)
(* The inductive invariants.                                               *)
(***************************************************************************)
\* Whoever was over before a request came is over, and the request came.
Answers ==
    \A r \in Requests : \A s \in answeredBefore[r] :
        pc[s] = "done" /\ stage[s] # "wipe" /\ pc[r] # "idle"

\* A request that presents a token has one; a token is issued by its request, once.
TokensInHand ==
    /\ \A r \in Requests :
          token[r] \in issued <=> pc[r] # "idle" /\ req[r].op \in DOMAIN Presents
    /\ \A t \in issued : t[1] # Seed => pc[t[1]] \in {"issueSecond", "done"}
    /\ \A r \in Requests : pc[r] = "issueSecond" => <<r, "session_refresh">> \notin issued

\* The row is inserted once, and whoever issues tokens for it inserted it.
RegisteredHold ==
    /\ \A r, s \in registered : r = s
    /\ \A r \in Requests :
          req[r].op = "register" /\ (pc[r] = "issue" \/ Granted(r)) => r \in registered

\* From its claim on, a rotation holds a token that is dead to everybody else.
Claimed(r) == req[r].op = "refresh" /\ (pc[r] \in {"readUser", "issue"} \/ Granted(r))

ClaimedIsDead ==
    /\ \A r \in Requests : Claimed(r) => token[r] \in issued \ live
    /\ \A r, s \in Requests : Claimed(r) /\ Claimed(s) /\ token[r] = token[s] => r = s

\* A spent token is dead, and whoever presents it later is not past the check.
Spent(s) == \/ req[s].op = "logout" /\ answer[s] = "ok"
            \/ req[s].op = "refresh" /\ Granted(s)

SpentIsDead ==
    /\ \A s \in Requests : Spent(s) => token[s] \in issued \ live
    /\ \A r \in Requests : \A s \in answeredBefore[r] :
          Spent(s) /\ token[s] = token[r] =>
              pc[r] \notin {"readUser", "issue", "issueSecond"} /\ ~Granted(r)

OnceInv == Answers /\ TokensInHand /\ RegisteredHold /\ ClaimedIsDead /\ SpentIsDead

\* An attribute is in nobody else's hands before its request is done: no save of a PATCH
\* finds nothing to write.
Saving == {"saveSelect", "saveUpdate"}

AttributesAreSaved ==
    /\ user # NoUser => \A s \in user.profile.attributes : pc[s] = "done"
    /\ \A r \in Requests : \A s \in mine[r].profile.attributes : s = r \/ pc[s] = "done"
    /\ \A r \in Requests :
          req[r].op = "patch" /\ pc[r] \in Saving => r \in mine[r].profile.attributes

\* No other change of the row was under way together with s.
Alone(s) == \A x \in Requests \ {s} : Changes(x) => ~Together(x, s)

\* A conditional PATCH that is alone has the row in hand until it saves; then the row,
\* and every row in hand, is past the version it asked for.
VersionInHand ==
    \A s \in Requests : Conditional(s) /\ Alone(s) =>
        /\ pc[s] \in Saving =>
              mine[s].version = req[s].ifMatch /\ user.version = req[s].ifMatch
        /\ pc[s] = "saveUpdate" => found[s].version = user.version

VersionIsPassed ==
    \A s \in Requests : Conditional(s) /\ Alone(s) /\ answer[s] = "ok" =>
        /\ user # NoUser /\ req[s].ifMatch < user.version
        /\ \A x \in Requests : pc[x] \in Saving => req[s].ifMatch < mine[x].version

LaterIsRefused ==
    \A r \in Requests : \A s \in answeredBefore[r] :
        /\ Conditional(r) /\ Conditional(s) /\ req[r].ifMatch = req[s].ifMatch
        /\ Alone(s) /\ answer[s] = "ok"
        => pc[r] \notin Saving /\ answer[r] # "ok"

PatchInv ==
    /\ Answers /\ AttributesAreSaved
    /\ VersionInHand /\ VersionIsPassed /\ LaterIsRefused

\* Unless a save was under way at a deactivation, every profile in memory agrees with
\* the row, and the row stays deactivated.
Overlapped == \E s \in overlap : Saves(s)
Deactivated == user # NoUser /\ user.profile.deactivated

InMemoryAgrees ==
    \A r \in Requests :
        pc[r] \in Saving => mine[r].profile.deactivated = user.profile.deactivated

DeletedIsDeactivated ==
    \A r \in Requests :
        pc[r] \in {"revokeAll", "startJob"} \/ stage[r] # "none" \/ jobs[r] # "none"
        => Deactivated

LateIsRefused ==
    \A r \in late :
        /\ Deactivated
        /\ pc[r] \notin {"idle", "insertUser", "issue", "issueSecond",
                         "deactivate", "revokeAll", "startJob"}
        /\ answer[r] \notin {"granted", "accepted"}

\* After a second sweep, only who was under way at it can mint.
Swept == \E r \in Requests : stage[r] = "complete" \/ jobs[r] = "completed"

SweptIsSwept ==
    Swept => /\ InFlight \subseteq unswept \cup late
             /\ \A t \in live : t[1] \in unswept

DeletionInv ==
    ~Overlapped => InMemoryAgrees /\ DeletedIsDeactivated /\ LateIsRefused /\ SweptIsSwept

------------------------------------------------------------------------------
(***************************************************************************)
(* Base.                                                                   *)
(***************************************************************************)
\* Continuations and expiries move no handler.
Continue(r) == Wipe(r) \/ SecondSweep(r) \/ Complete(r)

LEMMA Steps ==
    ASSUME [Next]_vars
    PROVE  \/ \E r \in Requests : Arrive(r) \/ Handle(r) \/ Continue(r)
           \/ \E t \in Tokens : Expire(t)
           \/ Crash
           \/ UNCHANGED vars
BY DEF Next, Continue

\* A handler's step is its own: no other handler moves, and none moves after its answer.
LEMMA HandleIsLocal ==
    ASSUME Types, NEW r \in Requests, Arrive(r) \/ Handle(r)
    PROVE  /\ req' = req
           /\ pc[r] # "done"
           /\ pc'[r] # "idle"
           /\ \A x \in Requests \ {r} :
                 /\ pc'[x] = pc[x] /\ answer'[x] = answer[x] /\ token'[x] = token[x]
                 /\ mine'[x] = mine[x] /\ found'[x] = found[x]
                 /\ answeredBefore'[x] = answeredBefore[x]
                 /\ stage'[x] = stage[x] /\ jobs'[x] = jobs[x]
<1> USE DEF Types, TypeOK, Goto, Finish, OnlyIf, handlers, history
<1>1. CASE Arrive(r)
  BY <1>1, Ops DEF Arrive, Start, Operations
<1>2. CASE FindEmail(r) \/ InsertUser(r) \/ Credentials(r) \/ Issue(r) \/ IssueSecond(r)
  BY <1>2 DEF FindEmail, InsertUser, Credentials, Issue, IssueSecond
<1>3. CASE Claim(r) \/ AssertLive(r) \/ ReadUser(r) \/ Revoke(r)
  BY <1>3 DEF Claim, AssertLive, ReadUser, Revoke
<1>4. CASE Guard(r) \/ FindProfile(r) \/ SaveSelect(r) \/ SaveUpdate(r)
  BY <1>4 DEF Guard, FindProfile, SaveSelect, SaveUpdate
<1>5. CASE FindToDelete(r) \/ Deactivate(r) \/ RevokeAll(r) \/ StartJob(r)
  BY <1>5 DEF FindToDelete, Deactivate, RevokeAll, StartJob
<1> QED BY <1>1, <1>2, <1>3, <1>4, <1>5 DEF Handle

\* Every row written is a row.
LEMMA RowType ==
    ASSUME Types, user # NoUser
    PROVE  user.profile \in Profile /\ user.version \in Nat \ {0}
BY DEF Types, TypeOK, UserRow

LEMMA PatchedRow ==
    ASSUME Types, NEW r \in Requests, user # NoUser
    PROVE  /\ Patched(r) \in UserRow
           /\ Patched(r).version = user.version
           /\ Patched(r).profile.deactivated = user.profile.deactivated
           /\ Patched(r).profile.attributes \subseteq user.profile.attributes \cup {r}
           /\ req[r].op = "patch" => r \in Patched(r).profile.attributes
<1>1. user \in UserRow /\ user.profile \in Profile
  BY RowType DEF Types, TypeOK
<1>2. CASE req[r].op = "patch"
  <2>1. Patched(r) = [user EXCEPT !.profile =
                         [user.profile EXCEPT !.attributes = user.profile.attributes \cup {r}]]
    BY <1>1, <1>2 DEF Patched, UserRow
  <2>2. [user.profile EXCEPT !.attributes = user.profile.attributes \cup {r}] \in Profile
    BY <1>1 DEF Profile
  <2> QED BY <1>1, <2>1, <2>2 DEF UserRow, Profile
<1>3. CASE req[r].op # "patch"
  <2>1. Patched(r) = [user EXCEPT !.profile = [user.profile EXCEPT !.role = "agent"]]
    BY <1>1, <1>3 DEF Patched, UserRow
  <2>2. [user.profile EXCEPT !.role = "agent"] \in Profile
    BY <1>1 DEF Profile
  <2> QED BY <1>1, <1>3, <2>1, <2>2 DEF UserRow, Profile
<1> QED BY <1>2, <1>3

LEMMA UpdateType ==
    ASSUME Types, user # NoUser, NEW profile \in Profile, Update(profile)
    PROVE  /\ user' \in UserRow /\ user' # NoUser
           /\ user'.profile = profile /\ user'.version = user.version + 1
<1>1. user.version + 1 \in Nat \ {0}
  BY RowType
<1> QED BY <1>1, RowIsThere DEF Update

\* What save writes: the version in memory when it found another, else the next one.
LEMMA SaveType ==
    ASSUME Types, user # NoUser, NEW r \in Requests, SaveUpdate(r)
    PROVE  /\ user' \in UserRow /\ user' # NoUser
           /\ user'.profile = Saved(user.profile, found[r].profile, mine[r].profile)
           /\ user'.version = NextVersion(r)
<1>1. /\ mine[r].profile \in Profile /\ mine[r].version \in Nat \ {0}
      /\ found[r].profile \in Profile
  BY DEF Types, TypeOK, UserRow
<1>2. Saved(user.profile, found[r].profile, mine[r].profile) \in Profile
  BY <1>1, RowType, SavedProfile
<1>3. NextVersion(r) \in Nat \ {0}
  BY <1>1, RowType DEF NextVersion
<1> QED BY <1>2, <1>3, RowIsThere DEF SaveUpdate

LEMMA HandleTypes ==
    ASSUME Base, NEW r \in Requests, Arrive(r) \/ Handle(r)
    PROVE  Types'
<1> USE DEF Base, Types, TypeOK, Goto, Finish, OnlyIf, handlers, history
<1>1. CASE Arrive(r)
  <2>1. token' \in [Requests -> issued \cup {NoToken}]
    BY <1>1 DEF Arrive, Held
  <2>2. pc' \in [Requests -> Stages]
    BY <1>1, Ops DEF Arrive, Start, Stages, Operations
  <2>3. answeredBefore' \in [Requests -> SUBSET Requests] /\ late' \subseteq Requests
    BY <1>1 DEF Arrive
  <2> QED BY <1>1, <2>1, <2>2, <2>3 DEF Arrive
<1>2. CASE FindEmail(r) \/ Credentials(r) \/ Claim(r) \/ AssertLive(r) \/ ReadUser(r)
           \/ Revoke(r) \/ Guard(r) \/ FindToDelete(r) \/ RevokeAll(r)
  <2>1. /\ UNCHANGED <<user, registered, issued, jobs, req, token, mine, found, stage, history>>
        /\ live' \subseteq live
    BY <1>2 DEF FindEmail, Credentials, Claim, AssertLive, ReadUser, Revoke, Guard,
                FindToDelete, RevokeAll
  <2>2. pc' \in [Requests -> Stages]
    BY <1>2 DEF FindEmail, Credentials, Claim, AssertLive, ReadUser, Revoke, Guard,
                FindToDelete, RevokeAll, Stages
  <2>3. answer' \in [Requests -> {"none", "granted", "ok", "accepted", "conflict", "lost",
                                  "unauthorized", "preconditionFailed"}]
    BY <1>2 DEF FindEmail, Credentials, Claim, AssertLive, ReadUser, Revoke, Guard,
                FindToDelete, RevokeAll
  <2> QED BY <2>1, <2>2, <2>3
<1>3. CASE InsertUser(r)
  <2>1. NewProfile \in Profile
    BY DEF NewProfile, Profile
  <2>2. Row(NewProfile, 1) \in UserRow /\ Row(NewProfile, 1) # NoUser
    BY <2>1, RowIsThere
  <2> QED BY <1>3, <2>2 DEF InsertUser, Stages
<1>4. CASE Issue(r) \/ IssueSecond(r)
  <2>1. user # NoUser
    BY <1>4 DEF HasUser, Issue, IssueSecond
  <2>2. /\ UNCHANGED <<user, registered, jobs, req, token, mine, found, stage, history>>
        /\ \E f \in Families : IssueRecord(r, f)
    BY <1>4 DEF Issue, IssueSecond, Families
  <2>3. issued' \subseteq Tokens /\ live' \subseteq issued' /\ issued \subseteq issued'
    BY <2>2 DEF IssueRecord, Tokens
  <2>4. pc' \in [Requests -> Stages]
        /\ answer' \in [Requests -> {"none", "granted", "ok", "accepted", "conflict", "lost",
                                     "unauthorized", "preconditionFailed"}]
    BY <1>4 DEF Issue, IssueSecond, Stages
  <2> QED BY <2>1, <2>2, <2>3, <2>4
<1>5. CASE FindProfile(r)
  <2>1. Patched(r) \in UserRow
    BY <1>5, PatchedRow DEF HasUser, FindProfile
  <2> QED BY <1>5, <2>1 DEF FindProfile, Stages
<1>6. CASE SaveSelect(r)
  <2>1. user \in UserRow
    BY <1>6 DEF HasUser, SaveSelect
  <2> QED BY <1>6, <2>1 DEF SaveSelect, Stages
<1>7. CASE SaveUpdate(r)
  <2>1. user # NoUser
    BY <1>7 DEF HasUser, SaveUpdate
  <2>2. user' \in UserRow /\ user' # NoUser
    BY <1>7, <2>1, SaveType
  <2> QED BY <1>7, <2>2 DEF SaveUpdate, Stages
<1>8. CASE Deactivate(r)
  <2>1. user # NoUser
    BY <1>8 DEF HasUser, Deactivate
  <2>2. [user.profile EXCEPT !.deactivated = TRUE] \in Profile
    BY <2>1, RowType DEF Profile
  <2>3. user' \in UserRow /\ user' # NoUser
    BY <1>8, <2>1, <2>2, UpdateType DEF Deactivate
  <2> QED BY <1>8, <2>3 DEF Deactivate, Stages, InFlight
<1>9. CASE StartJob(r)
  BY <1>9 DEF StartJob, Stages, Jobs, Continuations
<1> QED BY <1>1, <1>2, <1>3, <1>4, <1>5, <1>6, <1>7, <1>8, <1>9 DEF Handle

LEMMA OthersTypes ==
    ASSUME Base, \/ \E r \in Requests : Continue(r)
                 \/ \E t \in Tokens : Expire(t)
                 \/ Crash
                 \/ UNCHANGED vars
    PROVE  Types'
<1> USE DEF Base, Types, TypeOK, handlers, history
<1>1. ASSUME NEW r \in Requests, Wipe(r)
      PROVE  Types'
  <2>1. user # NoUser
    BY <1>1 DEF HasUser, Wipe
  <2>2. [user.profile EXCEPT !.attributes = {}] \in Profile
    BY <2>1, RowType DEF Profile
  <2>3. user' \in UserRow /\ user' # NoUser
    BY <1>1, <2>1, <2>2, UpdateType DEF Wipe
  <2> QED BY <1>1, <2>3 DEF Wipe, Continuations
<1>2. ASSUME NEW r \in Requests, SecondSweep(r) \/ Complete(r)
      PROVE  Types'
  BY <1>2 DEF SecondSweep, Complete, Continuations, Jobs, InFlight
<1>3. CASE \E t \in Tokens : Expire(t)
  BY <1>3 DEF Expire
<1>4. CASE Crash
  BY <1>4 DEF Crash, Stages, Continuations
<1>5. CASE UNCHANGED vars
  BY <1>5 DEF vars
<1> QED BY <1>1, <1>2, <1>3, <1>4, <1>5 DEF Continue

LEMMA StagesStep ==
    ASSUME Base, [Next]_vars
    PROVE  StagesOfOps'
<1> USE DEF Base, StagesOfOps
<1>1. ASSUME NEW r \in Requests, Arrive(r) \/ Handle(r)
      PROVE  StagesOfOps'
  <2>1. /\ req' = req
        /\ \A x \in Requests \ {r} :
              pc'[x] = pc[x] /\ answer'[x] = answer[x] /\ stage'[x] = stage[x]
    BY <1>1, HandleIsLocal
  <2>2. StageOfOp(r)'
    <3>0. stage[r] = "none"
      BY <1>1, HandleIsLocal DEF StageOfOp
    <3> USE <3>0 DEF Types, TypeOK, Goto, Finish, OnlyIf, StageOfOp
    <3>1. CASE Arrive(r)
      <4>1. /\ req[r].op \in Operations /\ answer' = answer /\ answer[r] = "none"
            /\ pc'[r] = Start[req[r].op] /\ stage'[r] = "none"
        BY <3>1, Ops DEF Arrive
      <4> QED BY <2>1, <4>1 DEF Start, Saves, Operations
    <3>2. CASE FindEmail(r) \/ InsertUser(r) \/ Credentials(r)
      BY <3>2, <2>1 DEF FindEmail, InsertUser, Credentials
    <3>3. CASE Issue(r) \/ IssueSecond(r)
      BY <3>3, <2>1 DEF Issue, IssueSecond
    <3>4. CASE Claim(r) \/ AssertLive(r) \/ ReadUser(r) \/ Revoke(r)
      BY <3>4, <2>1 DEF Claim, AssertLive, ReadUser, Revoke
    <3>5. CASE Guard(r) \/ FindProfile(r) \/ SaveSelect(r) \/ SaveUpdate(r)
      BY <3>5, <2>1 DEF Guard, FindProfile, SaveSelect, SaveUpdate, Saves
    <3>6. CASE FindToDelete(r) \/ Deactivate(r) \/ RevokeAll(r) \/ StartJob(r)
      BY <3>6, <2>1 DEF FindToDelete, Deactivate, RevokeAll, StartJob
    <3> QED BY <1>1, <3>1, <3>2, <3>3, <3>4, <3>5, <3>6 DEF Handle
  <2>3. \A x \in Requests \ {r} : StageOfOp(x)'
    BY <2>1 DEF StageOfOp, Saves
  <2> QED BY <2>2, <2>3
<1>2. CASE \/ \E r \in Requests : Continue(r)
           \/ \E t \in Tokens : Expire(t)
           \/ UNCHANGED vars
  <2>1. UNCHANGED <<req, pc, answer>>
    BY <1>2 DEF Continue, Wipe, SecondSweep, Complete, Expire, vars, handlers
  <2>2. \A x \in Requests : stage'[x] # "none" => stage[x] # "none"
    BY <1>2 DEF Continue, Wipe, SecondSweep, Complete, Expire, vars, Types
  <2> QED BY <2>1, <2>2 DEF StageOfOp, Saves
<1>3. CASE Crash
  BY <1>3 DEF Crash, InFlight, StageOfOp, Saves
<1> QED BY <1>1, <1>2, <1>3, Steps

\* What a step does to the users row.
LEMMA UserMoves ==
    ASSUME Base, [Next]_vars
    PROVE  \/ user' = user
           \/ user = NoUser /\ \E r \in Requests : InsertUser(r)
           \/ /\ user # NoUser /\ user' # NoUser
              /\ \/ \E r \in Requests :
                       /\ SaveUpdate(r)
                       /\ user'.profile =
                             Saved(user.profile, found[r].profile, mine[r].profile)
                       /\ user'.version = NextVersion(r)
                 \/ \E r \in Requests :
                       /\ Deactivate(r)
                       /\ user'.profile = [user.profile EXCEPT !.deactivated = TRUE]
                       /\ user'.version = user.version + 1
                 \/ \E r \in Requests :
                       /\ Wipe(r)
                       /\ user'.profile = [user.profile EXCEPT !.attributes = {}]
                       /\ user'.version = user.version + 1
<1>1. ASSUME NEW r \in Requests, SaveUpdate(r) \/ Deactivate(r) \/ Wipe(r)
      PROVE  user # NoUser
  BY <1>1 DEF SaveUpdate, Deactivate, Wipe, Base, Types, HasUser
<1>2. ASSUME user # NoUser
      PROVE  /\ [user.profile EXCEPT !.deactivated = TRUE] \in Profile
             /\ [user.profile EXCEPT !.attributes = {}] \in Profile
  BY <1>2, RowType DEF Profile, Base
<1>3. ASSUME NEW r \in Requests, SaveUpdate(r)
      PROVE  /\ user # NoUser /\ user' # NoUser
             /\ user'.profile = Saved(user.profile, found[r].profile, mine[r].profile)
             /\ user'.version = NextVersion(r)
  BY <1>1, <1>3, SaveType DEF Base
<1>4. ASSUME NEW r \in Requests, Deactivate(r)
      PROVE  /\ user # NoUser /\ user' # NoUser
             /\ user'.profile = [user.profile EXCEPT !.deactivated = TRUE]
             /\ user'.version = user.version + 1
  <2>1. /\ user # NoUser /\ [user.profile EXCEPT !.deactivated = TRUE] \in Profile
        /\ Update([user.profile EXCEPT !.deactivated = TRUE])
    BY <1>1, <1>2, <1>4 DEF Deactivate
  <2> QED BY <2>1, UpdateType DEF Base
<1>5. ASSUME NEW r \in Requests, Wipe(r)
      PROVE  /\ user # NoUser /\ user' # NoUser
             /\ user'.profile = [user.profile EXCEPT !.attributes = {}]
             /\ user'.version = user.version + 1
  <2>1. /\ user # NoUser /\ [user.profile EXCEPT !.attributes = {}] \in Profile
        /\ Update([user.profile EXCEPT !.attributes = {}])
    BY <1>1, <1>2, <1>5 DEF Wipe
  <2> QED BY <2>1, UpdateType DEF Base
<1>6. ASSUME NEW r \in Requests, Handle(r), ~(SaveUpdate(r) \/ Deactivate(r) \/ InsertUser(r))
      PROVE  user' = user
  BY <1>6 DEF Handle, FindEmail, Credentials, Issue, IssueSecond, Claim, AssertLive,
     ReadUser, Revoke, Guard, FindProfile, SaveSelect, FindToDelete, RevokeAll, StartJob
<1>7. ASSUME NEW r \in Requests, InsertUser(r)
      PROVE  user' = user \/ user = NoUser
  BY <1>7 DEF InsertUser
<1>8. CASE \/ \E r \in Requests : Arrive(r) \/ SecondSweep(r) \/ Complete(r)
           \/ \E t \in Tokens : Expire(t)
           \/ Crash \/ UNCHANGED vars
  BY <1>8 DEF Arrive, SecondSweep, Complete, Expire, Crash, vars
<1> QED BY <1>3, <1>4, <1>5, <1>6, <1>7, <1>8 DEF Next

\* The users row is never removed.
LEMMA UserStays ==
    ASSUME Base, [Next]_vars
    PROVE  user # NoUser => user' # NoUser
BY UserMoves

LEMMA HasUserStep ==
    ASSUME Base, [Next]_vars
    PROVE  HasUser'
<1> USE DEF Base, HasUser
<1>0. user # NoUser => user' # NoUser
  BY UserStays
<1>1. ASSUME NEW r \in Requests, Arrive(r) \/ Handle(r)
      PROVE  HasUser'
  <2>1. \A x \in Requests \ {r} : pc'[x] = pc[x] /\ stage'[x] = stage[x]
    BY <1>1, HandleIsLocal
  <2>2. /\ pc'[r] \notin {"idle", "done", "findEmail", "insertUser"} => user' # NoUser
        /\ stage'[r] # "none" => user' # NoUser
    <3> USE DEF Types, TypeOK, Goto, Finish, OnlyIf
    <3>1. CASE Arrive(r)
      <4>1. req[r].op \in DOMAIN Presents => user # NoUser
        BY <3>1 DEF Arrive, Held
      <4> QED BY <3>1, <4>1, Ops DEF Arrive, Start, Operations, Presents
    <3>2. CASE FindEmail(r)
      BY <3>2, <1>0 DEF FindEmail
    <3>3. CASE InsertUser(r)
      <4>1. NewProfile \in Profile
        BY DEF NewProfile, Profile
      <4>2. Row(NewProfile, 1) # NoUser
        BY <4>1, RowIsThere
      <4> QED BY <3>3, <4>2, <1>0 DEF InsertUser
    <3>4. CASE pc[r] \notin {"idle", "done", "findEmail", "insertUser"}
      BY <3>4, <1>0
    <3> QED BY <1>1, <3>1, <3>2, <3>3, <3>4 DEF Handle, Credentials, Issue, IssueSecond, Claim,
            AssertLive, ReadUser, Revoke, Guard, FindProfile, SaveSelect, SaveUpdate,
            FindToDelete, Deactivate, RevokeAll, StartJob
  <2> QED BY <1>0, <2>1, <2>2
<1>2. CASE \E r \in Requests : Continue(r)
  <2>1. pc' = pc
    BY <1>2 DEF Continue, Wipe, SecondSweep, Complete, handlers
  <2>2. \A x \in Requests : stage'[x] # "none" => stage[x] # "none"
    BY <1>2 DEF Continue, Wipe, SecondSweep, Complete, Types
  <2> QED BY <1>0, <2>1, <2>2
<1>3. CASE (\E t \in Tokens : Expire(t)) \/ UNCHANGED vars
  BY <1>3, <1>0 DEF Expire, vars, handlers
<1>4. CASE Crash
  BY <1>4, <1>0 DEF Crash, InFlight
<1> QED BY <1>1, <1>2, <1>3, <1>4, Steps

THEOREM BaseHolds == Spec => []Base
<1>1. Base /\ [Next]_vars => Base'
  <2> SUFFICES ASSUME Base, [Next]_vars PROVE Base'
    OBVIOUS
  <2>1. Types'
    BY Steps, HandleTypes, OthersTypes
  <2> QED BY <2>1, StagesStep, HasUserStep DEF Base
<1> QED BY <1>1, InitBase, PTL DEF Spec

\* Every variable keeps its type, for any number of requests, bodies and crashes.
THEOREM TypeCorrect == Spec => []TypeOK
<1>1. Base => TypeOK
  BY DEF Base, Types
<1> QED BY <1>1, BaseHolds, PTL

------------------------------------------------------------------------------
(***************************************************************************)
(* Once only.                                                              *)
(***************************************************************************)
\* A request comes once, and remembers who was over then.
LEMMA ArrivesOnce ==
    ASSUME Types, NEW r \in Requests, Arrive(r) \/ Handle(r)
    PROVE  \/ /\ pc[r] = "idle" /\ Arrive(r)
              /\ answeredBefore'[r] = {s \in Requests : pc[s] = "done" /\ stage[s] # "wipe"}
           \/ /\ pc[r] # "idle" /\ Handle(r)
              /\ answeredBefore' = answeredBefore /\ token' = token
<1> USE DEF history
<1>1. CASE Arrive(r)
  BY <1>1 DEF Arrive, Over, Types
<1>2. CASE Handle(r)
  BY <1>2 DEF Handle, FindEmail, InsertUser, Credentials, Issue, IssueSecond, Claim,
     AssertLive, ReadUser, Revoke, Guard, FindProfile, SaveSelect, SaveUpdate,
     FindToDelete, Deactivate, RevokeAll, StartJob
<1> QED BY <1>1, <1>2

\* No other step moves a handler forward.
LEMMA OthersAreStill ==
    ASSUME Types, \/ \E r \in Requests : Continue(r)
                  \/ \E t \in Tokens : Expire(t)
                  \/ Crash
                  \/ UNCHANGED vars
    PROVE  /\ UNCHANGED <<req, token, mine, registered, issued, late, answeredBefore, overlap>>
           /\ \A x \in Requests :
                 \/ pc'[x] = pc[x] /\ answer'[x] = answer[x]
                 \/ pc[x] \notin {"idle", "done"} /\ pc'[x] = "done" /\ answer'[x] = "lost"
           /\ \A x \in Requests : stage'[x] = "wipe" => stage[x] = "wipe"
           /\ live' \subseteq live
<1> USE DEF handlers, history, Types
<1>1. CASE Crash
  BY <1>1 DEF Crash, InFlight, TypeOK
<1>2. CASE \/ \E r \in Requests : Continue(r)
           \/ \E t \in Tokens : Expire(t)
           \/ UNCHANGED vars
  BY <1>2 DEF Continue, Wipe, SecondSweep, Complete, Expire, vars
<1> QED BY <1>1, <1>2

LEMMA AnswersStep ==
    ASSUME Base, Answers, [Next]_vars
    PROVE  Answers'
<1> USE DEF Answers
<1>1. ASSUME NEW r \in Requests, Arrive(r) \/ Handle(r)
      PROVE  Answers'
  <2>1. /\ pc[r] # "done" /\ pc'[r] # "idle"
        /\ \A x \in Requests \ {r} : /\ pc'[x] = pc[x] /\ stage'[x] = stage[x]
                                     /\ answeredBefore'[x] = answeredBefore[x]
    BY <1>1, HandleIsLocal DEF Base
  <2>2. \A x \in Requests : answeredBefore[x] \subseteq Requests
    BY DEF Base, Types
  <2>3. \A s \in answeredBefore'[r] : s \in Requests /\ pc[s] = "done" /\ stage[s] # "wipe"
    BY <1>1, <2>2, ArrivesOnce DEF Base
  <2> QED BY <2>1, <2>2, <2>3
<1>2. CASE \/ \E r \in Requests : Continue(r)
           \/ \E t \in Tokens : Expire(t)
           \/ Crash
           \/ UNCHANGED vars
  BY <1>2, OthersAreStill DEF Base, Types
<1> QED BY <1>1, <1>2, Steps

\* A step issues one new token or none, and revives none.
Mints(r, f) ==
    /\ <<r, f>> \notin issued /\ IssueRecord(r, f)
    /\ \/ Issue(r) /\ f # "session_refresh"
       \/ IssueSecond(r) /\ f = "session_refresh"

LEMMA TokenMoves ==
    ASSUME Base, TokensInHand, [Next]_vars
    PROVE  \/ issued' = issued /\ live' \subseteq live
           \/ \E r \in Requests, f \in Families : Mints(r, f)
<1>1. ASSUME NEW r \in Requests, Issue(r)
      PROVE  \E f \in Families : Mints(r, f)
  <2>1. \A f \in Families : <<r, f>> \notin issued
    BY <1>1, AccountAssumption DEF Issue, TokensInHand
  <2>2. \E f \in Families : f # "session_refresh" /\ IssueRecord(r, f)
    BY <1>1 DEF Issue, Families
  <2> QED BY <1>1, <2>1, <2>2 DEF Mints
<1>2. ASSUME NEW r \in Requests, IssueSecond(r)
      PROVE  \E f \in Families : Mints(r, f)
  BY <1>2 DEF IssueSecond, Families, Mints, TokensInHand
<1>3. ASSUME NEW r \in Requests, Arrive(r) \/ Handle(r), ~Issue(r), ~IssueSecond(r)
      PROVE  issued' = issued /\ live' \subseteq live
  BY <1>3 DEF Handle, Arrive, FindEmail, InsertUser, Credentials, Claim,
     AssertLive, ReadUser, Revoke, Guard, FindProfile, SaveSelect, SaveUpdate,
     FindToDelete, Deactivate, RevokeAll, StartJob
<1> QED BY <1>1, <1>2, <1>3, Steps, OthersAreStill DEF Base

\* So a token that is dead stays dead.
LEMMA DeadStaysDead ==
    ASSUME Base, TokensInHand, [Next]_vars
    PROVE  /\ issued \subseteq issued'
           /\ \A t \in issued \ live : t \in issued' \ live'
BY TokenMoves DEF Mints, IssueRecord

LEMMA TokensInHandStep ==
    ASSUME Base, TokensInHand, [Next]_vars, Base'
    PROVE  TokensInHand'
<1>0. \A x \in Requests : token[x] \in issued' <=> token[x] \in issued
  BY DeadStaysDead, AccountAssumption DEF Base, Types, TypeOK
<1>1. ASSUME NEW r \in Requests, Arrive(r) \/ Handle(r)
      PROVE  TokensInHand'
  <2>1. /\ req' = req /\ pc[r] # "done"
        /\ \A x \in Requests \ {r} : pc'[x] = pc[x] /\ token'[x] = token[x]
    BY <1>1, HandleIsLocal DEF Base
  <2>2. token'[r] \in issued' <=> pc'[r] # "idle" /\ req[r].op \in DOMAIN Presents
    <3>1. CASE Arrive(r)
      <4>1. CASE req[r].op \in DOMAIN Presents
        <5>1. token'[r] \in issued /\ issued' = issued
          BY <3>1, <4>1 DEF Arrive, Held, Base, Types
        <5> QED BY <1>1, <4>1, <5>1, HandleIsLocal DEF Base
      <4>2. CASE req[r].op \notin DOMAIN Presents
        <5>1. token' = token /\ issued' = issued
          BY <3>1, <4>2 DEF Arrive
        <5>2. pc[r] = "idle"
          BY <3>1 DEF Arrive
        <5> QED BY <4>2, <5>1, <5>2 DEF TokensInHand
      <4> QED BY <4>1, <4>2
    <3>2. CASE Handle(r) /\ pc[r] # "idle"
      BY <3>2, <1>0, <2>1, ArrivesOnce, HandleIsLocal DEF TokensInHand, Base
    <3> QED BY <1>1, <3>1, <3>2, ArrivesOnce DEF Base
  <2>3. \A t \in issued' : t[1] # Seed => pc'[t[1]] \in {"issueSecond", "done"}
    <3> SUFFICES ASSUME NEW t \in issued', t[1] # Seed
                 PROVE  pc'[t[1]] \in {"issueSecond", "done"}
      OBVIOUS
    <3>1. t[1] \in Requests
      BY DEF Base, Types, TypeOK, Tokens
    <3>2. CASE Issue(r) \/ IssueSecond(r)
      <4>1. pc'[r] \in {"issueSecond", "done"}
        BY <3>2 DEF Issue, IssueSecond, OnlyIf, Finish, Goto, Base, Types
      <4>2. t \in issued \/ t[1] = r
        BY <3>2 DEF Issue, IssueSecond, IssueRecord
      <4> QED BY <2>1, <3>1, <4>1, <4>2 DEF TokensInHand
    <3>3. CASE ~(Issue(r) \/ IssueSecond(r))
      <4>1. issued' = issued
        BY <1>1, <3>3 DEF Handle, Arrive, FindEmail, InsertUser, Credentials, Claim,
           AssertLive, ReadUser, Revoke, Guard, FindProfile, SaveSelect, SaveUpdate,
           FindToDelete, Deactivate, RevokeAll, StartJob
      <4>2. pc[t[1]] \in {"issueSecond", "done"}
        BY <4>1 DEF TokensInHand
      <4>3. pc[r] # "issueSecond"
        BY <1>1, <3>3 DEF Handle, Arrive, FindEmail, InsertUser, Credentials, Claim,
           AssertLive, ReadUser, Revoke, Guard, FindProfile, SaveSelect, SaveUpdate,
           FindToDelete, Deactivate, RevokeAll, StartJob
      <4> QED BY <2>1, <3>1, <4>2, <4>3
    <3> QED BY <3>2, <3>3
  <2>4. \A x \in Requests : pc'[x] = "issueSecond" => <<x, "session_refresh">> \notin issued'
    <3> SUFFICES ASSUME NEW x \in Requests, pc'[x] = "issueSecond"
                 PROVE  <<x, "session_refresh">> \notin issued'
      OBVIOUS
    <3>1. CASE Issue(r)
      <4>1. issued' = issued \cup {<<r, IF req[r].op \in {"sessionLogin", "sessionRefresh"}
                                         THEN "session" ELSE "refresh">>}
        BY <3>1 DEF Issue, IssueRecord
      <4>2. CASE x = r
        <5>1. pc[r] = "issue"
          BY <3>1 DEF Issue
        <5>2. r # Seed
          BY AccountAssumption
        <5> QED BY <4>1, <4>2, <5>1, <5>2 DEF TokensInHand
      <4>3. CASE x # r
        BY <2>1, <4>1, <4>3 DEF TokensInHand
      <4> QED BY <4>2, <4>3
    <3>2. CASE IssueSecond(r)
      <4>1. pc'[r] = "done" /\ issued' = issued \cup {<<r, "session_refresh">>}
        BY <3>2 DEF IssueSecond, IssueRecord, Finish, Goto, Base, Types
      <4>2. x # r
        BY <4>1
      <4> QED BY <2>1, <4>1, <4>2 DEF TokensInHand
    <3>3. CASE ~(Issue(r) \/ IssueSecond(r))
      <4>1. issued' = issued
        BY <1>1, <3>3 DEF Handle, Arrive, FindEmail, InsertUser, Credentials, Claim,
           AssertLive, ReadUser, Revoke, Guard, FindProfile, SaveSelect, SaveUpdate,
           FindToDelete, Deactivate, RevokeAll, StartJob
      <4>2. pc'[r] # "issueSecond"
        <5> USE DEF Base, Types, TypeOK, Goto, Finish, OnlyIf
        <5>1. CASE Arrive(r)
          BY <5>1, Ops DEF Arrive, Start, Operations
        <5>2. CASE \/ FindEmail(r) \/ InsertUser(r) \/ Credentials(r) \/ Claim(r)
                   \/ AssertLive(r) \/ ReadUser(r) \/ Revoke(r) \/ Guard(r)
          BY <5>2 DEF FindEmail, InsertUser, Credentials, Claim, AssertLive, ReadUser,
                      Revoke, Guard
        <5>3. CASE \/ FindProfile(r) \/ SaveSelect(r) \/ SaveUpdate(r) \/ FindToDelete(r)
                   \/ Deactivate(r) \/ RevokeAll(r) \/ StartJob(r)
          BY <5>3 DEF FindProfile, SaveSelect, SaveUpdate, FindToDelete, Deactivate,
                      RevokeAll, StartJob
        <5> QED BY <1>1, <3>3, <5>1, <5>2, <5>3 DEF Handle
      <4> QED BY <2>1, <4>1, <4>2 DEF TokensInHand
    <3> QED BY <3>1, <3>2, <3>3
  <2> QED BY <1>0, <2>1, <2>2, <2>3, <2>4 DEF TokensInHand
<1>2. CASE \/ \E r \in Requests : Continue(r)
           \/ \E t \in Tokens : Expire(t)
           \/ Crash
           \/ UNCHANGED vars
  <2>1. \A t \in issued : t[1] # Seed => t[1] \in Requests
    BY DEF Base, Types, TypeOK, Tokens
  <2> QED BY <1>2, <2>1, OthersAreStill DEF TokensInHand, Base
<1> QED BY <1>1, <1>2, Steps

\* One row is inserted, by the request that goes on to be granted its tokens.
LEMMA RegisteredStep ==
    ASSUME Base, RegisteredHold, [Next]_vars
    PROVE  RegisteredHold'
<1> USE DEF RegisteredHold
<1>1. ASSUME NEW r \in Requests, Arrive(r) \/ Handle(r)
      PROVE  RegisteredHold'
  <2>1. /\ req' = req
        /\ \A x \in Requests \ {r} : pc'[x] = pc[x] /\ answer'[x] = answer[x]
    BY <1>1, HandleIsLocal DEF Base
  <2>2. CASE InsertUser(r)
    <3>1. CASE user = NoUser
      <4>1. registered = {} /\ registered' = {r}
        BY <2>2, <3>1 DEF InsertUser, Base, Types, TypeOK
      <4>2. \A x \in Requests \ {r} :
               ~(req[x].op = "register" /\ (pc[x] = "issue" \/ Granted(x)))
        BY <4>1
      <4> QED BY <2>1, <4>1, <4>2 DEF Granted
    <3>2. CASE user # NoUser
      <4>1. registered' = registered /\ pc'[r] = "done" /\ answer'[r] = "conflict"
        BY <2>2, <3>2 DEF InsertUser, Finish, Goto, Base, Types, TypeOK
      <4> QED BY <2>1, <4>1 DEF Granted
    <3> QED BY <3>1, <3>2
  <2>3. CASE ~InsertUser(r)
    <3>1. registered' = registered
      BY <1>1, <2>3 DEF Handle, Arrive, FindEmail, Credentials, Issue, IssueSecond, Claim,
         AssertLive, ReadUser, Revoke, Guard, FindProfile, SaveSelect, SaveUpdate,
         FindToDelete, Deactivate, RevokeAll, StartJob
    <3>2. req[r].op = "register" /\ (pc'[r] = "issue" \/ answer'[r] = "granted")
             => pc[r] = "issue"
      <4> USE DEF Base, Types, TypeOK, StagesOfOps, StageOfOp, Goto, Finish, OnlyIf
      <4>1. CASE Arrive(r)
        BY <4>1, Ops DEF Arrive, Start, Operations
      <4>2. CASE FindEmail(r) \/ Credentials(r) \/ Issue(r) \/ IssueSecond(r)
        BY <4>2 DEF FindEmail, Credentials, Issue, IssueSecond
      <4>3. CASE Claim(r) \/ AssertLive(r) \/ ReadUser(r) \/ Revoke(r) \/ Guard(r)
        BY <4>3 DEF Claim, AssertLive, ReadUser, Revoke, Guard
      <4>4. CASE FindProfile(r) \/ SaveSelect(r) \/ SaveUpdate(r)
        BY <4>4 DEF FindProfile, SaveSelect, SaveUpdate
      <4>5. CASE FindToDelete(r) \/ Deactivate(r) \/ RevokeAll(r) \/ StartJob(r)
        BY <4>5 DEF FindToDelete, Deactivate, RevokeAll, StartJob
      <4> QED BY <1>1, <2>3, <4>1, <4>2, <4>3, <4>4, <4>5 DEF Handle
    <3> QED BY <2>1, <3>1, <3>2 DEF Granted
  <2> QED BY <2>2, <2>3
<1>2. CASE \/ \E r \in Requests : Continue(r)
           \/ \E t \in Tokens : Expire(t)
           \/ Crash
           \/ UNCHANGED vars
  BY <1>2, OthersAreStill DEF Granted, Base
<1> QED BY <1>1, <1>2, Steps

\* How a request that rotates or uses a token gets on: past the check only with a live one.
LEMMA PastTheCheck ==
    ASSUME Base, NEW r \in Requests, Arrive(r) \/ Handle(r)
    PROVE  LET past(p, a) == p \in {"readUser", "issue", "issueSecond"} \/ a = "granted"
           IN  /\ past(pc'[r], answer'[r]) /\ req[r].op \in DOMAIN Presents =>
                     \/ past(pc[r], answer[r])
                     \/ /\ token[r] \in live /\ pc[r] \in {"claim", "assertLive"}
                        /\ req[r].op = "refresh" => Claim(r)
               /\ answer'[r] = "ok" /\ req[r].op = "logout" => Revoke(r)
<1> USE DEF Base, Types, TypeOK, StagesOfOps, StageOfOp, Goto, Finish, OnlyIf, Presents, Saves
<1>1. CASE Arrive(r)
  BY <1>1, Ops DEF Arrive, Start, Operations
<1>2. CASE FindEmail(r) \/ InsertUser(r) \/ Credentials(r)
  BY <1>2 DEF FindEmail, InsertUser, Credentials
<1>3. CASE Issue(r) \/ IssueSecond(r)
  BY <1>3 DEF Issue, IssueSecond
<1>4. CASE Claim(r)
  BY <1>4 DEF Claim
<1>5. CASE AssertLive(r)
  BY <1>5 DEF AssertLive
<1>6. CASE ReadUser(r) \/ Revoke(r) \/ Guard(r)
  BY <1>6 DEF ReadUser, Revoke, Guard
<1>7. CASE FindProfile(r) \/ SaveSelect(r) \/ SaveUpdate(r)
  BY <1>7 DEF FindProfile, SaveSelect, SaveUpdate
<1>8. CASE FindToDelete(r) \/ Deactivate(r) \/ RevokeAll(r) \/ StartJob(r)
  BY <1>8 DEF FindToDelete, Deactivate, RevokeAll, StartJob
<1> QED BY <1>1, <1>2, <1>3, <1>4, <1>5, <1>6, <1>7, <1>8 DEF Handle

LEMMA ClaimedStep ==
    ASSUME Base, TokensInHand, ClaimedIsDead, [Next]_vars
    PROVE  ClaimedIsDead'
<1>0. /\ issued \subseteq issued'
      /\ \A t \in issued \ live : t \in issued' \ live'
  BY DeadStaysDead
<1>1. ASSUME NEW r \in Requests, Arrive(r) \/ Handle(r)
      PROVE  ClaimedIsDead'
  <2>1. /\ req' = req
        /\ \A x \in Requests \ {r} :
              pc'[x] = pc[x] /\ answer'[x] = answer[x] /\ token'[x] = token[x]
    BY <1>1, HandleIsLocal DEF Base
  <2>2. \A x \in Requests \ {r} : Claimed(x)' <=> Claimed(x)
    BY <2>1 DEF Claimed, Granted
  <2>3. Claimed(r)' => /\ token'[r] = token[r]
                       /\ Claimed(r) \/ (Claim(r) /\ token[r] \in live)
    <3> SUFFICES ASSUME Claimed(r)'
                 PROVE  /\ token'[r] = token[r]
                        /\ Claimed(r) \/ (Claim(r) /\ token[r] \in live)
      OBVIOUS
    <3>1. req[r].op = "refresh" /\ req[r].op \in DOMAIN Presents
      BY <2>1 DEF Claimed, Presents
    <3>2. pc'[r] \in {"readUser", "issue"} \/ answer'[r] = "granted"
      BY DEF Claimed, Granted
    <3>3. \/ pc[r] \in {"readUser", "issue", "issueSecond"} \/ answer[r] = "granted"
          \/ token[r] \in live /\ pc[r] = "claim" /\ Claim(r)
      BY <1>1, <3>1, <3>2, PastTheCheck DEF Claim
    <3>4. pc[r] # "issueSecond" /\ (answer[r] = "granted" => pc[r] = "done")
      BY <3>1 DEF Base, StagesOfOps, StageOfOp
    <3>5. pc[r] # "idle"
      BY <3>3, <3>4
    <3> QED BY <1>1, <3>1, <3>3, <3>4, <3>5, ArrivesOnce DEF Base, Claimed, Granted
  <2>4. Claim(r) => \A x \in Requests : token[r] \in live /\ Claimed(x) => token[x] # token[r]
    BY DEF ClaimedIsDead
  <2>5. Claim(r) => issued' = issued /\ live' = live \ {token[r]}
    BY DEF Claim
  <2>6. ASSUME NEW x \in Requests, Claimed(x)'
        PROVE  token'[x] \in issued' \ live'
    <3>1. CASE Claimed(x)
      BY <1>0, <2>1, <2>3, <2>6, <3>1 DEF ClaimedIsDead
    <3>2. CASE x = r /\ Claim(r) /\ token[r] \in live
      BY <2>3, <2>5, <2>6, <3>2 DEF Base, Types, TypeOK
    <3> QED BY <2>2, <2>3, <2>6, <3>1, <3>2
  <2>7. ASSUME NEW x \in Requests, NEW y \in Requests,
               Claimed(x)', Claimed(y)', token'[x] = token'[y]
        PROVE  x = y
    BY <2>1, <2>2, <2>3, <2>4, <2>7 DEF ClaimedIsDead
  <2> QED BY <2>6, <2>7 DEF ClaimedIsDead
<1>2. CASE \/ \E r \in Requests : Continue(r)
           \/ \E t \in Tokens : Expire(t)
           \/ Crash
           \/ UNCHANGED vars
  <2>1. token' = token /\ \A x \in Requests : Claimed(x)' => Claimed(x)
    BY <1>2, OthersAreStill DEF Claimed, Granted, Base
  <2> QED BY <1>0, <2>1 DEF ClaimedIsDead
<1> QED BY <1>1, <1>2, Steps

LEMMA SpentStep ==
    ASSUME Base, Answers, TokensInHand, ClaimedIsDead, SpentIsDead, [Next]_vars
    PROVE  SpentIsDead'
<1> DEFINE Past(x) == pc[x] \in {"readUser", "issue", "issueSecond"} \/ Granted(x)
<1>0. /\ issued \subseteq issued'
      /\ \A t \in issued \ live : t \in issued' \ live'
  BY DeadStaysDead
<1>1. ASSUME NEW r \in Requests, Arrive(r) \/ Handle(r)
      PROVE  SpentIsDead'
  <2>1. /\ req' = req /\ pc[r] # "done"
        /\ \A x \in Requests \ {r} :
              /\ pc'[x] = pc[x] /\ answer'[x] = answer[x] /\ token'[x] = token[x]
              /\ answeredBefore'[x] = answeredBefore[x]
    BY <1>1, HandleIsLocal DEF Base
  <2>2. \A x \in Requests \ {r} : (Spent(x)' <=> Spent(x)) /\ (Past(x)' <=> Past(x))
    BY <2>1 DEF Spent, Granted
  <2>3. Spent(r)' => token'[r] \in issued' \ live'
    <3>1. CASE answer'[r] = "ok" /\ req[r].op = "logout"
      <4>1. Revoke(r) /\ token[r] \in issued
        BY <1>1, <3>1, PastTheCheck DEF Revoke, TokensInHand, Presents
      <4> QED BY <4>1 DEF Revoke
    <3>2. CASE answer'[r] = "granted" /\ req[r].op = "refresh"
      <4>1. (ClaimedIsDead)'
        BY ClaimedStep
      <4> QED BY <2>1, <3>2, <4>1 DEF ClaimedIsDead, Claimed, Granted
    <3> QED BY <2>1, <3>1, <3>2 DEF Spent, Granted
  <2>4. ASSUME NEW x \in Requests, NEW s \in answeredBefore'[x], Spent(s)', token'[s] = token'[x]
        PROVE  ~Past(x)'
    <3>0. s \in Requests
      BY <1>1, <2>1, ArrivesOnce DEF Base, Types
    <3>1. s # r /\ Spent(s) /\ token[s] = token'[x] /\ token[s] \in issued \ live
      <4>1. s # r
        BY <1>1, <2>1, ArrivesOnce DEF Answers, Base, Types
      <4> QED BY <2>1, <2>2, <2>4, <3>0, <4>1 DEF SpentIsDead
    <3>2. CASE x # r
      BY <2>1, <2>2, <2>4, <3>1, <3>2 DEF SpentIsDead
    <3>3. CASE x = r
      <4>1. CASE pc[r] = "idle"
        <5>1. Arrive(r)
          BY <1>1, <4>1, ArrivesOnce DEF Base
        <5>2. pc'[r] \notin {"readUser", "issue", "issueSecond"} /\ answer'[r] # "granted"
          <6>1. answer[r] = "none"
            BY <4>1 DEF Base, StagesOfOps, StageOfOp
          <6> QED BY <5>1, <6>1, Ops
                  DEF Arrive, Start, Operations, Goto, Base, Types
        <5> QED BY <3>3, <5>2 DEF Granted
      <4>2. CASE pc[r] # "idle"
        <5>1. token' = token /\ s \in answeredBefore[r]
          BY <1>1, <2>4, <3>3, <4>2, ArrivesOnce DEF Base
        <5>2. token[s] = token[r] /\ token[r] \in issued \ live
          BY <3>1, <3>3, <5>1
        <5>3. ~Past(r) /\ req[r].op \in DOMAIN Presents
          BY <3>0, <3>1, <5>1, <5>2 DEF SpentIsDead, TokensInHand
        <5> QED BY <1>1, <3>3, <5>2, <5>3, PastTheCheck DEF Granted
      <4> QED BY <4>1, <4>2
    <3> QED BY <3>2, <3>3
  <2>5. ASSUME NEW s \in Requests, Spent(s)'
        PROVE  token'[s] \in issued' \ live'
    BY <1>0, <2>1, <2>2, <2>3, <2>5 DEF SpentIsDead
  <2> QED BY <2>4, <2>5 DEF SpentIsDead
<1>2. CASE \/ \E r \in Requests : Continue(r)
           \/ \E t \in Tokens : Expire(t)
           \/ Crash
           \/ UNCHANGED vars
  <2>1. /\ token' = token /\ answeredBefore' = answeredBefore
        /\ \A x \in Requests : (Spent(x)' => Spent(x)) /\ (Past(x)' => Past(x))
    BY <1>2, OthersAreStill DEF Spent, Granted, Base
  <2>2. \A x \in Requests : answeredBefore[x] \subseteq Requests
    BY DEF Base, Types
  <2> QED BY <1>0, <2>1, <2>2 DEF SpentIsDead
<1> QED BY <1>1, <1>2, Steps

THEOREM OnceHolds == Spec => []OnceInv
<1>1. Init => OnceInv
  <2> SUFFICES ASSUME Init PROVE OnceInv
    OBVIOUS
  <2>1. Seed \notin Requests /\ \A t \in issued : t[1] = Seed
    BY AccountAssumption DEF Init
  <2>2. NoToken \notin issued
    BY AccountAssumption, InitBase DEF Base, Types, TypeOK
  <2> QED BY <2>1, <2>2 DEF Init, OnceInv, Answers, TokensInHand, RegisteredHold,
             ClaimedIsDead, Claimed, SpentIsDead, Spent, Granted
<1>2. Base /\ OnceInv /\ [Next]_vars /\ Base' => OnceInv'
  BY AnswersStep, TokensInHandStep, RegisteredStep, ClaimedStep, SpentStep DEF OnceInv
<1> QED BY <1>1, <1>2, BaseHolds, PTL DEF Spec

\* What may be used once is granted once: one registration of an email, one successor of
\* a refresh token, nothing to a token that was spent before the request came.
THEOREM GrantedOnce == Spec => []OnceOnly
<1>1. OnceInv => OnceOnly
  <2> SUFFICES ASSUME OnceInv PROVE OnceOnly
    OBVIOUS
  <2>1. OneRegistration
    <3>1. CASE registered = {}
      BY <3>1, FS_EmptySet DEF OneRegistration, OnceInv, RegisteredHold
    <3>2. CASE registered # {}
      <4>1. PICK x \in registered : registered = {x}
        BY <3>2 DEF OnceInv, RegisteredHold
      <4>2. Cardinality(registered) = 1
        BY <4>1, FS_Singleton
      <4> QED BY <4>2 DEF OneRegistration, OnceInv, RegisteredHold
    <3> QED BY <3>1, <3>2
  <2>2. RotatesOnce
    BY DEF RotatesOnce, OnceInv, ClaimedIsDead, Claimed
  <2>3. SpentTokenIsRefused
    BY DEF SpentTokenIsRefused, OnceInv, SpentIsDead, Spent
  <2> QED BY <2>1, <2>2, <2>3 DEF OnceOnly
<1> QED BY <1>1, OnceHolds, PTL

------------------------------------------------------------------------------
(***************************************************************************)
(* One change per version.                                                 *)
(***************************************************************************)
\* A handler takes a row in hand only when it reads the row.
LEMMA MineMoves ==
    ASSUME Base, NEW r \in Requests, Arrive(r) \/ Handle(r)
    PROVE  /\ \/ mine' = mine
              \/ FindProfile(r) /\ mine' = [mine EXCEPT ![r] = Patched(r)]
           /\ pc'[r] \in Saving => pc[r] \in Saving \/ FindProfile(r)
           /\ Saves(r) /\ answer'[r] = "ok" => SaveSelect(r) \/ SaveUpdate(r)
<1> USE DEF Base, Types, TypeOK, Goto, Finish, OnlyIf, Saving, StagesOfOps, StageOfOp, Saves,
            handlers
<1>1. CASE Arrive(r)
  BY <1>1, Ops DEF Arrive, Start, Operations
<1>2. CASE FindEmail(r) \/ InsertUser(r) \/ Credentials(r) \/ Issue(r) \/ IssueSecond(r)
  BY <1>2 DEF FindEmail, InsertUser, Credentials, Issue, IssueSecond
<1>3. CASE Claim(r) \/ AssertLive(r) \/ ReadUser(r) \/ Revoke(r)
  BY <1>3 DEF Claim, AssertLive, ReadUser, Revoke
<1>4. CASE Guard(r) \/ FindProfile(r) \/ SaveSelect(r) \/ SaveUpdate(r)
  BY <1>4 DEF Guard, FindProfile, SaveSelect, SaveUpdate
<1>5. CASE FindToDelete(r) \/ Deactivate(r) \/ RevokeAll(r) \/ StartJob(r)
  BY <1>5 DEF FindToDelete, Deactivate, RevokeAll, StartJob
<1> QED BY <1>1, <1>2, <1>3, <1>4, <1>5 DEF Handle

\* Whoever is done stays done.
LEMMA DoneStays ==
    ASSUME Base, [Next]_vars
    PROVE  \A x \in Requests : pc[x] = "done" => pc'[x] = "done" /\ answer'[x] = answer[x]
<1>1. ASSUME NEW r \in Requests, Arrive(r) \/ Handle(r)
      PROVE  \A x \in Requests : pc[x] = "done" => pc'[x] = "done" /\ answer'[x] = answer[x]
  BY <1>1, HandleIsLocal DEF Base
<1> QED BY <1>1, Steps, OthersAreStill DEF Base

LEMMA AttributesStep ==
    ASSUME Base, AttributesAreSaved, [Next]_vars, Base'
    PROVE  AttributesAreSaved'
<1>0. \A x \in Requests : pc[x] = "done" => pc'[x] = "done"
  BY DoneStays
<1>t. /\ \A x \in Requests : mine[x].profile.attributes \subseteq Requests
      /\ user # NoUser => user.profile.attributes \subseteq Requests
  BY DEF Base, Types, TypeOK, Profile, UserRow
<1>1. user' # NoUser => \A s \in user'.profile.attributes : pc'[s] = "done"
  <2>1. CASE user' = user
    BY <1>0, <1>t, <2>1 DEF AttributesAreSaved
  <2>2. ASSUME NEW r \in Requests, InsertUser(r), user = NoUser
        PROVE  user'.profile.attributes = {}
    BY <2>2 DEF InsertUser, Row, NewProfile
  <2>3. ASSUME NEW r \in Requests, SaveUpdate(r), user # NoUser,
               user'.profile = Saved(user.profile, found[r].profile, mine[r].profile)
        PROVE  \A s \in user'.profile.attributes : pc'[s] = "done"
    <3>0. /\ mine[r].profile \in Profile /\ found[r].profile \in Profile
          /\ user.profile \in Profile
      BY <2>3, RowType DEF Base, Types, TypeOK, UserRow
    <3>1. user'.profile.attributes \in {mine[r].profile.attributes, user.profile.attributes}
      BY <2>3, <3>0, SavedProfile
    <3>2. pc'[r] = "done"
      BY <2>3 DEF SaveUpdate, Finish, Goto, Base, Types
    <3> QED BY <1>0, <1>t, <2>3, <3>1, <3>2 DEF AttributesAreSaved
  <2>4. ASSUME user # NoUser, user'.profile = [user.profile EXCEPT !.deactivated = TRUE]
        PROVE  \A s \in user'.profile.attributes : pc'[s] = "done"
    <3>1. user.profile \in Profile
      BY <2>4, RowType DEF Base
    <3>2. user'.profile.attributes = user.profile.attributes
      BY <2>4, <3>1 DEF Profile
    <3> QED BY <1>0, <1>t, <2>4, <3>2 DEF AttributesAreSaved
  <2>5. ASSUME user # NoUser, user'.profile = [user.profile EXCEPT !.attributes = {}]
        PROVE  user'.profile.attributes = {}
    <3>1. user.profile \in Profile
      BY <2>5, RowType DEF Base
    <3> QED BY <2>5, <3>1 DEF Profile
  <2> QED BY <2>1, <2>2, <2>3, <2>4, <2>5, UserMoves
<1>2. ASSUME NEW r \in Requests, Arrive(r) \/ Handle(r)
      PROVE  /\ \A x \in Requests : \A s \in mine'[x].profile.attributes : s = x \/ pc'[s] = "done"
             /\ \A x \in Requests :
                   req'[x].op = "patch" /\ pc'[x] \in Saving =>
                       x \in mine'[x].profile.attributes
  <2>1. /\ req' = req
        /\ \A x \in Requests \ {r} : pc'[x] = pc[x] /\ mine'[x] = mine[x]
    BY <1>2, HandleIsLocal DEF Base
  <2>2. CASE mine' = mine /\ ~FindProfile(r)
    <3>1. pc'[r] \in Saving => pc[r] \in Saving
      BY <1>2, <2>2, MineMoves
    <3> QED BY <1>0, <1>t, <2>1, <2>2, <3>1 DEF AttributesAreSaved
  <2>3. CASE FindProfile(r)
    <3>1. user # NoUser /\ mine'[r] = Patched(r)
      BY <2>3 DEF FindProfile, Base, HasUser, Types, TypeOK
    <3>2. /\ Patched(r).profile.attributes \subseteq user.profile.attributes \cup {r}
          /\ req[r].op = "patch" => r \in Patched(r).profile.attributes
      BY <3>1, PatchedRow DEF Base
    <3> QED BY <1>0, <1>t, <2>1, <3>1, <3>2 DEF AttributesAreSaved
  <2> QED BY <1>2, <2>2, <2>3, MineMoves
<1>3. CASE \/ \E r \in Requests : Continue(r)
           \/ \E t \in Tokens : Expire(t)
           \/ Crash
           \/ UNCHANGED vars
  <2>1. UNCHANGED <<mine, req>> /\ \A x \in Requests : pc'[x] = pc[x] \/ pc'[x] = "done"
    BY <1>3, OthersAreStill DEF Base
  <2> QED BY <1>0, <1>1, <1>t, <2>1 DEF AttributesAreSaved, Saving
<1> QED BY <1>1, <1>2, <1>3, Steps DEF AttributesAreSaved

\* Requests that were under way together have been so ever since.
LEMMA TogetherStays ==
    ASSUME Base, [Next]_vars, NEW x \in Requests, NEW s \in Requests, Together(x, s)
    PROVE  Together(x, s)'
<1>1. ASSUME NEW r \in Requests, Arrive(r) \/ Handle(r), NEW y \in Requests, pc[y] # "idle"
      PROVE  pc'[y] # "idle" /\ answeredBefore'[y] = answeredBefore[y]
  <2>1. CASE y = r
    BY <1>1, <2>1, ArrivesOnce, HandleIsLocal DEF Base
  <2>2. CASE y # r
    BY <1>1, <2>2, HandleIsLocal DEF Base
  <2> QED BY <2>1, <2>2
<1>2. CASE \/ \E r \in Requests : Continue(r)
           \/ \E t \in Tokens : Expire(t)
           \/ Crash
           \/ UNCHANGED vars
  <2>1. /\ answeredBefore' = answeredBefore
        /\ \A y \in Requests : pc'[y] = pc[y] \/ pc'[y] = "done"
    BY <1>2, OthersAreStill DEF Base
  <2> QED BY <2>1 DEF Together
<1>3. CASE \E r \in Requests : Arrive(r) \/ Handle(r)
  BY <1>1, <1>3 DEF Together
<1> QED BY <1>2, <1>3, Steps

LEMMA AloneBefore ==
    ASSUME Base, [Next]_vars, NEW s \in Requests, Alone(s)'
    PROVE  Alone(s) /\ req' = req
<1>1. req' = req
  BY Steps, HandleIsLocal, OthersAreStill DEF Base
<1> QED BY <1>1, TogetherStays DEF Alone, Changes

\* Whoever is at the row while s is between its read and its answer is together with s.
LEMMA Meets ==
    ASSUME Base, Answers, NEW s \in Requests, pc[s] \in Saving,
           NEW x \in Requests \ {s}, pc[x] \notin {"idle", "done"} \/ stage[x] = "wipe"
    PROVE  Together(x, s)
<1>1. pc[x] # "idle" /\ pc[s] # "idle" /\ pc[s] # "done"
  BY DEF Base, StagesOfOps, StageOfOp, Saving
<1>2. x \notin answeredBefore[s]
  BY DEF Answers
<1>3. s \notin answeredBefore[x]
  BY <1>1 DEF Answers
<1> QED BY <1>1, <1>2, <1>3 DEF Together

\* So the row of a request that is alone changes only by its own hand.
LEMMA RowIsKept ==
    ASSUME Base, Answers, [Next]_vars, NEW s \in Requests, Conditional(s), Alone(s),
           pc[s] \in Saving
    PROVE  user # NoUser /\ (user' = user \/ SaveUpdate(s))
<1>1. user # NoUser
  BY DEF Base, HasUser, Saving
<1>2. ASSUME NEW x \in Requests \ {s}, SaveUpdate(x) \/ Deactivate(x) \/ Wipe(x)
      PROVE  FALSE
  <2>1. pc[x] \notin {"idle", "done"} \/ stage[x] = "wipe"
    BY <1>2 DEF SaveUpdate, Deactivate, Wipe
  <2>2. Changes(x)
    <3>1. CASE SaveUpdate(x)
      BY <3>1 DEF SaveUpdate, Base, StagesOfOps, StageOfOp, Saves, Changes
    <3>2. CASE Deactivate(x)
      BY <3>2 DEF Deactivate, Base, StagesOfOps, StageOfOp, Changes
    <3>3. CASE Wipe(x)
      BY <3>3 DEF Wipe, Base, StagesOfOps, StageOfOp, Changes
    <3> QED BY <1>2, <3>1, <3>2, <3>3
  <2> QED BY <2>1, <2>2, Meets DEF Alone
<1>3. ~Deactivate(s) /\ ~Wipe(s)
  BY DEF Deactivate, Wipe, Saving, Base, StagesOfOps, StageOfOp
<1> QED BY <1>1, <1>2, <1>3, UserMoves

LEMMA InHandStep ==
    ASSUME Base, Answers, VersionInHand, [Next]_vars
    PROVE  VersionInHand'
<1> SUFFICES ASSUME NEW s \in Requests, Conditional(s)', Alone(s)'
             PROVE  /\ pc'[s] \in Saving =>
                          /\ mine'[s].version = req'[s].ifMatch
                          /\ user'.version = req'[s].ifMatch
                    /\ pc'[s] = "saveUpdate" => found'[s].version = user'.version
  BY DEF VersionInHand
<1>0. req' = req /\ Conditional(s) /\ Alone(s)
  BY AloneBefore DEF Conditional
<1>1. CASE FindProfile(s)
  <2>1. pc'[s] # "saveUpdate" /\ user' = user
    BY <1>1 DEF FindProfile, OnlyIf, Finish, Goto, Base, Types
  <2>2. pc'[s] \in Saving => req[s].ifMatch = user.version
    BY <1>0, <1>1 DEF FindProfile, OnlyIf, Finish, Goto, Conditional, Saving, Base, Types
  <2>3. mine'[s].version = user.version
    <3>1. user # NoUser /\ mine'[s] = Patched(s)
      BY <1>1 DEF FindProfile, Base, HasUser, Types, TypeOK
    <3> QED BY <3>1, PatchedRow DEF Base
  <2> QED BY <1>0, <2>1, <2>2, <2>3
<1>2. CASE SaveSelect(s)
  <2>1. user' = user /\ mine' = mine /\ found'[s] = user /\ pc[s] \in Saving
    BY <1>2 DEF SaveSelect, Saving, Base, Types, TypeOK
  <2> QED BY <1>0, <2>1 DEF VersionInHand
<1>3. CASE SaveUpdate(s)
  BY <1>3 DEF SaveUpdate, Finish, Goto, Saving, Base, Types
<1>4. CASE ~(FindProfile(s) \/ SaveSelect(s) \/ SaveUpdate(s)) /\ pc'[s] \in Saving
  <2>1. pc[s] = pc'[s] /\ mine'[s] = mine[s] /\ found'[s] = found[s]
    <3>1. ASSUME NEW r \in Requests, Arrive(r) \/ Handle(r)
          PROVE  pc[s] = pc'[s] /\ mine'[s] = mine[s] /\ found'[s] = found[s]
      <4>1. CASE r = s
        <5>1. pc[s] \in Saving
          BY <1>4, <3>1, <4>1, MineMoves
        <5>2. pc[s] \notin Saving
          BY <1>4, <3>1, <4>1 DEF Handle, Arrive, Saving, FindEmail, InsertUser,
             Credentials, Issue, IssueSecond, Claim, AssertLive, ReadUser, Revoke, Guard,
             FindToDelete, Deactivate, RevokeAll, StartJob
        <5> QED BY <5>1, <5>2
      <4>2. CASE r # s
        BY <3>1, <4>2, HandleIsLocal DEF Base
      <4> QED BY <4>1, <4>2
    <3>2. CASE \/ \E r \in Requests : Continue(r)
               \/ \E t \in Tokens : Expire(t)
               \/ Crash
               \/ UNCHANGED vars
      <4>1. mine' = mine /\ (pc'[s] = pc[s] \/ pc'[s] = "done")
        BY <3>2, OthersAreStill DEF Base
      <4>2. found' = found
        BY <3>2 DEF Continue, Wipe, SecondSweep, Complete, Expire, Crash, vars, handlers
      <4> QED BY <1>4, <4>1, <4>2 DEF Saving
    <3> QED BY <3>1, <3>2, Steps
  <2>2. user' = user
    BY <1>0, <1>4, <2>1, RowIsKept
  <2> QED BY <1>0, <2>1, <2>2 DEF VersionInHand, Saving
<1> QED BY <1>1, <1>2, <1>3, <1>4 DEF Saving

\* A row in hand is the row read: no change of it is older.
LEMMA InHandMoves ==
    ASSUME Base, [Next]_vars, NEW x \in Requests, pc'[x] \in Saving
    PROVE  \/ pc[x] \in Saving /\ mine'[x] = mine[x]
           \/ user # NoUser /\ mine'[x].version = user.version
<1>1. ASSUME NEW r \in Requests, Arrive(r) \/ Handle(r)
      PROVE  \/ pc[x] \in Saving /\ mine'[x] = mine[x]
             \/ user # NoUser /\ mine'[x].version = user.version
  <2>1. CASE r # x
    BY <1>1, <2>1, HandleIsLocal DEF Base
  <2>2. CASE r = x /\ FindProfile(x)
    <3>1. user # NoUser /\ mine'[x] = Patched(x)
      BY <2>2 DEF FindProfile, Base, HasUser, Types, TypeOK
    <3> QED BY <3>1, PatchedRow DEF Base
  <2>3. CASE r = x /\ ~FindProfile(x)
    BY <1>1, <2>3, MineMoves
  <2> QED BY <2>1, <2>2, <2>3
<1>2. CASE \/ \E r \in Requests : Continue(r)
           \/ \E t \in Tokens : Expire(t)
           \/ Crash
           \/ UNCHANGED vars
  BY <1>2, OthersAreStill DEF Base, Saving
<1> QED BY <1>1, <1>2, Steps

\* Only its own save answers a conditional PATCH: it has an attribute to write.
LEMMA SaveAnswers ==
    ASSUME Base, AttributesAreSaved, [Next]_vars, NEW s \in Requests, Conditional(s),
           answer[s] # "ok", answer'[s] = "ok"
    PROVE  SaveUpdate(s)
<1>0. req[s].op = "patch" /\ Saves(s)
  BY DEF Conditional, Saves
<1>1. Arrive(s) \/ Handle(s)
  <2>1. ASSUME NEW r \in Requests \ {s}, Arrive(r) \/ Handle(r)
        PROVE  FALSE
    BY <2>1, HandleIsLocal DEF Base
  <2> QED BY <2>1, Steps, OthersAreStill DEF Base
<1>2. CASE SaveSelect(s)
  <2>1. pc[s] = "saveSelect" /\ user # NoUser
    BY <1>2 DEF SaveSelect, Base, HasUser
  <2>2. s \notin user.profile.attributes /\ s \in mine[s].profile.attributes
    BY <1>0, <2>1 DEF AttributesAreSaved, Saving
  <2>3. mine[s] # user
    BY <2>2
  <2> QED BY <1>2, <2>3 DEF SaveSelect
<1> QED BY <1>0, <1>1, <1>2, MineMoves

LEMMA PassedStep ==
    ASSUME Base, Answers, AttributesAreSaved, VersionInHand, VersionIsPassed, [Next]_vars
    PROVE  VersionIsPassed'
<1> SUFFICES ASSUME NEW s \in Requests, Conditional(s)', Alone(s)', answer'[s] = "ok"
             PROVE  /\ user' # NoUser /\ req'[s].ifMatch < user'.version
                    /\ \A x \in Requests :
                          pc'[x] \in Saving => req'[s].ifMatch < mine'[x].version
  BY DEF VersionIsPassed
<1>0. /\ req' = req /\ Conditional(s) /\ Alone(s) /\ req[s].ifMatch \in Nat
      /\ user # NoUser => user.version \in Nat
      /\ \A x \in Requests : mine[x].version \in Nat
  <2>1. req' = req /\ Conditional(s) /\ Alone(s)
    BY AloneBefore DEF Conditional
  <2>2. req[s].ifMatch \in Nat
    BY <2>1, Ops DEF Conditional, Base
  <2>3. \A x \in Requests : mine[x].version \in Nat
    BY DEF Base, Types, TypeOK, UserRow
  <2> QED BY <2>1, <2>2, <2>3, RowType DEF Base
<1>1. CASE answer[s] = "ok"
  <2>1. /\ user # NoUser /\ req[s].ifMatch < user.version
        /\ \A x \in Requests : pc[x] \in Saving => req[s].ifMatch < mine[x].version
    BY <1>0, <1>1 DEF VersionIsPassed
  <2>2. user' # NoUser /\ req[s].ifMatch < user'.version
    <3>1. ASSUME NEW r \in Requests, SaveUpdate(r), user'.version = NextVersion(r)
          PROVE  req[s].ifMatch < user'.version
      <4>1. pc[r] \in Saving
        BY <3>1 DEF SaveUpdate, Saving
      <4>2. NextVersion(r) \in {mine[r].version, user.version + 1}
        BY DEF NextVersion
      <4> QED BY <1>0, <2>1, <3>1, <4>1, <4>2
    <3>2. CASE user' = user
      BY <2>1, <3>2
    <3>3. CASE user'.version = user.version + 1 /\ user' # NoUser
      BY <1>0, <2>1, <3>3
    <3> QED BY <2>1, <3>1, <3>2, <3>3, UserMoves
  <2>3. ASSUME NEW x \in Requests, pc'[x] \in Saving
        PROVE  req[s].ifMatch < mine'[x].version
    BY <2>1, <2>3, InHandMoves
  <2> QED BY <1>0, <2>2, <2>3
<1>2. CASE answer[s] # "ok"
  <2>1. SaveUpdate(s) /\ pc[s] \in Saving /\ user # NoUser
    <3>1. SaveUpdate(s)
      BY <1>0, <1>2, SaveAnswers
    <3> QED BY <3>1 DEF SaveUpdate, Saving, Base, HasUser
  <2>2. user' # NoUser /\ user'.version = user.version + 1 /\ req[s].ifMatch = user.version
    <3>1. /\ mine[s].version = req[s].ifMatch /\ user.version = req[s].ifMatch
          /\ found[s].version = user.version
      BY <1>0, <2>1 DEF VersionInHand, SaveUpdate
    <3>2. NextVersion(s) = user.version + 1
      BY <3>1 DEF NextVersion
    <3> QED BY <2>1, <3>1, <3>2, SaveType DEF Base
  <2>3. ASSUME NEW x \in Requests, pc'[x] \in Saving
        PROVE  FALSE
    <3>1. pc'[s] = "done" /\ \A y \in Requests \ {s} : pc'[y] = pc[y]
      BY <2>1 DEF SaveUpdate, Finish, Goto, Base, Types
    <3>2. x # s /\ pc[x] \in Saving
      BY <2>3, <3>1 DEF Saving
    <3>3. Together(x, s) /\ Changes(x)
      BY <2>1, <3>2, Meets DEF Saving, Base, StagesOfOps, StageOfOp, Saves, Changes
    <3> QED BY <1>0, <3>2, <3>3 DEF Alone
  <2> QED BY <1>0, <2>2, <2>3
<1> QED BY <1>1, <1>2

LEMMA LaterStep ==
    ASSUME Base, Answers, VersionIsPassed, LaterIsRefused, [Next]_vars
    PROVE  LaterIsRefused'
<1>0. \A x \in Requests : answeredBefore[x] \subseteq Requests
  BY DEF Base, Types
<1>1. ASSUME NEW r \in Requests, Arrive(r) \/ Handle(r)
      PROVE  LaterIsRefused'
  <2>1. /\ req' = req
        /\ \A x \in Requests \ {r} : /\ pc'[x] = pc[x] /\ answer'[x] = answer[x]
                                     /\ answeredBefore'[x] = answeredBefore[x]
    BY <1>1, HandleIsLocal DEF Base
  <2>2. ASSUME NEW x \in Requests, NEW s \in answeredBefore'[x],
               Conditional(x), Conditional(s), req[x].ifMatch = req[s].ifMatch,
               Alone(s)', answer'[s] = "ok"
        PROVE  pc'[x] \notin Saving /\ answer'[x] # "ok"
    <3>1. s \in Requests /\ s # r
      BY <1>0, <1>1, <2>1, ArrivesOnce, HandleIsLocal DEF Answers, Base
    <3>2. /\ Alone(s) /\ answer[s] = "ok"
          /\ user # NoUser /\ req[s].ifMatch < user.version
      <4>1. Alone(s) /\ answer[s] = "ok"
        BY <2>1, <2>2, <3>1, AloneBefore
      <4> QED BY <2>2, <3>1, <4>1 DEF VersionIsPassed
    <3>3. CASE x # r
      BY <2>1, <2>2, <3>2, <3>3 DEF LaterIsRefused
    <3>4. CASE x = r
      <4>1. pc[r] \notin Saving
        <5>1. CASE pc[r] = "idle"
          BY <5>1 DEF Saving
        <5>2. CASE pc[r] # "idle"
          <6>1. s \in answeredBefore[r]
            BY <1>1, <2>2, <3>4, <5>2, ArrivesOnce DEF Base
          <6> QED BY <2>2, <3>2, <3>4, <6>1 DEF LaterIsRefused
        <5> QED BY <5>1, <5>2
      <4>2. pc'[r] \notin Saving
        <5>1. CASE FindProfile(r)
          <6>1. req[r].ifMatch # NoTag /\ req[r].ifMatch # user.version
            <7>1. user.version \in Nat /\ req[s].ifMatch \in Nat
              BY <2>2, <3>1, <3>2, Ops, RowType DEF Conditional, Base
            <7> QED BY <2>2, <3>2, <3>4, <7>1 DEF Conditional
          <6> QED BY <5>1, <6>1 DEF FindProfile, OnlyIf, Finish, Goto, Saving, Base, Types
        <5> QED BY <1>1, <4>1, <5>1, MineMoves
      <4>3. answer'[r] # "ok"
        <5>1. Saves(r)
          BY <2>2, <3>4 DEF Conditional, Saves
        <5>2. ~(SaveSelect(r) \/ SaveUpdate(r))
          BY <4>1 DEF SaveSelect, SaveUpdate, Saving
        <5> QED BY <1>1, <5>1, <5>2, MineMoves
      <4> QED BY <3>4, <4>2, <4>3
    <3> QED BY <3>3, <3>4
  <2> QED BY <2>1, <2>2 DEF LaterIsRefused, Conditional
<1>2. CASE \/ \E r \in Requests : Continue(r)
           \/ \E t \in Tokens : Expire(t)
           \/ Crash
           \/ UNCHANGED vars
  <2>1. /\ UNCHANGED <<req, answeredBefore>>
        /\ \A x \in Requests : /\ pc'[x] = pc[x] \/ pc'[x] = "done"
                               /\ answer'[x] = answer[x] \/ answer'[x] = "lost"
    BY <1>2, OthersAreStill DEF Base
  <2>2. \A s \in Requests : Alone(s)' => Alone(s)
    BY AloneBefore
  <2> QED BY <1>0, <2>1, <2>2 DEF LaterIsRefused, Conditional, Saving
<1> QED BY <1>1, <1>2, Steps

THEOREM PatchHolds == Spec => []PatchInv
<1>1. Init => PatchInv
  <2> SUFFICES ASSUME Init PROVE PatchInv
    OBVIOUS
  <2>1. user # NoUser => user.profile.attributes = {}
    BY DEF Init, Row, NewProfile
  <2>2. \A r \in Requests : mine[r].profile.attributes = {}
    BY DEF Init, Row, NewProfile
  <2> QED BY <2>1, <2>2 DEF Init, PatchInv, Answers, AttributesAreSaved, VersionInHand,
             VersionIsPassed, LaterIsRefused, Saving
<1>2. Base /\ PatchInv /\ [Next]_vars /\ Base' => PatchInv'
  BY AnswersStep, AttributesStep, InHandStep, PassedStep, LaterStep DEF PatchInv
<1> QED BY <1>1, <1>2, BaseHolds, PTL DEF Spec

\* If-Match is optimistic concurrency: once a conditional change that no other change of
\* the row met is answered, every later one of that version is refused, although a save
\* of a row read earlier may write an older version back.
THEOREM OneChangeEach == Spec => []OneChangePerVersion
<1>1. PatchInv /\ Base => OneChangePerVersion
  <2> SUFFICES ASSUME PatchInv, NEW r \in Requests, NEW s \in Requests, ChangedAgain(r, s),
                      Alone(s)
               PROVE  FALSE
    BY DEF OneChangePerVersion, Alone
  <2> QED BY DEF PatchInv, LaterIsRefused, ChangedAgain
<1> QED BY <1>1, PatchHolds, BaseHolds, PTL

------------------------------------------------------------------------------
(***************************************************************************)
(* Deletion is final.                                                      *)
(***************************************************************************)
\* Who was under way at a deactivation is never forgotten.
LEMMA OverlapGrows ==
    ASSUME Base, [Next]_vars, ~Overlapped'
    PROVE  /\ req' = req /\ ~Overlapped
           /\ \A r \in Requests : Deactivate(r) => \A x \in Requests : pc[x] \notin Saving
<1>1. overlap \subseteq overlap' /\ req' = req
  <2>1. ASSUME NEW r \in Requests, Arrive(r) \/ Handle(r)
        PROVE  overlap \subseteq overlap'
    BY <2>1 DEF history, Arrive, Handle, FindEmail, InsertUser, Credentials, Issue, IssueSecond,
       Claim, AssertLive, ReadUser, Revoke, Guard, FindProfile, SaveSelect, SaveUpdate,
       FindToDelete, Deactivate, RevokeAll, StartJob
  <2> QED BY <2>1, Steps, HandleIsLocal, OthersAreStill DEF Base
<1>2. ASSUME NEW r \in Requests, Deactivate(r), NEW x \in Requests, pc[x] \in Saving
      PROVE  FALSE
  <2>1. x \in overlap'
    BY <1>2 DEF Deactivate, InFlight, Saving
  <2>2. Saves(x)
    BY <1>2 DEF Saving, Base, StagesOfOps, StageOfOp
  <2> QED BY <1>1, <2>1, <2>2 DEF Overlapped, Saves
<1> QED BY <1>1, <1>2 DEF Overlapped, Saves

\* Nothing but a deactivation changes whether the account is deactivated.
LEMMA DeactivatedMoves ==
    ASSUME Base, InMemoryAgrees, [Next]_vars
    PROVE  \/ user' = user
           \/ user = NoUser
           \/ \E r \in Requests : Deactivate(r) /\ Deactivated'
           \/ /\ user # NoUser /\ user' # NoUser
              /\ user'.profile.deactivated = user.profile.deactivated
<1>0. user # NoUser => user.profile \in Profile
  BY RowType DEF Base
<1>1. ASSUME NEW r \in Requests, user # NoUser, SaveUpdate(r),
             user'.profile = Saved(user.profile, found[r].profile, mine[r].profile)
      PROVE  user'.profile.deactivated = user.profile.deactivated
  <2>1. mine[r].profile.deactivated = user.profile.deactivated
    BY <1>1 DEF SaveUpdate, InMemoryAgrees, Saving
  <2>2. found[r].profile \in Profile /\ mine[r].profile \in Profile
    BY DEF Base, Types, TypeOK, UserRow
  <2> QED BY <1>0, <1>1, <2>1, <2>2, SavedProfile
<1>2. ASSUME user # NoUser, user' # NoUser,
             user'.profile = [user.profile EXCEPT !.deactivated = TRUE]
      PROVE  Deactivated'
  BY <1>0, <1>2 DEF Deactivated, Profile
<1>3. ASSUME user # NoUser, user'.profile = [user.profile EXCEPT !.attributes = {}]
      PROVE  user'.profile.deactivated = user.profile.deactivated
  BY <1>0, <1>3 DEF Profile
<1> QED BY <1>1, <1>2, <1>3, UserMoves

LEMMA DeactivatedStays ==
    ASSUME Base, InMemoryAgrees, [Next]_vars, Deactivated
    PROVE  Deactivated'
BY DeactivatedMoves DEF Deactivated

LEMMA InMemoryStep ==
    ASSUME Base, InMemoryAgrees, [Next]_vars, ~Overlapped'
    PROVE  InMemoryAgrees'
<1> SUFFICES ASSUME NEW x \in Requests, pc'[x] \in Saving
             PROVE  mine'[x].profile.deactivated = user'.profile.deactivated
  BY DEF InMemoryAgrees
<1>1. CASE FindProfile(x)
  <2>1. user' = user /\ mine'[x] = Patched(x) /\ user # NoUser
    BY <1>1 DEF FindProfile, Base, HasUser, Types, TypeOK
  <2>2. Patched(x).profile.deactivated = user.profile.deactivated
    BY <2>1, PatchedRow DEF Base
  <2> QED BY <2>1, <2>2
<1>2. CASE ~FindProfile(x)
  <2>1. pc[x] \in Saving /\ mine'[x] = mine[x]
    <3>1. ASSUME NEW r \in Requests, Arrive(r) \/ Handle(r)
          PROVE  pc[x] \in Saving /\ mine'[x] = mine[x]
      BY <1>2, <3>1, HandleIsLocal, MineMoves DEF Base
    <3> QED BY <3>1, Steps, OthersAreStill DEF Base, Saving
  <2>2. user # NoUser
    BY <2>1 DEF Base, HasUser, Saving
  <2>3. user'.profile.deactivated = user.profile.deactivated
    BY <2>1, <2>2, DeactivatedMoves, OverlapGrows
  <2> QED BY <2>1, <2>3 DEF InMemoryAgrees
<1> QED BY <1>1, <1>2

LEMMA DeletedStep ==
    ASSUME Base, InMemoryAgrees, DeletedIsDeactivated, [Next]_vars
    PROVE  DeletedIsDeactivated'
<1> DEFINE Deletes(x) == \/ pc[x] \in {"revokeAll", "startJob"}
                         \/ stage[x] # "none" \/ jobs[x] # "none"
<1> SUFFICES ASSUME NEW x \in Requests, Deletes(x)' PROVE Deactivated'
  BY DEF DeletedIsDeactivated
<1>1. CASE Deactivate(x)
  <2>1. user # NoUser
    BY <1>1 DEF Deactivate, Base, HasUser, Types
  <2>2. [user.profile EXCEPT !.deactivated = TRUE] \in Profile
    BY <2>1, RowType DEF Base, Profile
  <2>3. user' # NoUser /\ user'.profile = [user.profile EXCEPT !.deactivated = TRUE]
    BY <1>1, <2>1, <2>2, UpdateType DEF Deactivate, Base
  <2>4. user.profile \in Profile
    BY <2>1, RowType DEF Base
  <2> QED BY <2>3, <2>4 DEF Deactivated, Profile
<1>2. CASE ~Deactivate(x)
  <2>1. Deletes(x)
    <3>1. ASSUME Arrive(x) \/ Handle(x)
          PROVE  Deletes(x)
      <4> USE DEF Base, Types, TypeOK, Goto, Finish, OnlyIf
      <4>1. CASE Arrive(x)
        BY <4>1, Ops DEF Arrive, Start, Operations
      <4>2. CASE \/ FindEmail(x) \/ InsertUser(x) \/ Credentials(x) \/ Issue(x) \/ IssueSecond(x)
                 \/ Claim(x) \/ AssertLive(x) \/ ReadUser(x) \/ Revoke(x) \/ Guard(x)
        BY <4>2 DEF FindEmail, InsertUser, Credentials, Issue, IssueSecond, Claim, AssertLive,
                    ReadUser, Revoke, Guard
      <4>3. CASE FindProfile(x) \/ SaveSelect(x) \/ SaveUpdate(x) \/ FindToDelete(x)
        BY <4>3 DEF FindProfile, SaveSelect, SaveUpdate, FindToDelete
      <4>4. CASE RevokeAll(x) \/ StartJob(x)
        BY <4>4 DEF RevokeAll, StartJob
      <4> QED BY <1>2, <3>1, <4>1, <4>2, <4>3, <4>4 DEF Handle
    <3>2. ASSUME NEW r \in Requests \ {x}, Arrive(r) \/ Handle(r)
          PROVE  Deletes(x)
      BY <3>2, HandleIsLocal DEF Base
    <3>3. ASSUME NEW r \in Requests, Continue(r)
          PROVE  Deletes(x)
      BY <3>3 DEF Continue, Wipe, SecondSweep, Complete, handlers, Base, Types
    <3>4. CASE Crash
      BY <3>4 DEF Crash
    <3>5. CASE (\E t \in Tokens : Expire(t)) \/ UNCHANGED vars
      BY <3>5 DEF Expire, vars, handlers
    <3> QED BY <3>1, <3>2, <3>3, <3>4, <3>5, Steps
  <2> QED BY <2>1, DeactivatedStays DEF DeletedIsDeactivated
<1> QED BY <1>1, <1>2

\* Whoever comes to a deactivated account is turned away where its operation checks.
Inside == {"insertUser", "issue", "issueSecond", "deactivate", "revokeAll", "startJob"}

LEMMA TurnedAway ==
    ASSUME Base, NEW r \in Requests, Deactivated, Arrive(r) \/ Handle(r),
           pc[r] \notin Inside, answer[r] \notin {"granted", "accepted"}
    PROVE  pc'[r] \notin Inside /\ answer'[r] \notin {"granted", "accepted"}
<1> USE DEF Base, Types, TypeOK, Goto, Finish, OnlyIf, Deactivated, Active, Inside
<1>1. CASE Arrive(r)
  BY <1>1, Ops DEF Arrive, Start, Operations
<1>2. CASE FindEmail(r) \/ InsertUser(r) \/ Credentials(r) \/ Issue(r) \/ IssueSecond(r)
  BY <1>2 DEF FindEmail, InsertUser, Credentials, Issue, IssueSecond
<1>3. CASE Claim(r) \/ AssertLive(r) \/ ReadUser(r) \/ Revoke(r) \/ Guard(r)
  BY <1>3 DEF Claim, AssertLive, ReadUser, Revoke, Guard
<1>4. CASE FindProfile(r) \/ SaveSelect(r) \/ SaveUpdate(r)
  BY <1>4 DEF FindProfile, SaveSelect, SaveUpdate
<1>5. CASE FindToDelete(r) \/ Deactivate(r) \/ RevokeAll(r) \/ StartJob(r)
  BY <1>5 DEF FindToDelete, Deactivate, RevokeAll, StartJob
<1> QED BY <1>1, <1>2, <1>3, <1>4, <1>5 DEF Handle

\* Who comes, and whether late.
LEMMA LateMoves ==
    ASSUME Base, NEW r \in Requests, Arrive(r) \/ Handle(r)
    PROVE  \/ late' = late /\ (pc[r] = "idle" => ~Deactivated)
           \/ late' = late \cup {r} /\ Deactivated /\ pc[r] = "idle"
<1>1. CASE Arrive(r)
  BY <1>1 DEF Arrive, Active, Deactivated, Base, Types, TypeOK, UserRow
<1>2. CASE Handle(r)
  BY <1>2 DEF history, Handle, FindEmail, InsertUser, Credentials, Issue, IssueSecond, Claim,
     AssertLive, ReadUser, Revoke, Guard, FindProfile, SaveSelect, SaveUpdate,
     FindToDelete, Deactivate, RevokeAll, StartJob
<1> QED BY <1>1, <1>2

LEMMA LateStep ==
    ASSUME Base, InMemoryAgrees, LateIsRefused, [Next]_vars
    PROVE  LateIsRefused'
<1> USE DEF Inside
<1>1. ASSUME NEW r \in Requests, Arrive(r) \/ Handle(r)
      PROVE  LateIsRefused'
  <2>1. /\ pc'[r] # "idle"
        /\ \A x \in Requests \ {r} : pc'[x] = pc[x] /\ answer'[x] = answer[x]
    BY <1>1, HandleIsLocal DEF Base
  <2>2. ASSUME NEW x \in late'
        PROVE  /\ Deactivated'
               /\ pc'[x] \notin Inside \cup {"idle"}
               /\ answer'[x] \notin {"granted", "accepted"}
    <3>1. /\ x \in Requests /\ Deactivated
          /\ \/ x \in late
             \/ x = r /\ pc[r] = "idle"
      BY <1>1, <2>2, LateMoves DEF LateIsRefused, Base, Types
    <3>2. Deactivated'
      BY <3>1, DeactivatedStays
    <3>3. CASE x = r
      <4>1. pc[r] \notin Inside /\ answer[r] \notin {"granted", "accepted"}
        <5>1. CASE x \in late
          BY <3>3, <5>1 DEF LateIsRefused
        <5>2. CASE pc[r] = "idle"
          BY <5>2 DEF Base, StagesOfOps, StageOfOp
        <5> QED BY <3>1, <5>1, <5>2
      <4> QED BY <1>1, <2>1, <3>1, <3>2, <3>3, <4>1, TurnedAway
    <3>4. CASE x # r
      BY <2>1, <3>1, <3>2, <3>4 DEF LateIsRefused
    <3> QED BY <3>3, <3>4
  <2> QED BY <2>2 DEF LateIsRefused
<1>2. CASE \/ \E r \in Requests : Continue(r)
           \/ \E t \in Tokens : Expire(t)
           \/ Crash
           \/ UNCHANGED vars
  <2>1. /\ late' = late /\ late \subseteq Requests
        /\ \A x \in Requests :
              \/ pc'[x] = pc[x] /\ answer'[x] = answer[x]
              \/ pc'[x] = "done" /\ answer'[x] = "lost"
    BY <1>2, OthersAreStill DEF Base, Types
  <2> QED BY <2>1, DeactivatedStays DEF LateIsRefused
<1> QED BY <1>1, <1>2, Steps

LEMMA SweptStep ==
    ASSUME Base, InMemoryAgrees, DeletedIsDeactivated, LateIsRefused, SweptIsSwept, [Next]_vars
    PROVE  SweptIsSwept'
<1>1. ASSUME NEW r \in Requests, SecondSweep(r)
      PROVE  SweptIsSwept'
  BY <1>1 DEF SecondSweep, SweptIsSwept, InFlight, handlers
<1>2. ASSUME NEW r \in Requests, Arrive(r) \/ Handle(r)
      PROVE  SweptIsSwept'
  <2>1. unswept' = unswept /\ (Swept' => Swept)
    <3>1. unswept' = unswept
      BY <1>2 DEF history, Arrive, Handle, FindEmail, InsertUser, Credentials, Issue,
         IssueSecond, Claim, AssertLive, ReadUser, Revoke, Guard, FindProfile, SaveSelect,
         SaveUpdate, FindToDelete, Deactivate, RevokeAll, StartJob
    <3>2. CASE StartJob(r)
      BY <3>1, <3>2 DEF StartJob, Swept, Base, Types
    <3>3. CASE ~StartJob(r)
      <4>1. stage' = stage /\ jobs' = jobs
        BY <1>2, <3>3 DEF Arrive, Handle, FindEmail, InsertUser, Credentials, Issue,
           IssueSecond, Claim, AssertLive, ReadUser, Revoke, Guard, FindProfile, SaveSelect,
           SaveUpdate, FindToDelete, Deactivate, RevokeAll
      <4> QED BY <3>1, <4>1 DEF Swept
    <3> QED BY <3>1, <3>2, <3>3
  <2>2. CASE ~Swept
    BY <2>1, <2>2 DEF SweptIsSwept
  <2>3. CASE Swept
    <3>1. Deactivated
      BY <2>3 DEF Swept, DeletedIsDeactivated
    <3>2. /\ late \subseteq late'
          /\ pc[r] = "idle" => r \in late'
          /\ pc[r] # "idle" /\ pc[r] # "done" => r \in unswept \cup late
      BY <1>2, <2>3, <3>1, LateMoves DEF SweptIsSwept, InFlight
    <3>3. /\ pc[r] # "done"
          /\ \A x \in Requests \ {r} : pc'[x] = pc[x]
      BY <1>2, HandleIsLocal DEF Base
    <3>4. InFlight' \subseteq unswept' \cup late'
      BY <2>1, <2>3, <3>2, <3>3 DEF SweptIsSwept, InFlight
    <3>5. \A t \in live' : t[1] \in unswept'
      <4>1. CASE Issue(r) \/ IssueSecond(r)
        <5>1. r \in unswept
          <6>1. pc[r] \in {"issue", "issueSecond"}
            BY <4>1 DEF Issue, IssueSecond
          <6>2. r \notin late
            BY <6>1 DEF LateIsRefused
          <6> QED BY <3>2, <6>1, <6>2
        <5>2. \E f : live' = live \cup {<<r, f>>}
          BY <4>1 DEF Issue, IssueSecond, IssueRecord
        <5> QED BY <2>1, <2>3, <5>1, <5>2 DEF SweptIsSwept
      <4>2. CASE ~(Issue(r) \/ IssueSecond(r))
        <5>1. live' \subseteq live
          BY <1>2, <4>2 DEF Arrive, Handle, FindEmail, InsertUser, Credentials, Claim,
             AssertLive, ReadUser, Revoke, Guard, FindProfile, SaveSelect, SaveUpdate,
             FindToDelete, Deactivate, RevokeAll, StartJob
        <5> QED BY <2>1, <2>3, <5>1 DEF SweptIsSwept
      <4> QED BY <4>1, <4>2
    <3> QED BY <3>4, <3>5 DEF SweptIsSwept
  <2> QED BY <2>2, <2>3
<1>3. CASE \/ \E r \in Requests : Wipe(r) \/ Complete(r)
           \/ \E t \in Tokens : Expire(t)
           \/ Crash
           \/ UNCHANGED vars
  <2>1. /\ unswept' = unswept /\ late' = late /\ live' \subseteq live
        /\ Swept' => Swept
        /\ InFlight' \subseteq InFlight
    <3> USE DEF handlers, history, Base, Types
    <3>1. CASE \E r \in Requests : Wipe(r) \/ Complete(r)
      BY <3>1 DEF Wipe, Complete, Swept, InFlight
    <3>2. CASE Crash
      BY <3>2 DEF Crash, Swept, InFlight
    <3>3. CASE (\E t \in Tokens : Expire(t)) \/ UNCHANGED vars
      BY <3>3 DEF Expire, vars, Swept, InFlight
    <3> QED BY <1>3, <3>1, <3>2, <3>3
  <2> QED BY <2>1 DEF SweptIsSwept
<1> QED BY <1>1, <1>2, <1>3, Steps DEF Continue

THEOREM DeletionHolds == Spec => []DeletionInv
<1>1. Init => DeletionInv
  BY DEF Init, DeletionInv, InMemoryAgrees, DeletedIsDeactivated, LateIsRefused, SweptIsSwept,
         Swept, Saving
<1>2. Base /\ DeletionInv /\ [Next]_vars => DeletionInv'
  <2> SUFFICES ASSUME Base, DeletionInv, [Next]_vars, ~Overlapped'
               PROVE  (InMemoryAgrees /\ DeletedIsDeactivated /\ LateIsRefused /\ SweptIsSwept)'
    BY DEF DeletionInv
  <2>1. InMemoryAgrees /\ DeletedIsDeactivated /\ LateIsRefused /\ SweptIsSwept
    BY OverlapGrows DEF DeletionInv
  <2> QED BY <2>1, InMemoryStep, DeletedStep, LateStep, SweptStep
<1> QED BY <1>1, <1>2, BaseHolds, PTL DEF Spec

\* A deleted account is refused and holds no tokens but those of requests that were under
\* way at the last sweep, unless a profile save was under way at the deactivation.
THEOREM DeletedForGood == Spec => []DeletionIsFinal
<1>1. DeletionInv => DeletionIsFinal
  <2> SUFFICES ASSUME DeletionInv PROVE DeletionIsFinal
    OBVIOUS
  <2>1. DeactivationHolds
    BY DEF DeactivationHolds, DeletionInv, Overlapped, LateIsRefused
  <2>2. OnlyStragglersHoldTokens
    BY DEF OnlyStragglersHoldTokens, DeletionInv, Overlapped, SweptIsSwept, Swept
  <2> QED BY <2>1, <2>2 DEF DeletionIsFinal
<1> QED BY <1>1, DeletionHolds, PTL
=============================================================================
