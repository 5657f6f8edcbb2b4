------------------------------ MODULE Account ------------------------------
(***************************************************************************)
(* One account: registration, login, token rotation and revocation         *)
(* (AuthService, TokenRecordsService), profile changes (UsersService,      *)
(* AdminUsersService) and its deletion (JobsService.startAccountDeletion). *)
(* Requests interleave at every awaited statement; the deletion goes on in *)
(* a continuation that exists only in memory.                              *)
(***************************************************************************)
EXTENDS EntitySave, Integers, FiniteSets

CONSTANTS
    Requests,
    Seed,           \* the session that exists when the model starts
    Bodies,         \* requests that may be sent
    NoUser, NoTag, NoToken,
    MaxCrashes      \* bound: process deaths

Operations == {"register", "login", "sessionLogin", "refresh", "sessionRefresh",
               "use", "logout", "patch", "setRole", "delete"}
Body == [op : Operations, ifMatch : Nat \cup {NoTag}]

\* token_records, one per request and family; access tokens have none.
Families == {"refresh", "session", "session_refresh"}
Tokens == (Requests \cup {Seed}) \X Families

\* What a request presents.
Presents == [refresh |-> {"refresh"}, sessionRefresh |-> {"session_refresh"},
             use |-> {"session"}, logout |-> Families]

Profile == [deactivated : BOOLEAN, attributes : SUBSET Requests,
            role : {"user", "agent"}]

UserRow == [profile : Profile, version : Nat \ {0}]

ASSUME AccountAssumption ==
    /\ Bodies \subseteq Body
    /\ Seed \notin Requests
    /\ NoTag \notin Nat /\ NoToken \notin Tokens /\ NoUser \notin UserRow
    /\ MaxCrashes \in Nat

VARIABLES
    user,           \* the users row: profile and version
    registered,     \* requests that inserted it
    issued, live,   \* token records; those neither revoked nor expired
    jobs,           \* deletion jobs, [Requests -> status]
    req, token, pc, answer,
    mine, found,    \* the row in memory, and as save selected it
    stage,          \* continuations of deletions
    late,           \* history: requests that came to a deactivated account
    answeredBefore, \* history: requests over when a request came
    overlap,        \* history: requests in flight at a deactivation,
    unswept,        \*   and at the last second sweep of a deletion
    crashes

handlers == <<req, token, pc, answer, mine, found>>
history == <<late, answeredBefore, overlap, unswept>>
vars == <<user, registered, issued, live, jobs, handlers, stage, history, crashes>>

NewProfile == [deactivated |-> FALSE, attributes |-> {}, role |-> "user"]
Row(profile, version) == [profile |-> profile, version |-> version]

Init ==
    /\ \/ user = NoUser /\ issued = {}
       \/ user = Row(NewProfile, 1) /\ issued = {Seed} \X Families
    /\ registered = {}
    /\ live = issued
    /\ jobs = [r \in Requests |-> "none"]
    /\ req \in [Requests -> Bodies]
    /\ token = [r \in Requests |-> NoToken]
    /\ pc = [r \in Requests |-> "idle"]
    /\ answer = [r \in Requests |-> "none"]
    /\ mine = [r \in Requests |-> Row(NewProfile, 1)]
    /\ found = [r \in Requests |-> Row(NewProfile, 1)]
    /\ stage = [r \in Requests |-> "none"]
    /\ late = {} /\ overlap = {} /\ unswept = {}
    /\ answeredBefore = [r \in Requests |-> {}]
    /\ crashes = 0

Active == user # NoUser /\ ~user.profile.deactivated
InFlight == {r \in Requests : pc[r] \notin {"idle", "done"}}

Goto(r, to) == pc' = [pc EXCEPT ![r] = to]
Finish(r, a) == Goto(r, "done") /\ answer' = [answer EXCEPT ![r] = a]
OnlyIf(r, cond, to, a) == IF cond THEN Goto(r, to) /\ UNCHANGED answer ELSE Finish(r, a)

Held(families) == {t \in issued : t[2] \in families /\ (t[1] = Seed \/ pc[t[1]] = "done")}

\* An UPDATE that does not name the version column bumps it.
Update(profile) == user' = Row(profile, user.version + 1)

Start == [register |-> "findEmail", login |-> "credentials", sessionLogin |-> "credentials",
          refresh |-> "claim", sessionRefresh |-> "assertLive", use |-> "assertLive",
          logout |-> "revoke", patch |-> "guard", setRole |-> "findProfile",
          delete |-> "guard"]

\* Answered, and with no change of the row to come.
Over(r) == pc[r] = "done" /\ stage[r] # "wipe"

Arrive(r) ==
    /\ pc[r] = "idle"
    /\ \/ /\ req[r].op \in DOMAIN Presents
          /\ \E t \in Held(Presents[req[r].op]) : token' = [token EXCEPT ![r] = t]
       \/ /\ req[r].op \notin DOMAIN Presents
          /\ req[r].op = "register" \/ user # NoUser
          /\ UNCHANGED token
    /\ Goto(r, Start[req[r].op])
    /\ late' = IF user # NoUser /\ ~Active THEN late \cup {r} ELSE late
    /\ answeredBefore' = [answeredBefore EXCEPT ![r] = {s \in Requests : Over(s)}]
    /\ UNCHANGED <<user, registered, issued, live, jobs, req, answer, mine, found, stage,
                   overlap, unswept, crashes>>

------------------------------------------------------------------------------
(***************************************************************************)
(* Registration and login.                                                 *)
(***************************************************************************)
FindEmail(r) ==
    /\ pc[r] = "findEmail"
    /\ OnlyIf(r, user = NoUser, "insertUser", "conflict")
    /\ UNCHANGED <<user, registered, issued, live, jobs, req, token, mine, found, stage,
                   history, crashes>>

InsertUser(r) ==
    /\ pc[r] = "insertUser"
    /\ IF user = NoUser
       THEN /\ user' = Row(NewProfile, 1)
            /\ registered' = registered \cup {r}
            /\ Goto(r, "issue") /\ UNCHANGED answer
       ELSE Finish(r, "conflict") /\ UNCHANGED <<user, registered>>
    /\ UNCHANGED <<issued, live, jobs, req, token, mine, found, stage, history, crashes>>

\* validateCredentials: whether the account is active is known from this read,
\* however long comparing the password takes.
Credentials(r) ==
    /\ pc[r] = "credentials"
    /\ OnlyIf(r, Active, "issue", "unauthorized")
    /\ UNCHANGED <<user, registered, issued, live, jobs, req, token, mine, found, stage,
                   history, crashes>>

IssueRecord(r, family) ==
    /\ issued' = issued \cup {<<r, family>>}
    /\ live' = live \cup {<<r, family>>}

Issue(r) ==
    /\ pc[r] = "issue"
    /\ IssueRecord(r, IF req[r].op \in {"sessionLogin", "sessionRefresh"}
                      THEN "session" ELSE "refresh")
    /\ OnlyIf(r, req[r].op = "sessionLogin", "issueSecond", "granted")
    /\ UNCHANGED <<user, registered, jobs, req, token, mine, found, stage, history, crashes>>

IssueSecond(r) ==
    /\ pc[r] = "issueSecond"
    /\ IssueRecord(r, "session_refresh")
    /\ Finish(r, "granted")
    /\ UNCHANGED <<user, registered, jobs, req, token, mine, found, stage, history, crashes>>

------------------------------------------------------------------------------
(***************************************************************************)
(* Tokens.                                                                 *)
(***************************************************************************)
\* Mutant: assertLive now, revoke later: not one statement.
ClaimWithoutRevoking(r) ==
    /\ pc[r] = "claim"
    /\ OnlyIf(r, token[r] \in live, "readUser", "unauthorized")
    /\ UNCHANGED <<user, registered, issued, live, jobs, req, token, mine, found, stage,
                   history, crashes>>

\* claimForRotation: one conditional UPDATE.
Claim(r) ==
    /\ pc[r] = "claim"
    /\ live' = live \ {token[r]}
    /\ OnlyIf(r, token[r] \in live, "readUser", "unauthorized")
    /\ UNCHANGED <<user, registered, issued, jobs, req, token, mine, found, stage,
                   history, crashes>>

AssertLive(r) ==
    /\ pc[r] = "assertLive"
    /\ OnlyIf(r, token[r] \in live, "readUser", "unauthorized")
    /\ UNCHANGED <<user, registered, issued, live, jobs, req, token, mine, found, stage,
                   history, crashes>>

\* The check of refresh and sessionRefresh, and assertActive of the guards.
ReadUser(r) ==
    /\ pc[r] = "readUser"
    /\ IF req[r].op = "use" /\ Active THEN Finish(r, "granted")
       ELSE OnlyIf(r, Active, "issue", "unauthorized")
    /\ UNCHANGED <<user, registered, issued, live, jobs, req, token, mine, found, stage,
                   history, crashes>>

Revoke(r) ==
    /\ pc[r] = "revoke"
    /\ live' = live \ {token[r]}
    /\ Finish(r, "ok")
    /\ UNCHANGED <<user, registered, issued, jobs, req, token, mine, found, stage,
                   history, crashes>>

Expire(t) ==
    /\ t \in live
    /\ live' = live \ {t}
    /\ UNCHANGED <<user, registered, issued, jobs, handlers, stage, history, crashes>>

------------------------------------------------------------------------------
(***************************************************************************)
(* Profile changes: read, change in memory, save.                          *)
(***************************************************************************)
Guard(r) ==
    /\ pc[r] = "guard"
    /\ OnlyIf(r, Active, "findProfile", "unauthorized")
    /\ UNCHANGED <<user, registered, issued, live, jobs, req, token, mine, found, stage,
                   history, crashes>>

Patched(r) ==
    IF req[r].op = "patch" THEN [user EXCEPT !.profile.attributes = @ \cup {r}]
                           ELSE [user EXCEPT !.profile.role = "agent"]

\* Mutant: If-Match is not looked at.
FindAnyVersion(r) ==
    /\ pc[r] = "findProfile" /\ req[r].op # "delete"
    /\ mine' = [mine EXCEPT ![r] = Patched(r)]
    /\ Goto(r, "saveSelect")
    /\ UNCHANGED <<user, registered, issued, live, jobs, req, token, answer, found, stage,
                   history, crashes>>

\* The account may have been deactivated since the guard; nobody looks again.
FindProfile(r) ==
    /\ pc[r] = "findProfile" /\ req[r].op # "delete"
    /\ mine' = [mine EXCEPT ![r] = Patched(r)]
    /\ OnlyIf(r, req[r].ifMatch \in {NoTag, user.version}, "saveSelect", "preconditionFailed")
    /\ UNCHANGED <<user, registered, issued, live, jobs, req, token, found, stage,
                   history, crashes>>

SaveSelect(r) ==
    /\ pc[r] = "saveSelect"
    /\ found' = [found EXCEPT ![r] = user]
    /\ IF mine[r] = user THEN Finish(r, "ok")
       ELSE Goto(r, "saveUpdate") /\ UNCHANGED answer
    /\ UNCHANGED <<user, registered, issued, live, jobs, req, token, mine, stage,
                   history, crashes>>

\* The version is a column like the others: a save whose row was read at another
\* version than it now finds writes the old one back, and only otherwise bumps it.
NextVersion(r) ==
    IF mine[r].version # found[r].version THEN mine[r].version ELSE user.version + 1

SaveUpdate(r) ==
    /\ pc[r] = "saveUpdate"
    /\ user' = Row(Saved(user.profile, found[r].profile, mine[r].profile), NextVersion(r))
    /\ Finish(r, "ok")
    /\ UNCHANGED <<registered, issued, live, jobs, req, token, mine, found, stage,
                   history, crashes>>

------------------------------------------------------------------------------
(***************************************************************************)
(* Deletion.                                                               *)
(***************************************************************************)
FindToDelete(r) ==
    /\ pc[r] = "findProfile" /\ req[r].op = "delete"
    /\ OnlyIf(r, Active, "deactivate", "conflict")
    /\ UNCHANGED <<user, registered, issued, live, jobs, req, token, mine, found, stage,
                   history, crashes>>

Deactivate(r) ==
    /\ pc[r] = "deactivate"
    /\ Update([user.profile EXCEPT !.deactivated = TRUE])
    /\ overlap' = overlap \cup InFlight
    /\ Goto(r, "revokeAll")
    /\ UNCHANGED <<registered, issued, live, jobs, req, token, answer, mine, found, stage,
                   late, answeredBefore, unswept, crashes>>

RevokeAll(r) ==
    /\ pc[r] = "revokeAll"
    /\ live' = {}
    /\ Goto(r, "startJob")
    /\ UNCHANGED <<user, registered, issued, jobs, req, token, answer, mine, found, stage,
                   history, crashes>>

\* The job is inserted and marked processing; the 202 is sent, the rest follows.
StartJob(r) ==
    /\ pc[r] = "startJob"
    /\ jobs' = [jobs EXCEPT ![r] = "processing"]
    /\ stage' = [stage EXCEPT ![r] = "wipe"]
    /\ Finish(r, "accepted")
    /\ UNCHANGED <<user, registered, issued, live, req, token, mine, found, history, crashes>>

Wipe(r) ==
    /\ stage[r] = "wipe"
    /\ Update([user.profile EXCEPT !.attributes = {}])
    /\ stage' = [stage EXCEPT ![r] = "sweep"]
    /\ UNCHANGED <<registered, issued, live, jobs, handlers, history, crashes>>

\* Mutant: one revocation is thought to be enough.
SkipSecondSweep(r) ==
    /\ stage[r] = "sweep"
    /\ unswept' = InFlight
    /\ stage' = [stage EXCEPT ![r] = "complete"]
    /\ UNCHANGED <<user, registered, issued, live, jobs, handlers, late, answeredBefore,
                   overlap, crashes>>

SecondSweep(r) ==
    /\ stage[r] = "sweep"
    /\ live' = {}
    /\ unswept' = InFlight
    /\ stage' = [stage EXCEPT ![r] = "complete"]
    /\ UNCHANGED <<user, registered, issued, jobs, handlers, late, answeredBefore,
                   overlap, crashes>>

Complete(r) ==
    /\ stage[r] = "complete"
    /\ jobs' = [jobs EXCEPT ![r] = "completed"]
    /\ stage' = [stage EXCEPT ![r] = "none"]
    /\ UNCHANGED <<user, registered, issued, live, handlers, history, crashes>>

Crash ==
    /\ crashes < MaxCrashes
    /\ crashes' = crashes + 1
    /\ pc' = [r \in Requests |-> IF r \in InFlight THEN "done" ELSE pc[r]]
    /\ answer' = [r \in Requests |-> IF r \in InFlight THEN "lost" ELSE answer[r]]
    /\ stage' = [r \in Requests |-> "none"]
    /\ UNCHANGED <<user, registered, issued, live, jobs, req, token, mine, found, history>>

Handle(r) ==
    \/ FindEmail(r) \/ InsertUser(r) \/ Credentials(r) \/ Issue(r) \/ IssueSecond(r)
    \/ Claim(r) \/ AssertLive(r) \/ ReadUser(r) \/ Revoke(r)
    \/ Guard(r) \/ FindProfile(r) \/ SaveSelect(r) \/ SaveUpdate(r)
    \/ FindToDelete(r) \/ Deactivate(r) \/ RevokeAll(r) \/ StartJob(r)

Next ==
    \/ \E r \in Requests :
          Arrive(r) \/ Handle(r) \/ Wipe(r) \/ SecondSweep(r) \/ Complete(r)
    \/ \E t \in Tokens : Expire(t)
    \/ Crash

Spec == Init /\ [][Next]_vars

------------------------------------------------------------------------------
(***************************************************************************)
(* Properties.                                                             *)
(***************************************************************************)
\* Every variable has its type.
TypeOK ==
    /\ user \in UserRow \cup {NoUser}
    /\ live \subseteq issued /\ issued \subseteq Tokens
    /\ user = NoUser => issued = {} /\ registered = {}
    /\ req \in [Requests -> Bodies]
    /\ mine \in [Requests -> UserRow] /\ found \in [Requests -> UserRow]
    /\ answer \in [Requests -> {"none", "granted", "ok", "accepted", "conflict", "lost",
                                "unauthorized", "preconditionFailed"}]

Granted(r) == answer[r] = "granted"
Saves(r) == req[r].op \in {"patch", "setRole"}

\* Of concurrent registrations of one email exactly one is granted, whatever the
\* pre-check of each saw; the others are told of the conflict.
OneRegistration ==
    /\ Cardinality(registered) <= 1
    /\ \A r \in Requests : req[r].op = "register" /\ Granted(r) => r \in registered

\* A refresh token has one successor, however many requests present it at once.
RotatesOnce ==
    \A r, s \in Requests :
        /\ req[r].op = "refresh" /\ Granted(r)
        /\ req[s].op = "refresh" /\ Granted(s)
        /\ token[r] = token[s]
        => r = s

\* "Logout actually invalidates": a token logged out or rotated is worth nothing
\* to any request that comes after the answer.
SpentTokenIsRefused ==
    \A r \in Requests : \A s \in answeredBefore[r] :
        /\ token[r] # NoToken /\ token[s] = token[r]
        /\ \/ req[s].op = "logout" /\ answer[s] = "ok"
           \/ req[s].op = "refresh" /\ Granted(s)
        => ~Granted(r)

Conditional(r) == req[r].op = "patch" /\ req[r].ifMatch # NoTag
Changes(r) == req[r].op \in {"patch", "setRole", "delete"}

\* Two requests that came were under way at one time.
Together(r, s) ==
    /\ pc[r] # "idle" /\ pc[s] # "idle"
    /\ r \notin answeredBefore[s] /\ s \notin answeredBefore[r]

\* s and, after it, r changed one version.
ChangedAgain(r, s) ==
    /\ Conditional(r) /\ answer[r] = "ok"
    /\ Conditional(s) /\ answer[s] = "ok"
    /\ s \in answeredBefore[r] /\ req[r].ifMatch = req[s].ifMatch

\* If-Match is optimistic concurrency: a conditional change uses its version up for
\* every later one, whatever runs beside those, unless another change of the row was
\* under way together with it: that one's save may write the version back.
OneChangePerVersion ==
    \A r, s \in Requests :
        ChangedAgain(r, s) => \E x \in Requests \ {s} : Changes(x) /\ Together(x, s)

\* Deletion "blocks re-auth": whoever comes to the deactivated account is refused,
\* crashes included, unless a profile save was under way at the deactivation.
DeactivationHolds ==
    \A r \in late :
        answer[r] \in {"granted", "accepted"} => \E s \in overlap : Saves(s)

\* The second sweep "catches any token record minted in the race window": once the
\* job is completed, a token that is still live was minted by a request that was
\* under way at that sweep.
OnlyStragglersHoldTokens ==
    (\E r \in Requests : jobs[r] = "completed") /\ ~(\E s \in overlap : Saves(s)) =>
        \A t \in live : t[1] \in unswept

------------------------------------------------------------------------------
(***************************************************************************)
(* What texts of the repository say and concurrent requests break: not     *)
(* invariants of this model.  The README tells what happens.               *)
(***************************************************************************)
\* "The original writer's now-stale ETag is rejected": to any later request.
StaleTagIsRefused == \A r, s \in Requests : ~ChangedAgain(r, s)

\* deactivatedAt "blocks re-auth immediately": without exception.
ReauthIsBlocked == \A r \in late : ~Granted(r)

\* If-Match is optimistic concurrency: of two conditional changes of one version,
\* one fails; an attribute set with a 200 is there until the account is wiped.
ConditionalPatchKept ==
    \A r \in Requests :
        /\ req[r].op = "patch" /\ req[r].ifMatch # NoTag /\ answer[r] = "ok"
        /\ ~\E s \in Requests : jobs[s] # "none" \/ (req[s].op = "patch" /\ req[s].ifMatch = NoTag)
        => r \in user.profile.attributes

\* What may be used once is granted once: an email, a refresh token.
OnceOnly == OneRegistration /\ RotatesOnce /\ SpentTokenIsRefused

\* A deleted account is refused and holds no tokens, whoever was under way meanwhile.
DeletionIsFinal == DeactivationHolds /\ OnlyStragglersHoldTokens
=============================================================================
