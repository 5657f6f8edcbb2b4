-------------------------------- MODULE Orgs --------------------------------
(***************************************************************************)
(* Organisations: memberships managed by the platform's admins             *)
(* (OrgsService), and what orders, tickets and coupons make of the one     *)
(* they find for a caller (OrdersService, TicketsService, CouponsService). *)
(* Every read of a membership is a statement of its own: it may change     *)
(* before the statement that acts on it, and between two reads of one      *)
(* request.  Redemption limits are the matter of Checkout.                 *)
(***************************************************************************)
EXTENDS Naturals, FiniteSets

CONSTANTS
    Requests,
    Users,
    Admins, Agents,     \* the users whose system role is ADMIN, AGENT
    Orgs, NoOrg,
    Codes, NoCode,      \* coupon codes
    Bodies,             \* requests that may be sent
    Seeds,              \* ids of the rows the model starts with
    InitialMembers, InitialDocs, InitialCoupons,
    NoRow, NoAnswer

Roles == {"owner", "admin", "member"}
Managing == {"addMember", "setRole", "removeMember"}
Placing == {"place", "submit"}      \* an order, a ticket
Operations == Managing \cup Placing \cup {"read", "listOrders", "createCoupon", "listCoupons"}

\* user: the caller, or whom addMember adds.
Body == [op : Operations, user : Users, org : Orgs \cup {NoOrg}, role : Roles,
         code : Codes \cup {NoCode}]

Ids == Requests \cup Seeds
Membership == [id : Ids, org : Orgs, user : Users, role : Roles]
Doc == [id : Ids, kind : {"order", "ticket"}, user : Users, org : Orgs \cup {NoOrg},
        code : Codes \cup {NoCode}]
Coupon == [code : Codes, org : Orgs \cup {NoOrg}, by : Ids]

Answers == {"ok", "conflict", "notFound", "error", "badCoupon", "granted", "forbidden"}

\* The unique constraints of org_memberships and coupons.
OnePerOrgAndUser(rows) == \A m, n \in rows : m.org = n.org /\ m.user = n.user => m = n
OnePerCode(rows) == \A c, d \in rows : c.code = d.code => c = d

\* The org is in the path of what manages its members, and a coupon to create has a code.
\* The rows of the start keep the constraints and have ids of their own, as every
\* generated id is.
ASSUME OrgsAssumption ==
    /\ Admins \subseteq Users /\ Agents \subseteq Users \ Admins
    /\ Bodies \subseteq Body
    /\ \A b \in Bodies : (b.op \in Managing => b.org \in Orgs)
                       /\ (b.op = "createCoupon" => b.code \in Codes)
                       /\ (b.op = "submit" => b.code = NoCode)
    /\ Seeds \cap Requests = {}
    /\ NoOrg \notin Orgs /\ NoCode \notin Codes
    /\ NoRow \notin Membership \cup Doc /\ NoAnswer \notin Answers
    /\ InitialMembers \subseteq Membership /\ OnePerOrgAndUser(InitialMembers)
    /\ InitialDocs \subseteq Doc /\ \A d, e \in InitialDocs : d.id = e.id => d = e
    /\ InitialCoupons \subseteq Coupon /\ OnePerCode(InitialCoupons)
    /\ \A row \in InitialMembers \cup InitialDocs : row.id \in Seeds
    /\ \A c \in InitialCoupons : c.by \in Seeds

VARIABLES
    members,        \* org_memberships
    docs,           \* orders and tickets, with the org denormalised into them
    coupons,
    req, pc, answer,
    caller,         \* the membership in the handler's hands
    subject,        \* the order or ticket it was asked for
    shown,          \* ids of the rows in its answer
    held,           \* history: what the caller's memberships were while it ran
    before          \* history: requests answered when it came

tables == <<members, docs, coupons>>
local == <<req, caller, subject, shown>>
history == <<held, before>>
vars == <<tables, pc, answer, local, history>>

Init ==
    /\ members = InitialMembers
    /\ docs = InitialDocs
    /\ coupons = InitialCoupons
    /\ req \in [Requests -> Bodies]
    /\ pc = [r \in Requests |-> "idle"]
    /\ answer = [r \in Requests |-> NoAnswer]
    /\ caller = [r \in Requests |-> NoRow]
    /\ subject = [r \in Requests |-> NoRow]
    /\ shown = [r \in Requests |-> {}]
    /\ held = [r \in Requests |-> {}]
    /\ before = [r \in Requests |-> {}]

Goto(r, to) == pc' = [pc EXCEPT ![r] = to] /\ UNCHANGED answer
Finish(r, a) == pc' = [pc EXCEPT ![r] = "done"] /\ answer' = [answer EXCEPT ![r] = a]

Arrive(r) ==
    /\ pc[r] = "idle"
    /\ Goto(r, CASE req[r].op = "addMember" -> "insertMember"
                 [] req[r].op \in {"setRole", "removeMember"} -> "findMember"
                 [] req[r].op \in Placing -> IF req[r].code = NoCode THEN "tag" ELSE "coupon"
                 [] req[r].op = "read" -> "findDoc"
                 [] OTHER -> "membership")
    /\ before' = [before EXCEPT ![r] = {s \in Requests : pc[s] = "done"}]
    /\ UNCHANGED <<tables, local>>

\* getForUser: whichever row the database returns first, nothing says which.
ForUser(u) ==
    LET own == {m \in members : m.user = u} IN IF own = {} THEN {NoRow} ELSE own

IsOwnerOrAdmin(membership) ==
    membership # NoRow /\ membership.role \in {"owner", "admin"}

IsAdmin(r) == req[r].user \in Admins

------------------------------------------------------------------------------
(***************************************************************************)
(* Memberships.                                                            *)
(***************************************************************************)
Taken(org, user) == \E m \in members : m.org = org /\ m.user = user

InsertMember(r) ==
    /\ pc[r] = "insertMember"
    /\ IF Taken(req[r].org, req[r].user)
       THEN Finish(r, "conflict") /\ UNCHANGED members
       ELSE /\ members' = members \cup {[id |-> r, org |-> req[r].org,
                                         user |-> req[r].user, role |-> req[r].role]}
            /\ Finish(r, "ok")
    /\ UNCHANGED <<docs, coupons, local, before>>

\* Mutant: memberships are cached, and a removal does not reach the cache.
CachedIn(org) == {m \in members \cup InitialMembers : m.org = org}
MembersIn(org) == {m \in members : m.org = org}

\* findMembershipInOrg: the id sent may not exist, or belong to another org.
FindMember(r) ==
    /\ pc[r] = "findMember"
    /\ \/ \E m \in MembersIn(req[r].org) :
            /\ caller' = [caller EXCEPT ![r] = m]
            /\ Goto(r, IF req[r].op = "setRole" THEN "saveSelect" ELSE "delete")
       \/ Finish(r, "notFound") /\ UNCHANGED caller
    /\ UNCHANGED <<tables, req, subject, shown, before>>

WithId(i) == {m \in members : m.id = i}

\* save selects the row again: without it, it inserts the one in memory.
SaveSelect(r) ==
    /\ pc[r] = "saveSelect"
    /\ LET found == WithId(caller[r].id)
       IN  IF \E m \in found : m.role = req[r].role
           THEN Finish(r, "ok")
           ELSE Goto(r, IF found = {} THEN "saveInsert" ELSE "saveUpdate")
    /\ UNCHANGED <<tables, local, before>>

SaveUpdate(r) ==
    /\ pc[r] = "saveUpdate"
    /\ members' = {IF m.id = caller[r].id THEN [m EXCEPT !.role = req[r].role] ELSE m :
                       m \in members}
    /\ Finish(r, "ok")
    /\ UNCHANGED <<docs, coupons, local, before>>

\* The unique violation of this insert is not caught: a 500.
SaveInsert(r) ==
    /\ pc[r] = "saveInsert"
    /\ IF Taken(caller[r].org, caller[r].user) \/ WithId(caller[r].id) # {}
       THEN Finish(r, "error") /\ UNCHANGED members
       ELSE /\ members' = members \cup {[caller[r] EXCEPT !.role = req[r].role]}
            /\ Finish(r, "ok")
    /\ UNCHANGED <<docs, coupons, local, before>>

Delete(r) ==
    /\ pc[r] = "delete"
    /\ members' = members \ WithId(caller[r].id)
    /\ Finish(r, "ok")
    /\ UNCHANGED <<docs, coupons, local, before>>

------------------------------------------------------------------------------
(***************************************************************************)
(* Orders and tickets.  Placing an order reads the membership for the      *)
(* coupon and again for the org of the row: two statements of one          *)
(* transaction, which see what was committed when each of them began.      *)
(* Submitting a ticket reads it once.                                      *)
(***************************************************************************)
\* Mutant: the coupon's org is not looked at.
RedeemableByAll(r, coupon, membership) == TRUE

Redeemable(r, coupon, membership) ==
    coupon.org # NoOrg => membership # NoRow /\ membership.org = coupon.org

ApplyCoupon(r) ==
    /\ pc[r] = "coupon"
    /\ \E m \in ForUser(req[r].user) :
          IF \E c \in coupons : c.code = req[r].code /\ Redeemable(r, c, m)
          THEN Goto(r, "tag") ELSE Finish(r, "badCoupon")
    /\ UNCHANGED <<tables, local, before>>

Tag(r) ==
    /\ pc[r] = "tag"
    /\ \E m \in ForUser(req[r].user) : caller' = [caller EXCEPT ![r] = m]
    /\ Goto(r, "insertDoc")
    /\ UNCHANGED <<tables, req, subject, shown, before>>

OrgOf(membership) == IF membership = NoRow THEN NoOrg ELSE membership.org

NewDoc(r) == [id |-> r, kind |-> IF req[r].op = "place" THEN "order" ELSE "ticket",
              user |-> req[r].user, org |-> OrgOf(caller[r]), code |-> req[r].code]

InsertDoc(r) ==
    /\ pc[r] = "insertDoc"
    /\ docs' = docs \cup {NewDoc(r)}
    /\ Finish(r, "ok")
    /\ UNCHANGED <<members, coupons, local, before>>

OwnOrAdmin(r, d) == IsAdmin(r) \/ d.user = req[r].user

\* Another's ticket is an agent's to see while it is unassigned or assigned to them,
\* whatever their memberships: the assignments are in module Tickets, here any may be.
SeenAsAgent(r, d) == d.kind = "ticket" /\ req[r].user \in Agents /\ ~OwnOrAdmin(r, d)

\* findOneScoped and canView: the row first, then, unless the row and the caller's role
\* decide, the caller's membership.
FindDoc(r) ==
    /\ pc[r] = "findDoc"
    /\ \E d \in docs :
          /\ subject' = [subject EXCEPT ![r] = d]
          /\ \/ /\ OwnOrAdmin(r, d) \/ SeenAsAgent(r, d)
                /\ Finish(r, "granted")
                /\ shown' = [shown EXCEPT ![r] = {d.id}]
             \/ /\ SeenAsAgent(r, d)
                /\ Finish(r, "forbidden")
                /\ UNCHANGED shown
             \/ /\ ~OwnOrAdmin(r, d) /\ ~SeenAsAgent(r, d)
                /\ Goto(r, "membership")
                /\ UNCHANGED shown
    /\ UNCHANGED <<tables, req, caller, before>>

\* Mutant: an owner or admin of any org.
InSomeOrg(r, membership) == IsOwnerOrAdmin(membership)
InOrgOf(r, membership) == IsOwnerOrAdmin(membership) /\ membership.org = subject[r].org

DecideView(r) ==
    /\ pc[r] = "membership" /\ req[r].op = "read"
    /\ \E m \in ForUser(req[r].user) :
          IF InOrgOf(r, m)
          THEN Finish(r, "granted") /\ shown' = [shown EXCEPT ![r] = {subject[r].id}]
          ELSE Finish(r, "forbidden") /\ UNCHANGED shown
    /\ UNCHANGED <<tables, req, caller, subject, before>>

------------------------------------------------------------------------------
(***************************************************************************)
(* Lists and the creation of coupons: membership, check, statement.        *)
(***************************************************************************)
CheckMembership(r) ==
    /\ pc[r] = "membership" /\ req[r].op # "read"
    /\ \/ /\ IsAdmin(r) /\ req[r].op # "listOrders"
          /\ Goto(r, "act")
          /\ UNCHANGED caller
       \/ /\ ~(IsAdmin(r) /\ req[r].op # "listOrders")
          /\ \E m \in ForUser(req[r].user) :
                /\ caller' = [caller EXCEPT ![r] = m]
                /\ IF IsOwnerOrAdmin(m) THEN Goto(r, "act") ELSE Finish(r, "forbidden")
    /\ UNCHANGED <<tables, req, subject, shown, before>>

ByOrg(org) == {d \in docs : d.kind = "order" /\ d.org = org}

ListOrders(r) ==
    /\ pc[r] = "act" /\ req[r].op = "listOrders"
    /\ shown' = [shown EXCEPT ![r] = {d.id : d \in ByOrg(caller[r].org)}]
    /\ Finish(r, "granted")
    /\ UNCHANGED <<tables, req, caller, subject, before>>

\* The caller's own org, whatever the body names; an ADMIN's as named.
CouponOrg(r) == IF IsAdmin(r) THEN req[r].org ELSE caller[r].org

InsertCoupon(r) ==
    /\ pc[r] = "act" /\ req[r].op = "createCoupon"
    /\ IF \E c \in coupons : c.code = req[r].code
       THEN Finish(r, "conflict") /\ UNCHANGED coupons
       ELSE /\ coupons' = coupons \cup {[code |-> req[r].code, org |-> CouponOrg(r),
                                         by |-> r]}
            /\ Finish(r, "ok")
    /\ UNCHANGED <<members, docs, local, before>>

ListCoupons(r) ==
    /\ pc[r] = "act" /\ req[r].op = "listCoupons"
    /\ shown' = [shown EXCEPT ![r] =
                    {c.by : c \in {x \in coupons : \/ IsAdmin(r)
                                                   \/ x.org \in {caller[r].org, NoOrg}}}]
    /\ Finish(r, "granted")
    /\ UNCHANGED <<tables, req, caller, subject, before>>

Handle(r) ==
    \/ InsertMember(r) \/ FindMember(r) \/ SaveSelect(r) \/ SaveUpdate(r)
    \/ SaveInsert(r) \/ Delete(r)
    \/ ApplyCoupon(r) \/ Tag(r) \/ InsertDoc(r) \/ FindDoc(r) \/ DecideView(r)
    \/ CheckMembership(r) \/ ListOrders(r) \/ InsertCoupon(r) \/ ListCoupons(r)

\* The org and role of each membership, as it would be found by the caller.
Standing(u, rows) == {[org |-> m.org, role |-> m.role] : m \in {x \in rows : x.user = u}}

Next ==
    \E r \in Requests :
        /\ Arrive(r) \/ Handle(r)
        /\ held' = [s \in Requests |->
                       IF pc'[s] \notin {"idle", "done"} /\ req[s].op \notin Managing
                       THEN held[s] \cup {Standing(req[s].user, members')}
                       ELSE held[s]]

Spec == Init /\ [][Next]_vars

------------------------------------------------------------------------------
(***************************************************************************)
(* Properties.                                                             *)
(***************************************************************************)
\* Every variable has its type, and the two unique constraints hold: one membership
\* per org and user, one coupon per code.
TypeOK ==
    /\ members \subseteq Membership
    /\ docs \subseteq Doc
    /\ coupons \subseteq Coupon
    /\ req \in [Requests -> Bodies]
    /\ caller \in [Requests -> Membership \cup {NoRow}]
    /\ answer \in [Requests -> Answers \cup {NoAnswer}]
    /\ OnePerOrgAndUser(members)
    /\ OnePerCode(coupons)

Manages(standing, org) ==
    \E s \in standing : s.org = org /\ s.role \in {"owner", "admin"}

\* "A different org's owner/admin still gets 403/404": another user's order is shown only
\* to an ADMIN and to somebody who, at some moment of that very request, was an owner or
\* admin of the org it was placed for; another user's ticket to these and to agents, for
\* whom no membership counts.  A membership that ended or was demoted before the request
\* came is worth nothing, and an agent's role nothing for an order.
ShownToManagersOnly ==
    \A r \in Requests : \A d \in docs :
        req[r].op \in {"read", "listOrders"} /\ d.id \in shown[r] =>
            \/ d.user = req[r].user \/ IsAdmin(r)
            \/ d.kind = "ticket" /\ req[r].user \in Agents
            \/ \E standing \in held[r] : Manages(standing, d.org)

\* A list leaves out nothing of the org: an order answered before the list was asked
\* for is on it, whatever became of the membership of whoever placed it.
ListIsComplete ==
    \A r \in Requests : \A d \in docs :
        /\ req[r].op = "listOrders" /\ answer[r] = "granted"
        /\ d.kind = "order" /\ d.id \in before[r] \cup Seeds /\ d.org = caller[r].org
        => d.id \in shown[r]

CouponWith(code) == CHOOSE c \in coupons : c.code = code

\* A coupon's org "scopes checkout-time redemption to that org's members": the buyer was
\* one while the order was placed.  The order then counts for that org too, unless the
\* buyer's memberships changed under the checkout or were several.
OrgCouponsStayInside ==
    \A d \in docs :
        d.id \in Requests /\ d.code # NoCode /\ CouponWith(d.code).org # NoOrg =>
            LET org == CouponWith(d.code).org
                orgs == {{s.org : s \in standing} : standing \in held[d.id]}
            IN  /\ \E known \in orgs : org \in known
                /\ d.org # org => \E known \in orgs : known # {org}

\* An order or ticket belongs to an org its owner was in when it was placed, to none
\* only if there was a moment without any.
TagIsTrue ==
    \A d \in docs :
        d.id \in Requests =>
            \E standing \in held[d.id] :
                IF d.org = NoOrg THEN standing = {} ELSE \E s \in standing : s.org = d.org

\* "Can't create a coupon for a different org": a coupon of an org comes from an ADMIN or
\* from somebody who managed that org while the request ran.
CouponsByManagers ==
    \A c \in coupons :
        c.by \in Requests /\ ~IsAdmin(c.by) =>
            \E standing \in held[c.by] : Manages(standing, c.org)

\* A membership removed with a 204 is back only if a change of its role, which had read
\* it before, was under way: save inserts the row it does not find.
RemovedStaysRemoved ==
    \A s \in Requests :
        req[s].op = "removeMember" /\ answer[s] = "ok" /\ WithId(caller[s].id) # {} =>
            \E r \in Requests :
                /\ req[r].op = "setRole" /\ answer[r] = "ok"
                /\ caller[r].id = caller[s].id
                /\ s \notin before[r] /\ r \notin before[s]

------------------------------------------------------------------------------
(***************************************************************************)
(* What texts of the repository say and concurrent requests break: not     *)
(* invariants of this model.  The README tells what happens.               *)
(***************************************************************************)
\* "Every order/ticket placed by any member of their org": of the orders, also one placed
\* before its owner joined.
MembersOrdersAreListed ==
    \A r \in Requests : \A d \in docs :
        /\ req[r].op = "listOrders" /\ answer[r] = "granted"
        /\ d.kind = "order" /\ d.id \in before[r] \cup Seeds
        /\ \A standing \in held[r] : \E s \in standing : s.org = caller[r].org
        /\ \E m \in members : m.user = d.user /\ m.org = caller[r].org
                              /\ m.id \in before[r] \cup Seeds
        => d.id \in shown[r]

\* What managers of an org may do they can while they are managers: see all of its
\* orders, and make its coupons; nobody else can.
ManagersOnly == ShownToManagersOnly /\ ListIsComplete /\ CouponsByManagers

\* What is placed for an org, or with its coupon, was placed by one of its members.
OrdersAreMembers == OrgCouponsStayInside /\ TagIsTrue
=============================================================================
