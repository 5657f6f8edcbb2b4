----------------------------- MODULE OrgsProofs -----------------------------
(***************************************************************************)
(* What organisations promise while memberships come, change and go, for   *)
(* any number of requests, users, orgs, codes and rows to start with.      *)
(***************************************************************************)
EXTENDS Orgs, TLAPS

Stages == {"idle", "insertMember", "findMember", "saveSelect", "saveUpdate", "saveInsert",
           "delete", "coupon", "tag", "insertDoc", "findDoc", "membership", "act", "done"}

Types ==
    /\ TypeOK
    /\ pc \in [Requests -> Stages]
    /\ subject \in [Requests -> Doc \cup {NoRow}]
    /\ shown \in [Requests -> SUBSET Ids]
    /\ held \in [Requests -> SUBSET SUBSET [org : Orgs, role : Roles]]
    /\ before \in [Requests -> SUBSET Requests]

\* Where a request stands tells what it asked for.
StageOfOp(r) ==
    /\ pc[r] = "insertMember" => req[r].op = "addMember"
    /\ pc[r] = "findMember" => req[r].op \in {"setRole", "removeMember"}
    /\ pc[r] \in {"saveSelect", "saveUpdate", "saveInsert"} => req[r].op = "setRole"
    /\ pc[r] = "delete" => req[r].op = "removeMember"
    /\ pc[r] = "coupon" => req[r].op = "place"
    /\ pc[r] \in {"tag", "insertDoc"} => req[r].op \in Placing
    /\ pc[r] = "findDoc" => req[r].op = "read"
    /\ pc[r] = "membership" =>
          req[r].op \in {"read", "listOrders", "createCoupon", "listCoupons"}
    /\ pc[r] = "act" => req[r].op \in {"listOrders", "createCoupon", "listCoupons"}

StagesOfOps == \A r \in Requests : StageOfOp(r)

\* A request that has not answered has shown nothing, one that has not come holds nothing.
NothingYet ==
    \A r \in Requests :
        /\ pc[r] # "done" => answer[r] = NoAnswer /\ shown[r] = {}
        /\ pc[r] = "idle" => caller[r] = NoRow

BeforeIsDone == \A r \in Requests : \A s \in before[r] : pc[s] = "done"

\* What the caller is a member of now is part of the history of every request under way.
HeldIsCurrent ==
    \A r \in Requests :
        pc[r] \notin {"idle", "done"} /\ req[r].op \notin Managing =>
            Standing(req[r].user, members) \in held[r]

\* Ids are made once, by requests that are done with them.
Made(i) == i \in Requests => pc[i] = "done"

IdsAreMadeOnce ==
    /\ \A d \in docs : Made(d.id)
    /\ \A d, e \in docs : d.id = e.id => d = e
    /\ \A m \in members : Made(m.id)
    /\ \A r \in Requests : caller[r] # NoRow => Made(caller[r].id)

\* Whoever is about to act for an org on a membership managed it during the request.
ManagerInHand ==
    \A r \in Requests :
        pc[r] = "act" /\ ~(IsAdmin(r) /\ req[r].op # "listOrders") =>
            \E standing \in held[r] : Manages(standing, caller[r].org)

\* What was read is there to be looked at, what was shown is still there.
RowsStay ==
    \A r \in Requests :
        /\ pc[r] = "membership" /\ req[r].op = "read" => subject[r] \in docs
        /\ req[r].op \in {"read", "listOrders"} =>
              \A i \in shown[r] : \E d \in docs : d.id = i

\* The coupon exists, and the buyer was in its org while the request ran.
Earned(r, code) ==
    \E c \in coupons :
        /\ c.code = code
        /\ c.org # NoOrg => \E standing \in held[r] : \E s \in standing : s.org = c.org

\* The org on the row is one the owner was in, none if there was a moment without.
TagOf(r, org) ==
    \E standing \in held[r] :
        IF org = NoOrg THEN standing = {} ELSE \E s \in standing : s.org = org

PlacedForMembers ==
    /\ \A r \in Requests :
          /\ pc[r] \in {"tag", "insertDoc"} /\ req[r].code # NoCode => Earned(r, req[r].code)
          /\ pc[r] = "insertDoc" => TagOf(r, OrgOf(caller[r]))
    /\ \A d \in docs : d.id \in Requests /\ d.code # NoCode => Earned(d.id, d.code)

\* A request that changes or deletes a membership holds one.
MemberInHand ==
    \A r \in Requests :
        \/ pc[r] \in {"saveSelect", "saveUpdate", "saveInsert", "delete"}
        \/ req[r].op \in {"setRole", "removeMember"} /\ answer[r] = "ok"
        => caller[r] \in Membership

Removed(s) == req[s].op = "removeMember" /\ answer[s] = "ok"

Revived(s) ==
    \E r \in Requests :
        /\ req[r].op = "setRole" /\ answer[r] = "ok"
        /\ caller[r].id = caller[s].id
        /\ s \notin before[r] /\ r \notin before[s]

\* Only what was revived can be found again, by requests that came after the removal.
OnlyRevivedIsFound ==
    \A s \in Requests :
        Removed(s) =>
            /\ WithId(caller[s].id) # {} => Revived(s)
            /\ \A r \in Requests :
                  s \in before[r] /\ caller[r] # NoRow /\ caller[r].id = caller[s].id
                  => Revived(s)

IInv ==
    /\ Types /\ StagesOfOps /\ NothingYet /\ BeforeIsDone /\ HeldIsCurrent
    /\ IdsAreMadeOnce /\ ManagerInHand /\ RowsStay /\ PlacedForMembers
    /\ MemberInHand /\ OnlyRevivedIsFound
    /\ ManagersOnly /\ TagIsTrue

LEMMA InitInv == Init => IInv
<1> SUFFICES ASSUME Init PROVE IInv
  OBVIOUS
<1> USE OrgsAssumption DEF Init
<1>1. Types
  BY DEF Types, TypeOK, Stages
<1>2. StagesOfOps /\ NothingYet /\ BeforeIsDone /\ HeldIsCurrent
  BY DEF StagesOfOps, StageOfOp, NothingYet, BeforeIsDone, HeldIsCurrent
<1>3. IdsAreMadeOnce
  BY DEF IdsAreMadeOnce, Made
<1>4. ManagerInHand /\ RowsStay
  BY DEF ManagerInHand, RowsStay
<1>5. PlacedForMembers /\ TagIsTrue
  BY DEF PlacedForMembers, TagIsTrue
<1>6. MemberInHand /\ OnlyRevivedIsFound
  BY DEF MemberInHand, OnlyRevivedIsFound, Removed, Answers
<1>7. ManagersOnly
  BY DEF ManagersOnly, ShownToManagersOnly, ListIsComplete, CouponsByManagers, Answers
<1> QED BY <1>1, <1>2, <1>3, <1>4, <1>5, <1>6, <1>7 DEF IInv

------------------------------------------------------------------------------
(***************************************************************************)
(* What a step of one request leaves alone.                                *)
(***************************************************************************)
Moves(r) == Arrive(r) \/ Handle(r)

Step(r) ==
    /\ Moves(r)
    /\ held' = [s \in Requests |->
                   IF pc'[s] \notin {"idle", "done"} /\ req[s].op \notin Managing
                   THEN held[s] \cup {Standing(req[s].user, members')}
                   ELSE held[s]]

\* A request moves itself only, and only until it is done.
LEMMA OwnRowsOnly ==
    ASSUME Types, NEW r \in Requests, Moves(r)
    PROVE  /\ req' = req
           /\ pc[r] # "done" /\ pc'[r] # "idle"
           /\ pc' \in [Requests -> Stages]
           /\ answer' \in [Requests -> Answers \cup {NoAnswer}]
           /\ answer'[r] = answer[r] \/ pc'[r] = "done"
           /\ \A s \in Requests \ {r} :
                 pc'[s] = pc[s] /\ answer'[s] = answer[s]
<1> USE DEF Types, TypeOK, Stages, Answers, Goto, Finish, local
<1>1. CASE Arrive(r)
  BY <1>1 DEF Arrive
<1>2. CASE InsertMember(r) \/ FindMember(r)
  BY <1>2 DEF InsertMember, FindMember
<1>3. CASE SaveSelect(r) \/ SaveUpdate(r) \/ SaveInsert(r) \/ Delete(r)
  BY <1>3 DEF SaveSelect, SaveUpdate, SaveInsert, Delete
<1>4. CASE ApplyCoupon(r) \/ Tag(r) \/ InsertDoc(r)
  BY <1>4 DEF ApplyCoupon, Tag, InsertDoc
<1>5. CASE FindDoc(r) \/ DecideView(r)
  BY <1>5 DEF FindDoc, DecideView
<1>6. CASE CheckMembership(r)
  BY <1>6 DEF CheckMembership
<1>7. CASE ListOrders(r) \/ InsertCoupon(r) \/ ListCoupons(r)
  BY <1>7 DEF ListOrders, InsertCoupon, ListCoupons
<1> QED BY <1>1, <1>2, <1>3, <1>4, <1>5, <1>6, <1>7 DEF Moves, Handle

\* The other variables of the handler, and the tables, which only some steps change.
LEMMA OwnHandsOnly ==
    ASSUME Types, RowsStay, NEW r \in Requests, Moves(r)
    PROVE  /\ caller' \in [Requests -> Membership \cup {NoRow}]
           /\ subject' \in [Requests -> Doc \cup {NoRow}]
           /\ shown' \in [Requests -> SUBSET Ids]
           /\ before' \in [Requests -> SUBSET Requests]
           /\ \A s \in Requests \ {r} :
                 /\ caller'[s] = caller[s] /\ subject'[s] = subject[s]
                 /\ shown'[s] = shown[s] /\ before'[s] = before[s]
           /\ pc[r] # "idle" => before' = before
           /\ pc[r] = "idle" => /\ UNCHANGED <<tables, local>>
                                /\ before'[r] = {s \in Requests : pc[s] = "done"}
<1> USE DEF Types, TypeOK, Goto, Finish, local, tables, Coupon, Doc, Membership
<1>1. CASE Arrive(r)
  BY <1>1 DEF Arrive
<1>2. CASE InsertMember(r) \/ FindMember(r)
  BY <1>2 DEF InsertMember, FindMember, MembersIn
<1>3. CASE SaveSelect(r) \/ SaveUpdate(r) \/ SaveInsert(r) \/ Delete(r)
  BY <1>3 DEF SaveSelect, SaveUpdate, SaveInsert, Delete
<1>4. CASE ApplyCoupon(r) \/ Tag(r) \/ InsertDoc(r)
  BY <1>4 DEF ApplyCoupon, Tag, InsertDoc, ForUser
<1>5. CASE FindDoc(r) \/ DecideView(r)
  <2>1. \A i \in Ids : {i} \in SUBSET Ids
    OBVIOUS
  <2>2. DecideView(r) => \/ shown' = shown
                         \/ shown' = [shown EXCEPT ![r] = {subject[r].id}] /\ subject[r].id \in Ids
    BY DEF DecideView, RowsStay
  <2>3. CASE FindDoc(r)
    BY <2>1, <2>3 DEF FindDoc
  <2>4. CASE DecideView(r)
    BY <2>1, <2>2, <2>4 DEF DecideView
  <2> QED BY <1>5, <2>3, <2>4
<1>6. CASE CheckMembership(r)
  BY <1>6 DEF CheckMembership, ForUser
<1>7. CASE ListOrders(r) \/ InsertCoupon(r) \/ ListCoupons(r)
  BY <1>7 DEF ListOrders, InsertCoupon, ListCoupons, ByOrg
<1> QED BY <1>1, <1>2, <1>3, <1>4, <1>5, <1>6, <1>7 DEF Moves, Handle

\* The tables: orders and coupons are only ever added to, each by one step.
LEMMA TablesGrow ==
    ASSUME Types, StagesOfOps, MemberInHand, ManagerInHand, NEW r \in Requests, Moves(r)
    PROVE  /\ members' \subseteq Membership /\ docs' \subseteq Doc /\ coupons' \subseteq Coupon
           /\ docs \subseteq docs' /\ coupons \subseteq coupons'
           /\ docs' # docs =>
                 /\ InsertDoc(r) /\ pc'[r] = "done"
                 /\ docs' = docs \cup {NewDoc(r)}
           /\ coupons' # coupons =>
                 /\ InsertCoupon(r) /\ ~\E c \in coupons : c.code = req[r].code
                 /\ coupons' = coupons \cup {[code |-> req[r].code, org |-> CouponOrg(r),
                                              by |-> r]}
<1> USE DEF Types, TypeOK, Goto, Finish, local, tables
<1>1. CASE Arrive(r)
  BY <1>1 DEF Arrive
<1>2. CASE InsertMember(r)
  <2>1. [id |-> r, org |-> req[r].org, user |-> req[r].user, role |-> req[r].role]
            \in Membership
    <3>1. req[r] \in Body /\ req[r].org \in Orgs
      BY <1>2, OrgsAssumption DEF InsertMember, StagesOfOps, StageOfOp, Managing
    <3> QED BY <3>1 DEF Body, Membership, Ids
  <2> QED BY <1>2, <2>1 DEF InsertMember
<1>3. CASE SaveUpdate(r) \/ SaveInsert(r)
  <2>1. req[r].role \in Roles
    BY OrgsAssumption DEF Body
  <2>2. \A m \in Membership : [m EXCEPT !.role = req[r].role] \in Membership
    BY <2>1 DEF Membership
  <2>3. caller[r] \in Membership
    BY <1>3 DEF SaveUpdate, SaveInsert, MemberInHand
  <2> QED BY <1>3, <2>2, <2>3 DEF SaveUpdate, SaveInsert
<1>4. CASE Delete(r)
  BY <1>4 DEF Delete
<1>5. CASE InsertDoc(r)
  <2>1. NewDoc(r) \in Doc
    <3>1. req[r] \in Body
      BY OrgsAssumption
    <3>2. OrgOf(caller[r]) \in Orgs \cup {NoOrg}
      BY DEF OrgOf, Membership
    <3> QED BY <3>1, <3>2 DEF NewDoc, Body, Doc, Ids
  <2> QED BY <1>5, <2>1 DEF InsertDoc
<1>6. CASE InsertCoupon(r)
  <2>1. [code |-> req[r].code, org |-> CouponOrg(r), by |-> r] \in Coupon
    <3>1. req[r] \in Body /\ req[r].code \in Codes
      BY <1>6, OrgsAssumption DEF InsertCoupon
    <3>2. CouponOrg(r) \in Orgs \cup {NoOrg}
      <4>1. CASE IsAdmin(r)
        BY <3>1, <4>1 DEF CouponOrg, Body
      <4>2. CASE ~IsAdmin(r)
        BY <1>6, <4>2 DEF InsertCoupon, ManagerInHand, Manages, CouponOrg
      <4> QED BY <4>1, <4>2
    <3> QED BY <3>1, <3>2 DEF Coupon, Ids
  <2> QED BY <1>6, <2>1 DEF InsertCoupon
<1>7. CASE FindMember(r) \/ SaveSelect(r) \/ ApplyCoupon(r) \/ Tag(r)
  BY <1>7 DEF FindMember, SaveSelect, ApplyCoupon, Tag
<1>8. CASE FindDoc(r) \/ DecideView(r) \/ CheckMembership(r) \/ ListOrders(r) \/ ListCoupons(r)
  BY <1>8 DEF FindDoc, DecideView, CheckMembership, ListOrders, ListCoupons
<1> QED BY <1>1, <1>2, <1>3, <1>4, <1>5, <1>6, <1>7, <1>8 DEF Moves, Handle

\* Members only go, or one of three steps is taken: two that add a row, one that keeps
\* all of a row but its role.
LEMMA MembersChange ==
    ASSUME NEW r \in Requests, Moves(r)
    PROVE  members' \subseteq members \/ InsertMember(r) \/ SaveInsert(r) \/ SaveUpdate(r)
BY DEF Moves, Handle, tables, Arrive, FindMember, SaveSelect, Delete, ApplyCoupon, Tag,
       InsertDoc, FindDoc, DecideView, CheckMembership, ListOrders, InsertCoupon, ListCoupons

LEMMA UpdateKeeps ==
    ASSUME Types, NEW r \in Requests, SaveUpdate(r)
    PROVE  \A m \in members' : \E old \in members :
              /\ m = IF old.id = caller[r].id THEN [old EXCEPT !.role = req[r].role] ELSE old
              /\ m.id = old.id /\ m.org = old.org /\ m.user = old.user
BY DEF SaveUpdate, Types, TypeOK, Membership

\* The history grows, and always ends with what the caller is a member of now.
LEMMA HistoryGrows ==
    ASSUME IInv, NEW r \in Requests, Step(r)
    PROVE  /\ held' \in [Requests -> SUBSET SUBSET [org : Orgs, role : Roles]]
           /\ \A s \in Requests : held[s] \subseteq held'[s]
           /\ HeldIsCurrent'
<1>1. req' = req /\ members' \subseteq Membership
  BY OwnRowsOnly, TablesGrow DEF IInv, Step
<1>2. \A u : Standing(u, members') \in SUBSET [org : Orgs, role : Roles]
  BY <1>1 DEF Standing, Membership
<1>3. held' \in [Requests -> SUBSET SUBSET [org : Orgs, role : Roles]]
  BY <1>2 DEF Step, IInv, Types
<1>4. \A s \in Requests : held[s] \subseteq held'[s]
  BY DEF Step
<1>5. HeldIsCurrent'
  BY <1>1 DEF Step, HeldIsCurrent
<1> QED BY <1>3, <1>4, <1>5

LEMMA TypesStep ==
    ASSUME IInv, NEW r \in Requests, Step(r)
    PROVE  Types'
<1>1. OnePerOrgAndUser(members')
  <2> USE DEF OnePerOrgAndUser
  <2>1. CASE members' \subseteq members
    BY <2>1 DEF IInv, Types, TypeOK
  <2>2. CASE InsertMember(r)
    BY <2>2 DEF InsertMember, Taken, IInv, Types, TypeOK
  <2>3. CASE SaveInsert(r)
    BY <2>3 DEF SaveInsert, Taken, MemberInHand, IInv, Types, TypeOK, Membership
  <2>4. CASE SaveUpdate(r)
    BY <2>4, UpdateKeeps DEF IInv, Types, TypeOK
  <2> QED BY <2>1, <2>2, <2>3, <2>4, MembersChange DEF Step
<1>2. OnePerCode(coupons')
  BY TablesGrow DEF OnePerCode, Step, IInv, Types, TypeOK
<1>3. /\ members' \subseteq Membership /\ docs' \subseteq Doc /\ coupons' \subseteq Coupon
      /\ req' = req
  BY TablesGrow, OwnRowsOnly DEF Step, IInv
<1>4. /\ pc' \in [Requests -> Stages]
      /\ answer' \in [Requests -> Answers \cup {NoAnswer}]
      /\ caller' \in [Requests -> Membership \cup {NoRow}]
      /\ subject' \in [Requests -> Doc \cup {NoRow}]
      /\ shown' \in [Requests -> SUBSET Ids]
      /\ before' \in [Requests -> SUBSET Requests]
  BY OwnRowsOnly, OwnHandsOnly DEF Step, IInv
<1> QED BY <1>1, <1>2, <1>3, <1>4, HistoryGrows
        DEF Types, TypeOK, IInv, OnePerOrgAndUser, OnePerCode, Membership, Doc, Coupon

LEMMA StagesStep ==
    ASSUME IInv, NEW r \in Requests, Step(r)
    PROVE  StagesOfOps' /\ NothingYet' /\ BeforeIsDone'
<1> USE DEF Types, TypeOK
<1>1. /\ req' = req /\ pc[r] # "done" /\ pc'[r] # "idle"
      /\ answer'[r] = answer[r] \/ pc'[r] = "done"
      /\ \A s \in Requests \ {r} : /\ pc'[s] = pc[s] /\ answer'[s] = answer[s]
                                   /\ caller'[s] = caller[s] /\ shown'[s] = shown[s]
                                   /\ before'[s] = before[s]
  BY OwnRowsOnly, OwnHandsOnly DEF Step, IInv
<1>2. StagesOfOps'
  <2> SUFFICES ASSUME NEW s \in Requests PROVE StageOfOp(s)'
    BY DEF StagesOfOps
  <2>1. CASE s # r
    BY <1>1, <2>1 DEF IInv, StagesOfOps, StageOfOp
  <2>2. req[r].op \in Operations
    BY OrgsAssumption DEF IInv, Body
  <2>3. CASE s = r
    <3> USE <1>1, <2>2, <2>3 DEF IInv, StagesOfOps, StageOfOp, Goto, Finish
    <3>1. CASE Arrive(r)
      BY <3>1, OrgsAssumption DEF Arrive, Operations, Managing, Placing
    <3>2. CASE InsertMember(r) \/ FindMember(r) \/ SaveSelect(r) \/ SaveUpdate(r)
               \/ SaveInsert(r) \/ Delete(r)
      BY <3>2 DEF InsertMember, FindMember, SaveSelect, SaveUpdate, SaveInsert, Delete
    <3>3. CASE ApplyCoupon(r) \/ Tag(r) \/ InsertDoc(r) \/ FindDoc(r) \/ DecideView(r)
      BY <3>3 DEF ApplyCoupon, Tag, InsertDoc, FindDoc, DecideView, Placing
    <3>4. CASE CheckMembership(r) \/ ListOrders(r) \/ InsertCoupon(r) \/ ListCoupons(r)
      BY <3>4 DEF CheckMembership, ListOrders, InsertCoupon, ListCoupons
    <3> QED BY <3>1, <3>2, <3>3, <3>4 DEF Step, Moves, Handle
  <2> QED BY <2>1, <2>3
<1>3. NothingYet'
  <2>1. pc'[r] = "done" \/ shown' = shown
    <3> USE DEF Step, Moves, Handle, local, Goto, Finish
    <3>1. CASE FindDoc(r) \/ DecideView(r) \/ ListOrders(r) \/ ListCoupons(r)
      BY <3>1 DEF FindDoc, DecideView, ListOrders, ListCoupons, IInv
    <3>2. CASE ~(FindDoc(r) \/ DecideView(r) \/ ListOrders(r) \/ ListCoupons(r))
      BY <3>2 DEF Arrive, InsertMember, FindMember, SaveSelect, SaveUpdate, SaveInsert, Delete,
                  ApplyCoupon, Tag, InsertDoc, CheckMembership, InsertCoupon
    <3> QED BY <3>1, <3>2
  <2> QED BY <1>1, <2>1 DEF IInv, NothingYet
<1>4. BeforeIsDone'
  <2>1. before'[r] = before[r] \/ before'[r] = {s \in Requests : pc[s] = "done"}
    BY OwnHandsOnly DEF Step, IInv
  <2> QED BY <1>1, <2>1 DEF IInv, BeforeIsDone
<1> QED BY <1>2, <1>3, <1>4

\* An id that is made stays made, and one that is not is on no row yet.
LEMMA IdsStep ==
    ASSUME IInv, NEW r \in Requests, Step(r)
    PROVE  IdsAreMadeOnce'
<1> USE DEF Types, TypeOK
<1>1. /\ pc[r] # "done" /\ \A s \in Requests \ {r} : pc'[s] = pc[s] /\ caller'[s] = caller[s]
  BY OwnRowsOnly, OwnHandsOnly DEF Step, IInv
<1>2. \A i : Made(i) => Made(i)'
  BY <1>1 DEF Made
<1>3. ~Made(r)
  BY <1>1 DEF Made
<1>4. /\ \A d \in docs' : Made(d.id)'
      /\ \A d, e \in docs' : d.id = e.id => d = e
  <2>1. CASE docs' = docs
    BY <1>2, <2>1 DEF IInv, IdsAreMadeOnce
  <2>2. CASE docs' # docs
    <3>1. /\ pc'[r] = "done"
          /\ docs' = docs \cup {NewDoc(r)}
      BY <2>2, TablesGrow DEF Step, IInv
    <3>2. \A d \in docs : d.id # r
      BY <1>3 DEF IInv, IdsAreMadeOnce
    <3>3. Made(r)'
      BY <3>1 DEF Made
    <3> QED BY <1>2, <3>1, <3>2, <3>3 DEF IInv, IdsAreMadeOnce, NewDoc
  <2> QED BY <2>1, <2>2
<1>5. \A m \in members' : Made(m.id)'
  <2> USE <1>2 DEF IInv, IdsAreMadeOnce
  <2>1. CASE members' \subseteq members
    BY <2>1
  <2>2. CASE InsertMember(r)
    <3>1. pc'[r] = "done" \/ members' = members
      BY <2>2 DEF InsertMember, Finish
    <3>2. CASE pc'[r] = "done"
      BY <2>2, <3>2 DEF InsertMember, Made
    <3> QED BY <3>1, <3>2
  <2>3. CASE SaveInsert(r)
    <3>1. caller[r] \in Membership /\ Made(caller[r].id)
      BY <2>3, OrgsAssumption DEF SaveInsert, MemberInHand
    <3>2. [caller[r] EXCEPT !.role = req[r].role].id = caller[r].id
      BY <3>1 DEF Membership
    <3> QED BY <2>3, <3>1, <3>2 DEF SaveInsert
  <2>4. CASE SaveUpdate(r)
    BY <2>4, UpdateKeeps
  <2> QED BY <2>1, <2>2, <2>3, <2>4, MembersChange DEF Step
<1>6. (caller[r] # NoRow => Made(caller[r].id))'
  <2>1. caller'[r] = caller[r] \/ caller'[r] \in members \cup {NoRow}
    BY DEF Step, Moves, Handle, tables, local, Arrive, InsertMember, FindMember, SaveSelect,
           SaveUpdate, SaveInsert, Delete, ApplyCoupon, Tag, InsertDoc, FindDoc, DecideView,
           CheckMembership, ListOrders, InsertCoupon, ListCoupons, ForUser, MembersIn, IInv
  <2> QED BY <1>1, <2>1 DEF IInv, IdsAreMadeOnce, Made
<1>7. \A s \in Requests \ {r} : (caller[s] # NoRow => Made(caller[s].id))'
  BY <1>1 DEF IInv, IdsAreMadeOnce, Made
<1> QED BY <1>1, <1>4, <1>5, <1>6, <1>7 DEF IdsAreMadeOnce

\* The caller's role in the history of a request that finds it now.
LEMMA FoundIsHeld ==
    ASSUME IInv, NEW r \in Requests, req[r].op \notin Managing, pc[r] \notin {"idle", "done"},
           NEW m \in ForUser(req[r].user)
    PROVE  /\ TagOf(r, OrgOf(m))
           /\ IsOwnerOrAdmin(m) =>
                 \E standing \in held[r] : Manages(standing, m.org)
<1>1. Standing(req[r].user, members) \in held[r]
  BY DEF IInv, HeldIsCurrent
<1>2. CASE m = NoRow
  <2>1. Standing(req[r].user, members) = {}
    BY <1>2, OrgsAssumption DEF ForUser, Standing, IInv, Types, TypeOK
  <2> QED BY <1>1, <1>2, <2>1 DEF TagOf, OrgOf, IsOwnerOrAdmin
<1>3. CASE m # NoRow
  <2>1. m \in members /\ m.user = req[r].user /\ m.org \in Orgs
    BY <1>3 DEF ForUser, IInv, Types, TypeOK, Membership
  <2>2. [org |-> m.org, role |-> m.role] \in Standing(req[r].user, members)
    BY <2>1 DEF Standing
  <2>3. TagOf(r, OrgOf(m))
    BY <1>1, <1>3, <2>1, <2>2, OrgsAssumption DEF TagOf, OrgOf
  <2>4. IsOwnerOrAdmin(m) => Manages(Standing(req[r].user, members), m.org)
    BY <2>2 DEF IsOwnerOrAdmin, Manages
  <2> QED BY <1>1, <2>3, <2>4
<1> QED BY <1>2, <1>3

\* Facts about the history outlive the step.
LEMMA HistoryKeeps ==
    ASSUME IInv, NEW r \in Requests, Step(r), NEW s \in Requests
    PROVE  /\ \A org : TagOf(s, org) => TagOf(s, org)'
           /\ \A org : (\E standing \in held[s] : Manages(standing, org)) =>
                          \E standing \in held'[s] : Manages(standing, org)
           /\ \A code : Earned(s, code) => Earned(s, code)'
<1>1. held[s] \subseteq held'[s] /\ coupons \subseteq coupons'
  BY HistoryGrows, TablesGrow DEF Step, IInv
<1> QED BY <1>1 DEF TagOf, Manages, Earned

LEMMA ManagerStep ==
    ASSUME IInv, NEW r \in Requests, Step(r)
    PROVE  ManagerInHand'
<1> USE DEF Types, TypeOK, Managing
<1>1. /\ req' = req /\ pc[r] # "done"
      /\ \A s \in Requests \ {r} : pc'[s] = pc[s] /\ caller'[s] = caller[s]
  BY OwnRowsOnly, OwnHandsOnly DEF Step, IInv
<1> SUFFICES ASSUME NEW s \in Requests, pc'[s] = "act",
                    ~(IsAdmin(s) /\ req[s].op # "listOrders")
             PROVE  \E standing \in held'[s] : Manages(standing, caller'[s].org)
  BY <1>1 DEF ManagerInHand, IsAdmin
<1>2. CASE s # r
  BY <1>1, <1>2, HistoryKeeps DEF IInv, ManagerInHand
<1>3. CASE s = r
  <2>1. CheckMembership(r)
    BY <1>1, <1>3 DEF Step, Moves, Handle, Goto, Finish, IInv, Arrive, InsertMember, FindMember,
       SaveSelect, SaveUpdate, SaveInsert, Delete, ApplyCoupon, Tag, InsertDoc, FindDoc,
       DecideView, ListOrders, InsertCoupon, ListCoupons
  <2>2. PICK m \in ForUser(req[r].user) :
            caller'[r] = m /\ IsOwnerOrAdmin(m) /\ pc[r] = "membership"
    BY <1>3, <2>1 DEF CheckMembership, Finish, IInv
  <2>3. \E standing \in held[r] : Manages(standing, m.org)
    BY <2>2, FoundIsHeld DEF IInv, StagesOfOps, StageOfOp
  <2> QED BY <1>3, <2>2, <2>3, HistoryKeeps
<1> QED BY <1>2, <1>3

LEMMA RowsStep ==
    ASSUME IInv, NEW r \in Requests, Step(r)
    PROVE  RowsStay' /\ MemberInHand'
<1> USE DEF Types, TypeOK
<1>1. /\ req' = req /\ pc[r] # "done" /\ docs \subseteq docs'
      /\ answer'[r] = answer[r] \/ pc'[r] = "done"
      /\ \A s \in Requests \ {r} :
            /\ pc'[s] = pc[s] /\ caller'[s] = caller[s] /\ subject'[s] = subject[s]
            /\ shown'[s] = shown[s] /\ answer'[s] = answer[s]
  BY OwnRowsOnly, OwnHandsOnly, TablesGrow DEF Step, IInv
<1>2. pc'[r] = "membership" /\ req[r].op = "read" => subject'[r] \in docs
  BY <1>1 DEF Step, Moves, Handle, Goto, Finish, IInv, Arrive, InsertMember, FindMember,
       SaveSelect, SaveUpdate, SaveInsert, Delete, ApplyCoupon, Tag, InsertDoc, FindDoc,
       DecideView, CheckMembership, ListOrders, InsertCoupon, ListCoupons
<1>3. req[r].op \in {"read", "listOrders"} => \A i \in shown'[r] : \E d \in docs : d.id = i
  <2>1. CASE FindDoc(r)
    BY <2>1 DEF FindDoc, IInv, RowsStay
  <2>2. CASE DecideView(r)
    BY <2>2 DEF DecideView, IInv, RowsStay
  <2>3. CASE ListOrders(r)
    BY <2>3 DEF ListOrders, ByOrg, IInv, RowsStay
  <2>4. CASE ListCoupons(r)
    BY <2>4 DEF ListCoupons
  <2>5. CASE ~(FindDoc(r) \/ DecideView(r) \/ ListOrders(r) \/ ListCoupons(r))
    <3>1. shown' = shown
      BY <2>5 DEF Step, Moves, Handle, local, Arrive, InsertMember, FindMember, SaveSelect,
                  SaveUpdate, SaveInsert, Delete, ApplyCoupon, Tag, InsertDoc, CheckMembership,
                  InsertCoupon
    <3> QED BY <3>1 DEF IInv, RowsStay
  <2> QED BY <2>1, <2>2, <2>3, <2>4, <2>5
<1>4. RowsStay'
  BY <1>1, <1>2, <1>3 DEF RowsStay, IInv
<1>5. \/ pc'[r] \in {"saveSelect", "saveUpdate", "saveInsert", "delete"}
      \/ req[r].op \in {"setRole", "removeMember"} /\ answer'[r] = "ok"
      => caller'[r] \in Membership
  <2> USE DEF IInv, MemberInHand, Goto, Finish
  <2>1. CASE FindMember(r)
    BY <2>1, OrgsAssumption DEF FindMember, MembersIn, NothingYet, Answers
  <2>2. CASE SaveSelect(r) \/ SaveUpdate(r) \/ SaveInsert(r) \/ Delete(r)
    BY <2>2 DEF SaveSelect, SaveUpdate, SaveInsert, Delete, local
  <2>3. CASE Arrive(r)
    BY <2>3, OrgsAssumption DEF Arrive, NothingYet, Answers
  <2>4. CASE InsertMember(r) \/ ApplyCoupon(r) \/ Tag(r) \/ InsertDoc(r) \/ FindDoc(r)
             \/ DecideView(r)
    BY <2>4, OrgsAssumption DEF InsertMember, ApplyCoupon, Tag, InsertDoc, FindDoc, DecideView,
            StagesOfOps, StageOfOp, Placing, NothingYet, Answers
  <2>5. CASE CheckMembership(r) \/ ListOrders(r) \/ InsertCoupon(r) \/ ListCoupons(r)
    BY <2>5, OrgsAssumption DEF CheckMembership, ListOrders, InsertCoupon, ListCoupons,
            StagesOfOps, StageOfOp, NothingYet, Answers
  <2> QED BY <2>1, <2>2, <2>3, <2>4, <2>5 DEF Step, Moves, Handle
<1>6. MemberInHand'
  BY <1>1, <1>5 DEF MemberInHand, IInv
<1> QED BY <1>4, <1>6

\* A coupon is redeemed in the org the buyer is found in.
LEMMA RedeemedIsEarned ==
    ASSUME IInv, NEW r \in Requests, ApplyCoupon(r), pc'[r] # "done"
    PROVE  pc'[r] = "tag" /\ Earned(r, req[r].code)
<1>1. PICK m \in ForUser(req[r].user), c \in coupons :
          c.code = req[r].code /\ Redeemable(r, c, m) /\ pc'[r] = "tag"
  BY DEF ApplyCoupon, Goto, Finish, IInv, Types
<1>2. TagOf(r, OrgOf(m))
  BY FoundIsHeld DEF ApplyCoupon, IInv, StagesOfOps, StageOfOp, Managing
<1>3. c.org # NoOrg => \E standing \in held[r] : \E s \in standing : s.org = c.org
  BY <1>1, <1>2 DEF Redeemable, TagOf, OrgOf
<1> QED BY <1>1, <1>3 DEF Earned

LEMMA PlacedStep ==
    ASSUME IInv, NEW r \in Requests, Step(r)
    PROVE  PlacedForMembers' /\ TagIsTrue'
<1> USE DEF Types, TypeOK
<1>1. /\ req' = req /\ pc[r] # "done"
      /\ \A s \in Requests \ {r} : pc'[s] = pc[s] /\ caller'[s] = caller[s]
  BY OwnRowsOnly, OwnHandsOnly DEF Step, IInv
<1>2. ASSUME pc'[r] \in {"tag", "insertDoc"}, req[r].code # NoCode
      PROVE  Earned(r, req[r].code)
  <2>1. CASE ApplyCoupon(r)
    BY <1>2, <2>1, RedeemedIsEarned
  <2>2. CASE Tag(r)
    BY <1>2, <2>2 DEF Tag, IInv, PlacedForMembers
  <2>3. CASE Arrive(r)
    BY <1>2, <2>3 DEF Arrive, Goto, IInv
  <2>4. CASE ~(ApplyCoupon(r) \/ Tag(r) \/ Arrive(r))
    BY <1>1, <1>2, <2>4 DEF Step, Moves, Handle, Goto, Finish, IInv, InsertMember, FindMember,
       SaveSelect, SaveUpdate, SaveInsert, Delete, InsertDoc, FindDoc, DecideView,
       CheckMembership, ListOrders, InsertCoupon, ListCoupons
  <2> QED BY <2>1, <2>2, <2>3, <2>4
<1>3. ASSUME pc'[r] = "insertDoc"
      PROVE  TagOf(r, OrgOf(caller'[r]))
  <2>1. Tag(r)
    BY <1>1, <1>3 DEF Step, Moves, Handle, Goto, Finish, IInv, Arrive, InsertMember, FindMember,
       SaveSelect, SaveUpdate, SaveInsert, Delete, ApplyCoupon, InsertDoc, FindDoc, DecideView,
       CheckMembership, ListOrders, InsertCoupon, ListCoupons
  <2>2. PICK m \in ForUser(req[r].user) : caller'[r] = m /\ pc[r] = "tag"
    BY <2>1 DEF Tag, IInv
  <2> QED BY <2>2, FoundIsHeld DEF IInv, StagesOfOps, StageOfOp, Managing, Placing
<1>4. \A s \in Requests :
          /\ pc'[s] \in {"tag", "insertDoc"} /\ req[s].code # NoCode => Earned(s, req[s].code)'
          /\ pc'[s] = "insertDoc" => TagOf(s, OrgOf(caller[s]))'
  <2> SUFFICES ASSUME NEW s \in Requests
               PROVE  /\ pc'[s] \in {"tag", "insertDoc"} /\ req[s].code # NoCode
                            => Earned(s, req[s].code)'
                      /\ pc'[s] = "insertDoc" => TagOf(s, OrgOf(caller[s]))'
    OBVIOUS
  <2>1. /\ pc'[s] \in {"tag", "insertDoc"} /\ req[s].code # NoCode => Earned(s, req[s].code)
        /\ pc'[s] = "insertDoc" => TagOf(s, OrgOf(caller'[s]))
    BY <1>1, <1>2, <1>3 DEF IInv, PlacedForMembers
  <2>2. held[s] \subseteq held'[s] /\ coupons \subseteq coupons'
    BY HistoryGrows, TablesGrow DEF Step, IInv
  <2> QED BY <1>1, <2>1, <2>2 DEF TagOf, Earned, OrgOf
<1>5. \A d \in docs' : d.id \in Requests =>
          /\ d.code # NoCode => Earned(d.id, d.code)
          /\ TagOf(d.id, d.org)
  <2>1. \A d \in docs : d.id \in Requests =>
            /\ d.code # NoCode => Earned(d.id, d.code)
            /\ TagOf(d.id, d.org)
    BY DEF IInv, PlacedForMembers, TagIsTrue, TagOf
  <2>2. CASE docs' # docs
    <3>1. /\ pc[r] = "insertDoc"
          /\ docs' = docs \cup {NewDoc(r)}
      BY <2>2, TablesGrow DEF Step, IInv, InsertDoc
    <3>2. /\ req[r].code # NoCode => Earned(r, req[r].code)
          /\ TagOf(r, OrgOf(caller[r]))
      BY <3>1 DEF IInv, PlacedForMembers
    <3> QED BY <2>1, <3>1, <3>2 DEF NewDoc
  <2> QED BY <2>1, <2>2
<1>6. \A d \in docs' : d.id \in Requests =>
          /\ d.code # NoCode => Earned(d.id, d.code)'
          /\ TagOf(d.id, d.org)'
  BY <1>5, HistoryKeeps
<1> QED BY <1>1, <1>4, <1>6 DEF PlacedForMembers, TagIsTrue, TagOf, Earned, OrgOf

LEMMA ShownStep ==
    ASSUME IInv, NEW r \in Requests, Step(r)
    PROVE  ShownToManagersOnly'
<1> USE DEF Types, TypeOK, Managing
<1>1. /\ req' = req /\ pc[r] # "done"
      /\ \A s \in Requests \ {r} : shown'[s] = shown[s]
  BY OwnRowsOnly, OwnHandsOnly DEF Step, IInv
<1>2. \A d \in docs' : d \in docs \/ d.id = r
  BY TablesGrow DEF Step, IInv, NewDoc
\* A row that is new is not among those shown: they were there before.
<1>3. \A s \in Requests : \A d \in docs' :
          req[s].op \in {"read", "listOrders"} /\ d.id \in shown[s] => d \in docs
  <2>1. \A d \in docs : d.id # r
    BY <1>1 DEF IInv, IdsAreMadeOnce, Made
  <2> QED BY <1>2, <2>1 DEF IInv, RowsStay
<1>4. \A d \in docs :
          req[r].op \in {"read", "listOrders"} /\ d.id \in shown'[r] =>
              \/ d.user = req[r].user \/ IsAdmin(r)
              \/ d.kind = "ticket" /\ req[r].user \in Agents
              \/ \E standing \in held[r] : Manages(standing, d.org)
  <2>1. CASE FindDoc(r)
    BY <2>1 DEF FindDoc, OwnOrAdmin, SeenAsAgent, Finish, IInv, ManagersOnly,
                ShownToManagersOnly, IdsAreMadeOnce
  <2>2. CASE DecideView(r)
    <3>1. PICK m \in ForUser(req[r].user) :
              \/ shown' = shown
              \/ /\ InOrgOf(r, m) /\ subject[r] \in docs
                 /\ shown' = [shown EXCEPT ![r] = {subject[r].id}]
      BY <2>2 DEF DecideView, IInv, RowsStay
    <3>2. IsOwnerOrAdmin(m) => \E standing \in held[r] : Manages(standing, m.org)
      BY <2>2, FoundIsHeld DEF DecideView
    <3> QED BY <3>1, <3>2 DEF InOrgOf, IInv, ManagersOnly, ShownToManagersOnly, IdsAreMadeOnce
  <2>3. CASE ListOrders(r)
    <3>1. \E standing \in held[r] : Manages(standing, caller[r].org)
      BY <2>3 DEF ListOrders, IInv, ManagerInHand
    <3>2. \A d \in docs : d.id \in shown'[r] => d.org = caller[r].org
      BY <2>3 DEF ListOrders, ByOrg, IInv, IdsAreMadeOnce
    <3> QED BY <3>1, <3>2
  <2>4. CASE ListCoupons(r)
    BY <2>4 DEF ListCoupons
  <2>5. CASE ~(FindDoc(r) \/ DecideView(r) \/ ListOrders(r) \/ ListCoupons(r))
    <3>1. shown' = shown
      BY <2>5 DEF Step, Moves, Handle, local, Arrive, InsertMember, FindMember, SaveSelect,
                  SaveUpdate, SaveInsert, Delete, ApplyCoupon, Tag, InsertDoc, CheckMembership,
                  InsertCoupon
    <3> QED BY <3>1 DEF IInv, ManagersOnly, ShownToManagersOnly
  <2> QED BY <2>1, <2>2, <2>3, <2>4, <2>5
<1>5. \A d \in docs' : req[r].op \in {"read", "listOrders"} /\ d.id \in shown'[r] => d \in docs
  <2>1. shown'[r] \subseteq {d.id : d \in docs} \/ req[r].op \notin {"read", "listOrders"}
    BY DEF Step, Moves, Handle, local, Arrive, InsertMember, FindMember, SaveSelect, SaveUpdate,
           SaveInsert, Delete, ApplyCoupon, Tag, InsertDoc, FindDoc, DecideView, CheckMembership,
           ListOrders, ByOrg, InsertCoupon, ListCoupons, IInv, RowsStay
  <2>2. \A d \in docs : d.id # r
    BY <1>1 DEF IInv, IdsAreMadeOnce, Made
  <2> QED BY <1>2, <2>1, <2>2
<1> SUFFICES ASSUME NEW s \in Requests, NEW d \in docs',
                    req[s].op \in {"read", "listOrders"}, d.id \in shown'[s]
             PROVE  \/ d.user = req[s].user \/ IsAdmin(s)
                    \/ d.kind = "ticket" /\ req[s].user \in Agents
                    \/ \E standing \in held'[s] : Manages(standing, d.org)
  BY <1>1 DEF ShownToManagersOnly, IsAdmin, Manages
<1>6. \/ d.user = req[s].user \/ IsAdmin(s)
      \/ d.kind = "ticket" /\ req[s].user \in Agents
      \/ \E standing \in held[s] : Manages(standing, d.org)
  BY <1>1, <1>3, <1>4, <1>5 DEF IInv, ManagersOnly, ShownToManagersOnly
<1> QED BY <1>6, HistoryKeeps

LEMMA ListStep ==
    ASSUME IInv, NEW r \in Requests, Step(r)
    PROVE  ListIsComplete' /\ CouponsByManagers'
<1> USE DEF Types, TypeOK, Managing
<1>1. /\ req' = req /\ pc[r] # "done"
      /\ answer'[r] = answer[r] \/ pc'[r] = "done"
      /\ \A s \in Requests \ {r} : /\ shown'[s] = shown[s] /\ answer'[s] = answer[s]
                                   /\ before'[s] = before[s] /\ caller'[s] = caller[s]
      /\ before'[r] = before[r] \/ pc[r] = "idle"
  BY OwnRowsOnly, OwnHandsOnly DEF Step, IInv
<1>2. \A d \in docs' : d \in docs \/ d.id = r
  BY TablesGrow DEF Step, IInv, NewDoc
<1>3. \A s \in Requests : r \notin before[s] \cup Seeds
  BY <1>1, OrgsAssumption DEF IInv, BeforeIsDone
<1>4. ASSUME req[r].op = "listOrders", answer'[r] = "granted"
      PROVE  ListOrders(r) /\ docs' = docs
  <2>1. answer[r] # "granted"
    BY <1>1, OrgsAssumption DEF IInv, NothingYet, Answers
  <2>2. ListOrders(r)
    BY <1>4, <2>1 DEF Step, Moves, Handle, local, Goto, Finish, Arrive, InsertMember, FindMember,
       SaveSelect, SaveUpdate, SaveInsert, Delete, ApplyCoupon, Tag, InsertDoc, FindDoc,
       DecideView, CheckMembership, InsertCoupon, ListCoupons, IInv, StagesOfOps, StageOfOp
  <2> QED BY <2>2 DEF ListOrders, tables
<1>5. ListIsComplete'
  <2> SUFFICES ASSUME NEW s \in Requests, NEW d \in docs', req[s].op = "listOrders",
                      answer'[s] = "granted", d.kind = "order",
                      d.id \in before'[s] \cup Seeds, d.org = caller'[s].org
               PROVE  d.id \in shown'[s]
    BY <1>1 DEF ListIsComplete
  <2>1. CASE s = r
    <3>1. ListOrders(r) /\ d \in docs
      BY <1>4, <2>1
    <3> QED BY <2>1, <3>1 DEF ListOrders, ByOrg, IInv
  <2>2. CASE s # r
    <3>1. d \in docs
      BY <1>1, <1>2, <1>3, <2>2
    <3> QED BY <1>1, <2>2, <3>1 DEF IInv, ManagersOnly, ListIsComplete
  <2> QED BY <2>1, <2>2
<1>6. \A c \in coupons' : c.by \in Requests /\ ~IsAdmin(c.by) =>
          \E standing \in held[c.by] : Manages(standing, c.org)
  <2>1. CASE coupons' = coupons
    BY <2>1 DEF IInv, ManagersOnly, CouponsByManagers
  <2>2. CASE coupons' # coupons
    <3>1. /\ InsertCoupon(r)
          /\ coupons' = coupons \cup {[code |-> req[r].code, org |-> CouponOrg(r), by |-> r]}
      BY <2>2, TablesGrow DEF Step, IInv
    <3>2. ~IsAdmin(r) => \E standing \in held[r] : Manages(standing, CouponOrg(r))
      BY <3>1 DEF InsertCoupon, IInv, ManagerInHand, CouponOrg
    <3> QED BY <3>1, <3>2 DEF IInv, ManagersOnly, CouponsByManagers
  <2> QED BY <2>1, <2>2
<1>7. CouponsByManagers'
  <2>1. \A s \in Requests : IsAdmin(s)' <=> IsAdmin(s)
    BY <1>1 DEF IsAdmin
  <2>2. \A s \in Requests : \A org :
            (\E standing \in held[s] : Manages(standing, org)) =>
                (\E standing \in held[s] : Manages(standing, org))'
    BY HistoryKeeps DEF Manages
  <2> QED BY <1>6, <2>1, <2>2 DEF CouponsByManagers
<1> QED BY <1>5, <1>7

\* A removal and its membership, the requests that answered before a request came: what
\* Revived says lasts.
LEMMA RevivedLasts ==
    ASSUME IInv, NEW r \in Requests, Step(r), NEW s \in Requests, Removed(s), Revived(s)
    PROVE  Revived(s)'
<1>1. PICK t \in Requests : /\ req[t].op = "setRole" /\ answer[t] = "ok"
                            /\ caller[t].id = caller[s].id
                            /\ s \notin before[t] /\ t \notin before[s]
  BY DEF Revived
<1>2. t # r /\ s # r
  BY <1>1, OwnRowsOnly, OrgsAssumption DEF Step, IInv, NothingYet, Removed, Answers
<1>3. /\ req' = req /\ answer'[t] = answer[t] /\ caller'[t] = caller[t] /\ caller'[s] = caller[s]
      /\ before'[s] = before[s] /\ before'[t] = before[t]
  BY <1>2, OwnRowsOnly, OwnHandsOnly DEF Step, IInv
<1> QED BY <1>1, <1>3 DEF Revived

LEMMA RevivedStep ==
    ASSUME IInv, NEW r \in Requests, Step(r)
    PROVE  OnlyRevivedIsFound'
<1> USE DEF Types, TypeOK
<1>1. /\ req' = req /\ pc[r] # "done"
      /\ answer'[r] = answer[r] \/ pc'[r] = "done"
      /\ \A s \in Requests \ {r} : /\ answer'[s] = answer[s] /\ caller'[s] = caller[s]
                                   /\ before'[s] = before[s]
      /\ pc[r] # "idle" => before'[r] = before[r]
      /\ pc[r] = "idle" => caller'[r] = NoRow
      /\ answer[r] = NoAnswer
  BY OwnRowsOnly, OwnHandsOnly DEF Step, IInv, NothingYet, local
<1> SUFFICES ASSUME NEW s \in Requests, Removed(s)'
             PROVE  /\ (WithId(caller[s].id) # {} => Revived(s))'
                    /\ \A t \in Requests :
                          (s \in before[t] /\ caller[t] # NoRow /\ caller[t].id = caller[s].id
                           => Revived(s))'
  BY DEF OnlyRevivedIsFound
<1>2. CASE s = r
\* The removal itself: the row is gone, and nobody has come since.
  <2>1. Delete(r)
    BY <1>1, <1>2, OrgsAssumption DEF Removed, Step, Moves, Handle, local, Goto, Finish, Answers,
       Arrive, InsertMember, FindMember, SaveSelect, SaveUpdate, SaveInsert, ApplyCoupon, Tag,
       InsertDoc, FindDoc, DecideView, CheckMembership, ListOrders, InsertCoupon, ListCoupons,
       IInv, StagesOfOps, StageOfOp, Placing
  <2>2. WithId(caller[s].id)' = {}
    BY <1>2, <2>1 DEF Delete, WithId, local
  <2>3. \A t \in Requests : r \notin before'[t]
    BY <1>1, <2>1 DEF Delete, IInv, BeforeIsDone
  <2> QED BY <1>2, <2>2, <2>3
<1>3. CASE s # r
  <2>1. Removed(s) /\ caller'[s] = caller[s] /\ caller[s] \in Membership
    BY <1>1, <1>3 DEF Removed, IInv, MemberInHand
  <2>2. CASE Revived(s)
    BY <2>1, <2>2, RevivedLasts
  <2>3. CASE ~Revived(s)
    <3>1. WithId(caller[s].id) = {}
      BY <2>1, <2>3 DEF IInv, OnlyRevivedIsFound
    <3>2. Made(caller[s].id)
      BY <2>1, OrgsAssumption DEF IInv, IdsAreMadeOnce
    <3>3. caller[s].id # r
      BY <1>1, <3>2 DEF Made
    <3>4. ASSUME NEW t \in Requests, s \in before'[t], caller'[t] # NoRow,
                 caller'[t].id = caller[s].id
          PROVE  FALSE
      <4>1. CASE t # r
        BY <1>1, <2>1, <2>3, <3>4, <4>1 DEF IInv, OnlyRevivedIsFound
      <4>2. CASE t = r
        <5>1. before'[r] = before[r]
          BY <1>1, <3>4, <4>2
        <5>2. caller'[r] = caller[r] \/ caller'[r] \in members \cup {NoRow}
          BY DEF Step, Moves, Handle, tables, local, Arrive, InsertMember, FindMember, SaveSelect,
                 SaveUpdate, SaveInsert, Delete, ApplyCoupon, Tag, InsertDoc, FindDoc, DecideView,
                 CheckMembership, ListOrders, InsertCoupon, ListCoupons, ForUser, MembersIn, IInv
        <5>3. caller'[r] \notin members
          BY <3>1, <3>4, <4>2 DEF WithId
        <5> QED BY <2>1, <2>3, <3>4, <4>2, <5>1, <5>2, <5>3 DEF IInv, OnlyRevivedIsFound
      <4> QED BY <4>1, <4>2
    <3>5. ASSUME WithId(caller[s].id)' # {}
          PROVE  Revived(s)'
\* Only an insert of save brings the row back, and it is its own witness.
      <4>1. PICK m \in members' : m.id = caller[s].id
        BY <2>1, <3>5 DEF WithId
      <4>2. SaveInsert(r)
        <5>1. ~(members' \subseteq members)
          BY <3>1, <4>1 DEF WithId
        <5>2. ~InsertMember(r)
          <6>1. SUFFICES ASSUME InsertMember(r) PROVE FALSE
            OBVIOUS
          <6> QED BY <3>1, <3>3, <4>1, <6>1 DEF InsertMember, WithId
        <5>3. ~SaveUpdate(r)
          BY <3>1, <4>1, UpdateKeeps DEF WithId, IInv
        <5> QED BY <5>1, <5>2, <5>3, MembersChange DEF Step
      <4>3. /\ caller[r] \in Membership /\ req[r].op = "setRole"
            /\ caller'[r] = caller[r] /\ before' = before
            /\ m \in members \/ (m.id = caller[r].id /\ answer'[r] = "ok")
        BY <4>2 DEF SaveInsert, Finish, local, Membership, IInv, MemberInHand,
                    StagesOfOps, StageOfOp
      <4>4. caller[r].id = caller[s].id /\ answer'[r] = "ok"
        BY <3>1, <4>1, <4>3 DEF WithId
      <4>5. r \notin before[s]
        BY <1>1 DEF IInv, BeforeIsDone
      <4>6. s \notin before[r]
        BY <2>1, <2>3, <4>3, <4>4, OrgsAssumption DEF IInv, OnlyRevivedIsFound
      <4> QED BY <1>1, <2>1, <4>3, <4>4, <4>5, <4>6 DEF Revived
    <3> QED BY <2>1, <3>4, <3>5
  <2> QED BY <2>2, <2>3
<1> QED BY <1>2, <1>3

------------------------------------------------------------------------------
LEMMA Unchanged ==
    ASSUME IInv, UNCHANGED vars
    PROVE  IInv'
<1> USE DEF vars, tables, local, history
<1>1. Types' /\ StagesOfOps' /\ NothingYet' /\ BeforeIsDone' /\ HeldIsCurrent'
  BY DEF IInv, Types, TypeOK, OnePerOrgAndUser, OnePerCode, StagesOfOps, StageOfOp, NothingYet,
         BeforeIsDone, HeldIsCurrent, Standing
<1>2. IdsAreMadeOnce' /\ ManagerInHand' /\ RowsStay'
  BY DEF IInv, IdsAreMadeOnce, Made, ManagerInHand, Manages, IsAdmin, RowsStay
<1>3. PlacedForMembers' /\ TagIsTrue' /\ MemberInHand'
  <2>1. PlacedForMembers'
    BY DEF IInv, PlacedForMembers, Earned, TagOf, OrgOf
  <2>2. TagIsTrue'
    BY DEF IInv, TagIsTrue, Earned, TagOf, OrgOf
  <2>3. MemberInHand'
    BY DEF IInv, MemberInHand
  <2> QED BY <2>1, <2>2, <2>3
<1>4. OnlyRevivedIsFound'
  BY DEF IInv, OnlyRevivedIsFound, Removed, Revived, WithId
<1>5. ManagersOnly'
  BY DEF IInv, ManagersOnly, ShownToManagersOnly, ListIsComplete, CouponsByManagers, Manages,
         IsAdmin
<1> QED BY <1>1, <1>2, <1>3, <1>4, <1>5 DEF IInv

LEMMA NextStep == IInv /\ [Next]_vars => IInv'
<1> SUFFICES ASSUME IInv, [Next]_vars PROVE IInv'
  OBVIOUS
<1>1. CASE UNCHANGED vars
  BY <1>1, Unchanged
<1>2. ASSUME NEW r \in Requests, Step(r)
      PROVE  IInv'
  BY <1>2, TypesStep, StagesStep, HistoryGrows, IdsStep, ManagerStep, RowsStep, PlacedStep,
     RevivedStep, ShownStep, ListStep DEF IInv, ManagersOnly
<1>3. CASE Next
  <2>1. PICK r \in Requests : Step(r)
    BY <1>3 DEF Next, Step, Moves
  <2> QED BY <1>2, <2>1
<1> QED BY <1>1, <1>3

LEMMA Invariance == Spec => []IInv
<1> QED BY InitInv, NextStep, PTL DEF Spec

------------------------------------------------------------------------------
\* The rows keep their types and the unique constraints whatever interleaves.
THEOREM TypeCorrect == Spec => []TypeOK
<1>1. IInv => TypeOK
  BY DEF IInv, Types
<1> QED BY <1>1, Invariance, PTL

\* What managers of an org may see and make is for those who managed it while their
\* request ran, and a list of its orders leaves none out.
THEOREM OnlyManagersManage == Spec => []ManagersOnly
<1>1. IInv => ManagersOnly
  BY DEF IInv
<1> QED BY <1>1, Invariance, PTL

\* What an order is placed for follows from what was redeemed and from its tag: coupons
\* have one row to a code, and an order of another org was tagged with a membership that
\* is not the only one its owner ever had.
LEMMA CouponsStayInside == IInv => OrgCouponsStayInside
<1> SUFFICES ASSUME IInv, NEW d \in docs, d.id \in Requests, d.code # NoCode,
                    CouponWith(d.code).org # NoOrg
             PROVE  /\ \E standing \in held[d.id] : \E s \in standing :
                           s.org = CouponWith(d.code).org
                    /\ d.org # CouponWith(d.code).org =>
                          \E standing \in held[d.id] :
                             {s.org : s \in standing} # {CouponWith(d.code).org}
  <2>1. IInv => \A d \in docs :
            d.id \in Requests /\ d.code # NoCode /\ CouponWith(d.code).org # NoOrg =>
               /\ \E standing \in held[d.id] :
                     CouponWith(d.code).org \in {s.org : s \in standing}
               /\ d.org # CouponWith(d.code).org =>
                     \E standing \in held[d.id] :
                        {s.org : s \in standing} # {CouponWith(d.code).org}
    OBVIOUS
  <2> QED BY <2>1 DEF OrgCouponsStayInside
<1>1. PICK c \in coupons :
          /\ c.code = d.code
          /\ c.org # NoOrg => \E standing \in held[d.id] : \E s \in standing : s.org = c.org
  BY DEF IInv, PlacedForMembers, Earned
<1>2. CouponWith(d.code) = c
  BY <1>1 DEF CouponWith, IInv, Types, TypeOK, OnePerCode
<1>3. PICK standing \in held[d.id] :
          IF d.org = NoOrg THEN standing = {} ELSE \E s \in standing : s.org = d.org
  BY DEF IInv, TagIsTrue
<1>4. d.org # c.org => {s.org : s \in standing} # {c.org}
  BY <1>3
<1> QED BY <1>1, <1>2, <1>4

\* What is placed for an org, or with its coupon, was placed by one of its members.
THEOREM OnlyMembersOrder == Spec => []OrdersAreMembers
<1>1. IInv => OrdersAreMembers
  BY CouponsStayInside DEF IInv, OrdersAreMembers
<1> QED BY <1>1, Invariance, PTL

\* A membership that was removed comes back only by a change of its role which ran beside
\* the removal.
THEOREM RemovalsLast == Spec => []RemovedStaysRemoved
<1>1. IInv => RemovedStaysRemoved
  BY DEF IInv, OnlyRevivedIsFound, RemovedStaysRemoved, Removed, Revived
<1> QED BY <1>1, Invariance, PTL
=============================================================================
