------------------------------- MODULE MCOrgs -------------------------------
(***************************************************************************)
(* Values for the constants of Orgs.                                       *)
(***************************************************************************)
EXTENDS Orgs, TLC

CONSTANTS boss, buyer, clerk, root, a, b, gold, iron, s1, s2

B(op, user, org, role, code) ==
    [op |-> op, user |-> user, org |-> org, role |-> role, code |-> code]

\* boss owns a and buyer is one of its members, with an order of that time; clerk is an
\* agent.
MCMembers == {[id |-> s1, org |-> a, user |-> boss, role |-> "owner"],
              [id |-> s2, org |-> a, user |-> buyer, role |-> "member"]}
MCDocs == {[id |-> s2, kind |-> "order", user |-> buyer, org |-> a, code |-> NoCode]}
MCCoupons == {[code |-> gold, org |-> a, by |-> s1]}

\* The members change orgs and roles under what they, clerk and the admin root ask for.
MCBodies == {
    B("addMember", buyer, a, "member", NoCode), B("addMember", buyer, b, "admin", NoCode),
    B("addMember", boss, b, "owner", NoCode), B("addMember", clerk, a, "admin", NoCode),
    B("setRole", root, a, "member", NoCode), B("setRole", root, a, "owner", NoCode),
    B("removeMember", root, a, "member", NoCode),
    B("place", buyer, NoOrg, "member", NoCode), B("place", buyer, b, "member", gold),
    B("place", buyer, NoOrg, "member", iron),
    B("submit", buyer, NoOrg, "member", NoCode),
    B("read", boss, NoOrg, "member", NoCode), B("read", root, NoOrg, "member", NoCode),
    B("read", clerk, NoOrg, "member", NoCode),
    B("listOrders", boss, NoOrg, "member", NoCode),
    B("createCoupon", boss, NoOrg, "member", iron),
    B("createCoupon", boss, b, "member", iron),
    B("createCoupon", root, b, "member", iron),
    B("listCoupons", boss, NoOrg, "member", NoCode) }

Symmetry == Permutations(Requests)
=============================================================================
