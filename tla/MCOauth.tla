------------------------------ MODULE MCOauth ------------------------------
(***************************************************************************)
(* Values for the constants of Oauth.                                      *)
(***************************************************************************)
EXTENDS Oauth, TLC

CONSTANTS u1, u2, d1, d2, v1, v2

B(op, client, form, redirect, verifier) ==
    [op |-> op, client |-> client, user |-> u1, form |-> form,
     redirect |-> redirect, verifier |-> verifier]

\* Every way through the consent page, the right exchange and one with each thing
\* wrong, a refresh by either client, and the other grant.
MCBodies == {
    B("consent", "public", "allow", d1, v1),
    B("consent", "public", "deny", d1, v1),
    B("consent", "public", "wrongPassword", d1, v1),
    [B("consent", "public", "allow", d1, v1) EXCEPT !.user = u2],
    B("exchange", "public", "allow", d1, v1),
    B("exchange", "public", "allow", d2, v1),
    B("exchange", "public", "allow", d1, v2),
    B("exchange", "confidential", "allow", d1, v1),
    B("refresh", "public", "allow", d1, v1),
    B("refresh", "confidential", "allow", d1, v1),
    B("client", "confidential", "allow", d1, v1) }

Symmetry == Permutations(Requests)
=============================================================================
