----------------------------- MODULE MCReviews -----------------------------
(***************************************************************************)
(* Values for the constants of Reviews.                                    *)
(***************************************************************************)
EXTENDS Reviews, TLC

CONSTANTS u1, u2, u3, p1, p2, s1, s2

B(op, user, product, limit) == [op |-> op, user |-> user, product |-> product, limit |-> limit]

\* Two reviewers of a product that has a review by a third, who wrote another on a
\* second product in the same instant; pages of one.
MCBodies == {
    B("create", u1, p1, 1), B("create", u2, p1, 1),
    B("walk", u1, p1, 1), B("reply", u1, p1, 1) }

MCSeed == (s1 :> B("create", u3, p1, 1)) @@ (s2 :> B("create", u3, p2, 1))

Symmetry == Permutations(ReviewRequests \ {s1, s2})
=============================================================================
