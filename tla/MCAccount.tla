----------------------------- MODULE MCAccount -----------------------------
(***************************************************************************)
(* Values for the constants of Account.                                    *)
(***************************************************************************)
EXTENDS Account, TLC

B(op) == [op |-> op, ifMatch |-> NoTag]
IfMatch(op, version) == [op |-> op, ifMatch |-> version]

\* Everything an account sees.
MCBodies == {B(op) : op \in Operations \ {"patch"}} \cup {IfMatch("patch", 1)}

Symmetry == Permutations(Requests)
=============================================================================
