---------------------------- MODULE MCFulfilment ----------------------------
(***************************************************************************)
(* Values for the constants of Fulfilment.                                 *)
(***************************************************************************)
EXTENDS Fulfilment

Asking(f, k) == Cardinality({r \in Requests : f[r] = k})

\* Requests are alike, so their kinds are taken in one order: at most two of each,
\* so that every kind races with itself.
Order == [fulfil |-> 0, submit |-> 1, approve |-> 2, reject |-> 3]

MCCalls == {f \in [Requests -> Kinds] :
               /\ \A q, r \in Requests : q < r => Order[f[q]] <= Order[f[r]]
               /\ \A k \in Kinds : Asking(f, k) \in 0..2}
=============================================================================
