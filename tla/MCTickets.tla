----------------------------- MODULE MCTickets -----------------------------
(***************************************************************************)
(* Values for the constants of Tickets.                                    *)
(***************************************************************************)
EXTENDS Tickets

CONSTANTS a1, a2

B(op, by, t) == [op |-> op, by |-> by, ticket |-> t, assignee |-> NoAgent]
AssignTo(a, t) == [op |-> "assign", by |-> Admin, ticket |-> t, assignee |-> a]

\* The whole workflow of ticket 1 with two rivals for each step, and a ticket that is
\* created meanwhile.
MCReq == <<B("create", Owner, 2), AssignTo(a2, 1), B("claim", a1, 1), B("claim", a2, 1),
           B("start", a1, 1), B("start", Admin, 1), B("resolve", Admin, 1),
           B("close", Owner, 1), B("cancel", Owner, 1)>>
MCRequests == DOMAIN MCReq

\* Ticket 1 is new, being worked on by an agent, or resolved.
T(status, agent, log) ==
    [row |-> [NewRow EXCEPT !.status = status, !.assignedTo = agent], history |-> log]
MCStart == {T("open", NoAgent, <<"created">>),
            T("in_progress", a1, <<"created", "claimed", "started">>),
            T("resolved", a1, <<"created", "claimed", "started", "resolved">>)}
=============================================================================
