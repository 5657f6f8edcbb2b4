------------------------------ MODULE Tickets ------------------------------
(***************************************************************************)
(* Support tickets (TicketsService) and the background SLA sweep           *)
(* (TicketSlaSweepService).  Handlers read a ticket, check it, save it and *)
(* log an event, with no transaction; the sweep stamps overdue tickets     *)
(* meanwhile and LoadAdminService.reset deletes tickets under both.        *)
(***************************************************************************)
EXTENDS EntitySave, Integers, SequencesExt

CONSTANTS
    Tickets,        \* 1..n, in the order of their SLA deadlines
    Existing,       \* tickets created before the model starts ...
    Start,          \* ... and what they may look like: rows with their history
    TicketRequests,
    req,            \* the body of each request
    Sweeps,         \* identities for runs of the sweep
    Owner, Admin, Agents, NoAgent,
    NoTicket,       \* no row
    Batch,          \* SLA_SWEEP_BATCH
    MaxServed,      \* bound: requests that are served, of all that may be
    MaxIncidents       \* bound: load resets and restarts

Operations == {"create", "assign", "claim", "start", "resolve", "close", "cancel"}
Body == [op : Operations, by : {Owner, Admin} \cup Agents, ticket : Tickets,
         assignee : Agents \cup {NoAgent}]

TicketStatus == {"open", "in_progress", "resolved", "closed", "cancelled"}
TicketRow == [status : TicketStatus, assignedTo : Agents \cup {NoAgent},
        slaBreached : BOOLEAN, breachedAt : Nat]

TicketEvents == {"created", "assigned", "claimed", "started", "resolved", "closed",
                 "cancelled", "sla_breached"}

Creates(r) == req[r].op = "create"

ASSUME TicketsAssumption ==
    /\ Tickets \subseteq Nat /\ IsFiniteSet(Tickets) /\ Existing \subseteq Tickets
    /\ req \in [TicketRequests -> Body]
    /\ \A r, s \in TicketRequests :       \* a new ticket has an id of its own
          Creates(r) => /\ req[r].ticket \notin Existing
                        /\ Creates(s) /\ req[r].ticket = req[s].ticket => r = s
    /\ \A r \in TicketRequests :      \* Roles(AGENT)
          req[r].op = "claim" => req[r].by \in Agents
    /\ NoAgent \notin Agents
    /\ {Owner, Admin} \cap Agents = {}
    /\ NoTicket \notin TicketRow
    /\ \A t \in Start : t.row \in TicketRow /\ ~t.row.slaBreached
    /\ Batch \in Nat \ {0} /\ MaxServed \in Nat /\ MaxIncidents \in Nat

VARIABLES
    tickets,            \* tickets rows
    history,        \* ticket_events per ticket, oldest first
    overdue,        \* tickets past their deadline
    stamps,         \* breaches stamped so far: the clock breachedAt is read from
    ticketPc, ticketAnswer,
    mine, selected,    \* the entity in memory, the row as its save selected it
    sweeping,       \* the sweep's flag
    batch, at,      \* what each running sweep has left, and where it is
    incidents,      \* load resets and restarts so far
    rushed,         \* history: tickets with two requests in progress at once
    held,           \* history: tickets with a request in progress at a reset
    unlogged,       \* history: tickets whose event a restart cut off
    since           \* history: per sweep, tickets saved since it read its batch

rows == <<tickets, history>>
handlers == <<ticketPc, ticketAnswer, mine, selected>>
sweeper == <<sweeping, batch, at>>
past == <<incidents, rushed, held, unlogged>>
ticketVars == <<rows, overdue, stamps, handlers, sweeper, past, since>>

NewRow == [status |-> "open", assignedTo |-> NoAgent, slaBreached |-> FALSE,
           breachedAt |-> 0]

TicketsInit ==
    /\ \E start \in [Existing -> Start] :
          /\ tickets = [t \in Tickets |-> IF t \in Existing THEN start[t].row ELSE NoTicket]
          /\ history = [t \in Tickets |-> IF t \in Existing THEN start[t].history ELSE <<>>]
    /\ overdue = {}
    /\ stamps = 0
    /\ ticketPc = [r \in TicketRequests |-> "idle"]
    /\ ticketAnswer = [r \in TicketRequests |-> "none"]
    /\ mine = [r \in TicketRequests |-> NoTicket]
    /\ selected = [r \in TicketRequests |-> NoTicket]
    /\ sweeping = FALSE
    /\ batch = [s \in Sweeps |-> <<>>]
    /\ at = [s \in Sweeps |-> "idle"]
    /\ incidents = 0
    /\ rushed = {} /\ held = {} /\ unlogged = {}
    /\ since = [s \in Sweeps |-> {}]

Gone(t) == tickets[t] = NoTicket
Record(t, event) == history' = [history EXCEPT ![t] = Append(@, event)]

MoveTo(r, to) == ticketPc' = [ticketPc EXCEPT ![r] = to]
AnswerWith(r, a) == MoveTo(r, "done") /\ ticketAnswer' = [ticketAnswer EXCEPT ![r] = a]

------------------------------------------------------------------------------
(***************************************************************************)
(* Who may do what, when.                                                  *)
(***************************************************************************)
\* canView, for users without an organization role.
CanView(q, ticket) ==
    \/ q.by \in {Owner, Admin}
    \/ ticket.assignedTo \in {NoAgent, q.by}

\* isAssignedActor, or the owner for close and cancel.
IsActor(q, ticket) ==
    IF q.op \in {"start", "resolve"} THEN q.by \in {Admin, ticket.assignedTo}
                                     ELSE q.by = Owner

From == [start |-> {"open"}, resolve |-> {"in_progress"},
         close |-> {"resolved"}, cancel |-> {"open", "in_progress"}]
To == [start |-> "in_progress", resolve |-> "resolved",
       close |-> "closed", cancel |-> "cancelled"]
Event == [assign |-> "assigned", claim |-> "claimed", start |-> "started",
          resolve |-> "resolved", close |-> "closed", cancel |-> "cancelled"]

\* Mutant: no check of the status.
AnyStatus(q, ticket) ==
    CASE q.op = "assign" -> "none"
      [] q.op = "claim" -> IF ticket.assignedTo = NoAgent THEN "none" ELSE "conflict"
      [] ~CanView(q, ticket) -> "notFound"
      [] ~IsActor(q, ticket) -> "forbidden"
      [] OTHER -> "none"

\* What the checks after the read answer, in their order.
Refusal(q, ticket) ==
    CASE q.op = "assign" -> "none"
      [] q.op = "claim" -> IF ticket.assignedTo = NoAgent THEN "none" ELSE "conflict"
      [] ~CanView(q, ticket) -> "notFound"
      [] ~IsActor(q, ticket) -> "forbidden"
      [] ticket.status \notin From[q.op] -> "conflict"
      [] OTHER -> "none"

Changed(q, ticket) ==
    CASE q.op = "assign" -> [ticket EXCEPT !.assignedTo = q.assignee]
      [] q.op = "claim" -> [ticket EXCEPT !.assignedTo = q.by]
      [] OTHER -> [ticket EXCEPT !.status = To[q.op]]

------------------------------------------------------------------------------
(***************************************************************************)
(* What a history says of a ticket.                                        *)
(***************************************************************************)
\* The positions of the events that move the status.
Moves(events) == {i \in DOMAIN events : \E op \in DOMAIN From : events[i] = Event[op]}

\* The status that the last of them stands for.
StatusOf(events) ==
    IF Moves(events) = {} THEN "open"
    ELSE LET last == CHOOSE i \in Moves(events) : \A j \in Moves(events) : j <= i
         IN  To[CHOOSE op \in DOMAIN From : Event[op] = events[last]]

\* Each move of a history is legal after the moves before it.
LegalHistory(events) ==
    \A i \in DOMAIN events, op \in DOMAIN From :
        events[i] = Event[op] => StatusOf(SubSeq(events, 1, i - 1)) \in From[op]

\* The tickets there are have been through the workflow.
ASSUME StartAssumption ==
    \A t \in Start :
        /\ t.history \in Seq(TicketEvents)
        /\ LegalHistory(t.history) /\ t.row.status = StatusOf(t.history)

------------------------------------------------------------------------------
(***************************************************************************)
(* Handlers.                                                               *)
(***************************************************************************)
InProgress(t) ==
    {r \in TicketRequests : req[r].ticket = t /\ ticketPc[r] \notin {"idle", "done"}}

Serve(r) ==
    /\ ticketPc[r] = "idle"
    /\ Cardinality({s \in TicketRequests : ticketPc[s] # "idle"}) < MaxServed
    /\ rushed' = IF InProgress(req[r].ticket) = {} THEN rushed
                                                   ELSE rushed \cup {req[r].ticket}
    /\ UNCHANGED <<incidents, held, unlogged>>

Create(r) ==
    /\ Serve(r) /\ Creates(r)
    /\ tickets' = [tickets EXCEPT ![req[r].ticket] = NewRow]
    /\ MoveTo(r, "log")
    /\ UNCHANGED <<history, overdue, stamps, ticketAnswer, mine, selected, sweeper, since>>

ReadTicket(r) ==
    LET q == req[r]
        ticket == tickets[q.ticket]
    IN  /\ Serve(r) /\ ~Creates(r)
        /\ CASE Gone(q.ticket) -> AnswerWith(r, "notFound") /\ UNCHANGED mine
             [] ~Gone(q.ticket) /\ Refusal(q, ticket) # "none" ->
                    AnswerWith(r, Refusal(q, ticket)) /\ UNCHANGED mine
             [] OTHER -> /\ mine' = [mine EXCEPT ![r] = Changed(q, ticket)]
                         /\ MoveTo(r, "saveSelect")
                         /\ UNCHANGED ticketAnswer
        /\ UNCHANGED <<rows, overdue, stamps, selected, sweeper, since>>

SelectTicket(r) ==
    /\ ticketPc[r] = "saveSelect"
    /\ selected' = [selected EXCEPT ![r] = tickets[req[r].ticket]]
    /\ MoveTo(r, "saveWrite")
    /\ UNCHANGED <<rows, overdue, stamps, ticketAnswer, mine, sweeper, past, since>>

\* Mutant: every column is written.
Overwritten(r, t) == mine[r]
Merged(r, t) == Saved(tickets[t], selected[r], mine[r])

\* UPDATE of the differing columns, or INSERT when save's SELECT found no row: an error
\* if another save has inserted it by now.
WriteTicket(r) ==
    LET t == req[r].ticket
    IN  /\ ticketPc[r] = "saveWrite"
        /\ tickets' = [tickets EXCEPT ![t] =
                CASE Gone(t) -> IF selected[r] = NoTicket THEN mine[r] ELSE NoTicket
                  [] ~Gone(t) /\ selected[r] = NoTicket -> tickets[t]
                  [] OTHER -> Merged(r, t)]
        /\ since' = [s \in Sweeps |-> IF at[s] = "idle" THEN {} ELSE since[s] \cup {t}]
        /\ IF selected[r] = NoTicket /\ ~Gone(t) THEN AnswerWith(r, "error")
                                             ELSE MoveTo(r, "log") /\ UNCHANGED ticketAnswer
        /\ UNCHANGED <<history, overdue, stamps, mine, selected, sweeper, past>>

\* logEvent: the foreign key fails when the ticket was deleted meanwhile.
LogEvent(r) ==
    /\ ticketPc[r] = "log"
    /\ LET q == req[r]
       IN  IF Gone(q.ticket)
           THEN AnswerWith(r, "error") /\ UNCHANGED history
           ELSE /\ Record(q.ticket, IF Creates(r) THEN "created" ELSE Event[q.op])
                /\ AnswerWith(r, "ok")
    /\ UNCHANGED <<tickets, overdue, stamps, mine, selected, sweeper, past, since>>

Receive(r) == Create(r) \/ ReadTicket(r)
GoOn(r) == SelectTicket(r) \/ WriteTicket(r) \/ LogEvent(r)

------------------------------------------------------------------------------
(***************************************************************************)
(* The sweep.                                                              *)
(***************************************************************************)
PassDeadline(t) ==
    /\ t \notin overdue /\ ~Gone(t)
    /\ \A u \in Tickets : u < t /\ ~Gone(u) => u \in overdue
    /\ overdue' = overdue \cup {t}
    /\ UNCHANGED <<rows, stamps, handlers, sweeper, past, since>>

\* Mutant: the status is not asked for.
AnyOverdue(t) == t \in overdue /\ ~Gone(t) /\ ~tickets[t].slaBreached

Matches(t) ==
    /\ t \in overdue /\ ~Gone(t)
    /\ tickets[t].status \in {"open", "in_progress"} /\ ~tickets[t].slaBreached

\* ORDER BY sla_deadline: every overdue ticket once, the oldest breach first.
InOrder(list) == \A i, j \in DOMAIN list : i < j => list[i] < list[j]
Overdue == {list \in SetToSeqs({t \in Tickets : Matches(t)}) : InOrder(list)}

FirstBatch(list) == SubSeq(list, 1, IF Len(list) < Batch THEN Len(list) ELSE Batch)

MayTick == ~sweeping

\* The interval fires and the overdue tickets are read; a sweep that finds none
\* ends at once and changes nothing.
Tick(s) ==
    /\ MayTick
    /\ at[s] = "idle"
    /\ \E list \in Overdue :
          /\ list # <<>>
          /\ batch' = [batch EXCEPT ![s] = FirstBatch(list)]
    /\ sweeping' = TRUE
    /\ at' = [at EXCEPT ![s] = "stamp"]
    /\ UNCHANGED <<rows, overdue, stamps, handlers, past, since>>

Breached(ticket) == [ticket EXCEPT !.slaBreached = TRUE, !.breachedAt = stamps + 1]

Stamped(t) == IF Gone(t) THEN NoTicket ELSE Breached(tickets[t])

\* UPDATE by id: no condition on status or slaBreached.
Stamp(s) ==
    LET t == Head(batch[s])
    IN  /\ at[s] = "stamp"
        /\ tickets' = [tickets EXCEPT ![t] = Stamped(t)]
        /\ stamps' = IF Gone(t) THEN stamps ELSE stamps + 1
        /\ at' = [at EXCEPT ![s] = "log"]
        /\ UNCHANGED <<history, overdue, handlers, sweeping, batch, past, since>>

NextOfBatch(s) ==
    /\ batch' = [batch EXCEPT ![s] = Tail(@)]
    /\ IF Len(batch[s]) = 1
       THEN /\ at' = [at EXCEPT ![s] = "idle"]
            /\ since' = [since EXCEPT ![s] = {}]
            /\ sweeping' = FALSE
       ELSE at' = [at EXCEPT ![s] = "stamp"] /\ UNCHANGED <<sweeping, since>>

\* Mutant: the foreign-key violation of a deleted ticket ends the sweep, and its
\* flag is never cleared.
LogBreachOrDie(s) ==
    /\ at[s] = "log"
    /\ IF Gone(Head(batch[s]))
       THEN at' = [at EXCEPT ![s] = "dead"] /\ UNCHANGED <<history, batch, sweeping, since>>
       ELSE Record(Head(batch[s]), "sla_breached") /\ NextOfBatch(s)
    /\ UNCHANGED <<tickets, overdue, stamps, handlers, past>>

\* A foreign-key violation is caught and the ticket skipped.
LogBreach(s) ==
    /\ at[s] = "log"
    /\ IF Gone(Head(batch[s])) THEN UNCHANGED history
                               ELSE Record(Head(batch[s]), "sla_breached")
    /\ NextOfBatch(s)
    /\ UNCHANGED <<tickets, overdue, stamps, handlers, past>>

Sweep(s) == Tick(s) \/ Stamp(s) \/ LogBreach(s)

------------------------------------------------------------------------------
(***************************************************************************)
(* The environment.                                                        *)
(***************************************************************************)
IncidentLeft == incidents < MaxIncidents /\ incidents' = incidents + 1

\* LoadAdminService.reset: the load user's tickets, their events with them.
Reset ==
    /\ IncidentLeft
    /\ tickets' = [t \in Tickets |-> NoTicket]
    /\ history' = [t \in Tickets |-> <<>>]
    /\ held' = held \cup {t \in Tickets : InProgress(t) # {}}
    /\ UNCHANGED <<overdue, stamps, handlers, sweeper, rushed, unlogged, since>>

\* The process restarts: handlers are cut off, and the sweep with its flag.
Restart ==
    /\ IncidentLeft
    /\ ticketPc' = [r \in TicketRequests |->
                       IF ticketPc[r] = "idle" THEN "idle" ELSE "done"]
    /\ sweeping' = FALSE
    /\ batch' = [s \in Sweeps |-> <<>>]
    /\ at' = [s \in Sweeps |-> "idle"]
    /\ since' = [s \in Sweeps |-> {}]
    /\ unlogged' = unlogged
          \cup {req[r].ticket : r \in {r \in TicketRequests : ticketPc[r] = "log"}}
          \cup {Head(batch[s]) : s \in {s \in Sweeps : at[s] = "log"}}
    /\ UNCHANGED <<rows, overdue, stamps, ticketAnswer, mine, selected, rushed, held>>

TicketsNext ==
    \/ \E r \in TicketRequests : Receive(r) \/ GoOn(r)
    \/ \E s \in Sweeps : Sweep(s)
    \/ \E t \in Tickets : PassDeadline(t)
    \/ Reset
    \/ Restart

TicketsSpec == TicketsInit /\ [][TicketsNext]_ticketVars

\* Handlers are served and the interval keeps firing.
TicketsFairSpec == /\ TicketsSpec
            /\ \A r \in TicketRequests : WF_ticketVars(GoOn(r))
            /\ WF_ticketVars(\E s \in Sweeps : Sweep(s))

------------------------------------------------------------------------------
(***************************************************************************)
(* Properties.                                                             *)
(***************************************************************************)
\* Every variable has its type.
TicketsTypeOK ==
    /\ tickets \in [Tickets -> TicketRow \cup {NoTicket}]
    /\ overdue \subseteq Tickets
    /\ ticketAnswer \in [TicketRequests ->
                          {"none", "ok", "notFound", "forbidden", "conflict", "error"}]
    /\ mine \in [TicketRequests -> TicketRow \cup {NoTicket}]
    /\ selected \in [TicketRequests -> TicketRow \cup {NoTicket}]
    /\ \A s \in Sweeps : (at[s] = "idle") = (batch[s] = <<>>)
    /\ sweeping = \E s \in Sweeps : at[s] # "idle"

Logging(t) == \E r \in TicketRequests : req[r].ticket = t /\ ticketPc[r] = "log"
Breaching(t) == \E s \in Sweeps : at[s] = "log" /\ Head(batch[s]) = t

\* A ticket's history knows of its breach, and as long as requests for the ticket do not
\* overlap it is a walk of the workflow that ends in the ticket's status, whatever the
\* sweep does; a restart may cut off the event of a change, a reset a ticket's past.
HistoryTellsStatus ==
    \A t \in Tickets \ (held \cup unlogged) :
        ~Gone(t) =>
            /\ tickets[t].slaBreached => Breaching(t) \/ Contains(history[t], "sla_breached")
            /\ t \notin rushed /\ ~Logging(t) =>
                  /\ LegalHistory(history[t])
                  /\ tickets[t].status = StatusOf(history[t])

\* "Exactly one AGENT at a time": while requests for it do not overlap, an agent who was
\* told that the claim succeeded keeps the ticket until an admin assigns it.
ClaimIsKept ==
    \A r \in TicketRequests :
        LET t == req[r].ticket IN
        /\ req[r].op = "claim" /\ ticketAnswer[r] = "ok"
        /\ t \notin rushed /\ ~Gone(t)
        /\ ~\E s \in TicketRequests :
              req[s].op = "assign" /\ req[s].ticket = t /\ ticketPc[s] # "idle"
        => tickets[t].assignedTo = req[r].by

\* "At most one sweep at a time": a sweep never stamps what another one stamped after it
\* read its batch.  (A save in between may write the stamp of an older read back.)
SweepNeverRestamps ==
    [][ \A s \in Sweeps :
            at[s] = "stamp" /\ at'[s] = "log" /\ ~Gone(Head(batch[s]))
                => \/ ~tickets[Head(batch[s])].slaBreached
                   \/ Head(batch[s]) \in since[s] ]_ticketVars

\* "No retroactive breaching": the ticket a sweep stamps is open or in progress, unless
\* it was saved between the sweep's read and its UPDATE, which does not look again.
StampsWhatItRead ==
    [][ \A s \in Sweeps :
            at[s] = "stamp" /\ at'[s] = "log" /\ ~Gone(Head(batch[s])) =>
                \/ tickets[Head(batch[s])].status \in {"open", "in_progress"}
                \/ Head(batch[s]) \in since[s] ]_ticketVars

\* A breach is erased only by a handler that read the ticket before it was stamped and
\* whose save then saw the stamp; one stamped in the middle of a save stays.
ErasedBySightOnly ==
    [][ \A t \in Tickets :
            /\ ~Gone(t) /\ tickets'[t] # NoTicket
            /\ tickets[t].slaBreached /\ ~tickets'[t].slaBreached
            => \E r \in InProgress(t) :
                    /\ ticketPc[r] = "saveWrite" /\ ticketPc'[r] # "saveWrite"
                    /\ selected[r] # NoTicket /\ selected[r].slaBreached ]_ticketVars

\* After a reset nothing comes back but tickets a handler was working on; the sweep,
\* which may hold a batch of deleted tickets, brings none back.
DeletedStaysDeleted ==
    [][ \A t \in Tickets :
            Gone(t) /\ tickets'[t] # NoTicket => t \in held \/ t \notin Existing ]_ticketVars

\* Every overdue ticket is found: it is stamped, or leaves open and in_progress,
\* or is deleted, even when deletions race the sweep and batches are full.
BreachIsFound ==
    \A t \in Tickets : Matches(t) ~> ~Matches(t)

------------------------------------------------------------------------------
(***************************************************************************)
(* What texts of the repository say and concurrent requests break: not     *)
(* invariants of this model.  The README tells what happens.               *)
(***************************************************************************)
\* "A later sweep tick never re-stamps breachedAt": a stamp stays.
BreachedAtIsFinal ==
    [][ \A t \in Tickets :
            ~Gone(t) /\ tickets'[t] # NoTicket /\ tickets[t].slaBreached
                => tickets'[t].breachedAt = tickets[t].breachedAt ]_ticketVars

\* "No retroactive breaching": a ticket is stamped only while open or in progress.
NoRetroactiveBreach ==
    [][ \A t \in Tickets :
            /\ ~Gone(t) /\ tickets'[t] # NoTicket
            /\ tickets'[t].breachedAt > tickets[t].breachedAt
            => tickets[t].status \in {"open", "in_progress"} ]_ticketVars

\* Claiming is "first-caller-wins": without an admin's assign, one claim succeeds.
FirstClaimWins ==
    \A a, b \in TicketRequests :
        /\ req[a].op = "claim" /\ req[b].op = "claim" /\ req[a].ticket = req[b].ticket
        /\ ticketAnswer[a] = "ok" /\ ticketAnswer[b] = "ok"
        => a = b

\* Owner-cancels against agent-resolves: the one that loses gets its 409.
CancelOrResolve ==
    \A a, b \in TicketRequests :
        req[a].ticket = req[b].ticket =>
            ~(req[a].op = "cancel" /\ req[b].op = "resolve"
              /\ ticketAnswer[a] = "ok" /\ ticketAnswer[b] = "ok")

\* What a ticket's history says and what an agent was told stays true.
WorkflowIsKept == HistoryTellsStatus /\ ClaimIsKept

\* The sweep acts on its list long after reading it: it stamps no ticket that was already
\* closed or stamped when it looked.
SweepIsExact == SweepNeverRestamps /\ StampsWhatItRead

\* Rows read earlier and written later undo neither a breach nor a reset unseen.
NothingIsUndone == ErasedBySightOnly /\ DeletedStaysDeleted
=============================================================================
