SPECIFICATION TicketsFairSpec
CONSTANTS
    Tickets = {1, 2}
    Existing = {1}
    Start <- MCStart
    TicketRequests <- MCRequests
    req <- MCReq
    Sweeps = {s1, s2}
    Owner = Owner
    Admin = Admin
    NoAgent = NoAgent
    a1 = a1
    a2 = a2
    Agents = {a1, a2}
    NoTicket = NoTicket
    Batch = 1
    MaxServed = 2
    MaxIncidents = 1
INVARIANTS WorkflowIsKept
PROPERTIES SweepIsExact NothingIsUndone BreachIsFound
CHECK_DEADLOCK FALSE
