----------------------------- MODULE Fulfilment -----------------------------
(***************************************************************************)
(* The life of one order after it was placed: fulfilment (JobsService,     *)
(* OrdersService.fulfill), its return (ReturnRequestsService) and refund.  *)
(* Requests answer 202 after a few awaited statements; the work goes on in *)
(* fire-and-forget continuations that exist only in the process's memory.  *)
(***************************************************************************)
EXTENDS EntitySave, Integers, FiniteSets

CONSTANTS
    Requests,       \* requests about this order; one that starts a job names it
    Calls,          \* what they ask: a subset of [Requests -> Kinds]
    NoRow,          \* no return request in memory
    MaxCrashes      \* bound: process deaths

Kinds == {"fulfil", "submit", "approve", "reject"}
JobStatus == {"none", "pending", "processing", "completed"}

\* OrderStatus, in the order an order goes through it.
Rank == [pending |-> 0, processing |-> 1, ready |-> 2, fulfilled |-> 3, refunded |-> 4]

Row == [by : Requests, status : {"requested", "approved", "rejected"},
        decidedBy : Requests \cup {NoRow}]

ASSUME FulfilmentAssumption ==
    /\ IsFiniteSet(Requests)
    /\ Calls \subseteq [Requests -> Kinds]
    /\ NoRow \notin Requests
    /\ NoRow \notin Row
    /\ MaxCrashes \in Nat

VARIABLES
    status,         \* orders.status
    returns,        \* return_requests rows of the order
    jobs,           \* jobs.status per job
    kind, pc, answer,
    found,          \* the return request as decide's save selected it
    stage,          \* where the continuation of each job is
    notes,          \* notifications written: [job, to]
    hooked,         \* jobs whose webhook was called
    crashes

database == <<status, returns, jobs, notes>>
memory == <<kind, pc, answer, found, stage>>
vars == <<database, memory, hooked, crashes>>

Init ==
    /\ status = "pending"
    /\ returns = {}
    /\ jobs = [r \in Requests |-> "none"]
    /\ kind \in Calls
    /\ pc = [r \in Requests |-> "idle"]
    /\ answer = [r \in Requests |-> "none"]
    /\ found = [r \in Requests |-> NoRow]
    /\ stage = [r \in Requests |-> "none"]
    /\ notes = {}
    /\ hooked = {}
    /\ crashes = 0

Goto(r, to) == pc' = [pc EXCEPT ![r] = to]
Finish(r, a) == Goto(r, "done") /\ answer' = [answer EXCEPT ![r] = a]
Answer(r, cond, a, to) == IF cond THEN Finish(r, a) ELSE Goto(r, to) /\ UNCHANGED answer

Decides(r) == kind[r] \in {"approve", "reject"}

Arrive(r) ==
    /\ pc[r] = "idle"
    /\ Goto(r, IF Decides(r) THEN "readReturn" ELSE "readOrder")
    /\ UNCHANGED <<database, kind, answer, found, stage, hooked, crashes>>

------------------------------------------------------------------------------
(***************************************************************************)
(* fulfill: the order is read first, its status checked in memory.         *)
(***************************************************************************)
ReadOrderToFulfil(r) ==
    /\ pc[r] = "readOrder" /\ kind[r] = "fulfil"
    /\ Answer(r, status # "pending", "conflict", "insertJob")
    /\ UNCHANGED <<database, kind, found, stage, hooked, crashes>>

\* Also startRefund's first statement.
InsertJob(r) ==
    /\ pc[r] = "insertJob"
    /\ jobs' = [jobs EXCEPT ![r] = "pending"]
    /\ Goto(r, "markJob")
    /\ UNCHANGED <<status, returns, notes, kind, answer, found, stage, hooked, crashes>>

\* The refund needs no change of the order, so its continuation starts here.
MarkJob(r) ==
    /\ pc[r] = "markJob"
    /\ jobs' = [jobs EXCEPT ![r] = "processing"]
    /\ IF kind[r] = "fulfil"
       THEN Goto(r, "markOrder") /\ UNCHANGED <<answer, stage>>
       ELSE Finish(r, "decided") /\ stage' = [stage EXCEPT ![r] = "refund"]
    /\ UNCHANGED <<status, returns, notes, kind, found, hooked, crashes>>

MarkOrder(r) ==
    /\ pc[r] = "markOrder"
    /\ status' = "processing"
    /\ Finish(r, "accepted")
    /\ stage' = [stage EXCEPT ![r] = "ready"]
    /\ UNCHANGED <<returns, jobs, notes, kind, found, hooked, crashes>>

------------------------------------------------------------------------------
(***************************************************************************)
(* Continuations: one statement after another, a pause before each status. *)
(***************************************************************************)
Advance(r, from, to) == stage[r] = from /\ stage' = [stage EXCEPT ![r] = to]

UpdateOrder(r, from, s, to) ==
    /\ Advance(r, from, to)
    /\ status' = s
    /\ UNCHANGED <<returns, jobs, notes, kind, pc, answer, found, hooked, crashes>>

Notify(r, from, s, to) ==
    /\ Advance(r, from, to)
    /\ notes' = notes \cup {[job |-> r, to |-> s]}
    /\ UNCHANGED <<status, returns, jobs, kind, pc, answer, found, hooked, crashes>>

BecomeReady(r) == UpdateOrder(r, "ready", "ready", "readyNote")

\* Mutants: the continuation ends early; the job is completed before the note.
NoteReadyAndStop(r) == Notify(r, "readyNote", "ready", "none")
FulfilWithoutNote(r) == UpdateOrder(r, "fulfilled", "fulfilled", "complete")

NoteReady(r) == Notify(r, "readyNote", "ready", "fulfilled")
BecomeFulfilled(r) == UpdateOrder(r, "fulfilled", "fulfilled", "fulfilledNote")
NoteFulfilled(r) == Notify(r, "fulfilledNote", "fulfilled", "complete")
BecomeRefunded(r) == UpdateOrder(r, "refund", "refunded", "refundNote")

NoteRefunded(r) == Notify(r, "refundNote", "refunded", "complete")

CompleteJob(r) ==
    /\ Advance(r, "complete", IF kind[r] = "fulfil" THEN "webhook" ELSE "none")
    /\ jobs' = [jobs EXCEPT ![r] = "completed"]
    /\ UNCHANGED <<status, returns, notes, kind, pc, answer, found, hooked, crashes>>

\* Not awaited, and a delivery that fails is only logged.
SendWebhook(r) ==
    /\ Advance(r, "webhook", "none")
    /\ hooked' \in {hooked, hooked \cup {r}}
    /\ UNCHANGED <<database, kind, pc, answer, found, crashes>>

Continue(r) ==
    \/ BecomeReady(r) \/ NoteReady(r) \/ BecomeFulfilled(r) \/ NoteFulfilled(r)
    \/ BecomeRefunded(r) \/ NoteRefunded(r) \/ CompleteJob(r) \/ SendWebhook(r)

------------------------------------------------------------------------------
(***************************************************************************)
(* Returns.                                                                *)
(***************************************************************************)
\* Mutant: a return of an order on its way.
ReadAnyOrderToReturn(r) ==
    /\ pc[r] = "readOrder" /\ kind[r] = "submit"
    /\ Answer(r, status = "pending", "conflict", "findExisting")
    /\ UNCHANGED <<database, kind, found, stage, hooked, crashes>>

ReadOrderToReturn(r) ==
    /\ pc[r] = "readOrder" /\ kind[r] = "submit"
    /\ Answer(r, status # "fulfilled", "conflict", "findExisting")
    /\ UNCHANGED <<database, kind, found, stage, hooked, crashes>>

FindExisting(r) ==
    /\ pc[r] = "findExisting"
    /\ Answer(r, returns # {}, "conflict", "insertReturn")
    /\ UNCHANGED <<database, kind, found, stage, hooked, crashes>>

\* Mutant: no UNIQUE (order_id), the pre-check alone.
NeverTaken == FALSE
Taken == returns # {}

InsertReturn(r) ==
    /\ pc[r] = "insertReturn"
    /\ IF Taken
       THEN Finish(r, "conflict") /\ UNCHANGED returns
       ELSE /\ Finish(r, "requested")
            /\ returns' = returns \cup {[by |-> r, status |-> "requested",
                                         decidedBy |-> NoRow]}
    /\ UNCHANGED <<status, jobs, notes, kind, found, stage, hooked, crashes>>

\* Mutant: a decided return may be decided again.
ReadAnyReturn(r) ==
    /\ pc[r] = "readReturn"
    /\ \/ returns = {} /\ Finish(r, "notFound")
       \/ returns # {} /\ Goto(r, "saveSelect") /\ UNCHANGED answer
    /\ UNCHANGED <<database, kind, found, stage, hooked, crashes>>

\* decide: read, check and change in memory, then save.
ReadReturn(r) ==
    /\ pc[r] = "readReturn"
    /\ \/ returns = {} /\ Finish(r, "notFound")
       \/ \E row \in returns : Answer(r, row.status # "requested", "conflict", "saveSelect")
    /\ UNCHANGED <<database, kind, found, stage, hooked, crashes>>

SaveSelect(r) ==
    /\ pc[r] = "saveSelect"
    /\ \E row \in returns : found' = [found EXCEPT ![r] = row]
    /\ Goto(r, "saveUpdate")
    /\ UNCHANGED <<database, kind, answer, stage, hooked, crashes>>

Decision(r) == IF kind[r] = "approve" THEN "approved" ELSE "rejected"

\* Mutant: the approval is answered, its refund never started.
SaveWithoutRefund(r) ==
    /\ pc[r] = "saveUpdate"
    /\ \E row \in returns :
          returns' = {[row EXCEPT !.status = Decision(r), !.decidedBy = r]}
    /\ Finish(r, "decided")
    /\ UNCHANGED <<status, jobs, notes, kind, found, stage, hooked, crashes>>

SaveUpdate(r) ==
    /\ pc[r] = "saveUpdate"
    /\ \E row \in returns :
          /\ row.by = found[r].by
          /\ returns' = (returns \ {row}) \cup
                {Saved(row, found[r],
                       [found[r] EXCEPT !.status = Decision(r), !.decidedBy = r])}
    /\ IF kind[r] = "approve"
       THEN Goto(r, "insertJob") /\ UNCHANGED answer
       ELSE Finish(r, "decided")
    /\ UNCHANGED <<status, jobs, notes, kind, found, stage, hooked, crashes>>

------------------------------------------------------------------------------
(***************************************************************************)
(* The process dies, or a continuation's statement fails: its rejection is *)
(* handled nowhere, which ends the process too.  Nothing resumes the jobs. *)
(***************************************************************************)
Crash ==
    /\ crashes < MaxCrashes
    /\ crashes' = crashes + 1
    /\ LET running == {r \in Requests : pc[r] \notin {"idle", "done"}}
       IN  /\ pc' = [r \in Requests |-> IF r \in running THEN "done" ELSE pc[r]]
           /\ answer' = [r \in Requests |-> IF r \in running THEN "lost" ELSE answer[r]]
    /\ stage' = [r \in Requests |-> "none"]
    /\ UNCHANGED <<database, kind, found, hooked>>

Handle(r) ==
    \/ ReadOrderToFulfil(r) \/ InsertJob(r) \/ MarkJob(r) \/ MarkOrder(r)
    \/ ReadOrderToReturn(r) \/ FindExisting(r) \/ InsertReturn(r)
    \/ ReadReturn(r) \/ SaveSelect(r) \/ SaveUpdate(r)

Next ==
    \/ \E r \in Requests : Arrive(r) \/ Handle(r) \/ Continue(r)
    \/ Crash

Spec == Init /\ [][Next]_vars

\* The event loop keeps serving handlers, and their timers fire.
FairSpec == Spec /\ \A r \in Requests : WF_vars(Handle(r)) /\ WF_vars(Continue(r))

------------------------------------------------------------------------------
(***************************************************************************)
(* Properties.                                                             *)
(***************************************************************************)
\* Every variable has its type.
TypeOK ==
    /\ status \in DOMAIN Rank
    /\ returns \subseteq Row
    /\ jobs \in [Requests -> JobStatus]
    /\ kind \in Calls
    /\ pc \in [Requests -> {"idle", "readOrder", "insertJob", "markJob", "markOrder",
                            "findExisting", "insertReturn", "readReturn", "saveSelect",
                            "saveUpdate", "done"}]
    /\ answer \in [Requests -> {"none", "conflict", "accepted", "requested", "notFound",
                                "decided", "lost"}]
    /\ found \in [Requests -> Row \cup {NoRow}]
    /\ stage \in [Requests -> {"none", "ready", "readyNote", "fulfilled", "fulfilledNote",
                               "refund", "refundNote", "complete", "webhook"}]
    /\ notes \subseteq [job : Requests, to : DOMAIN Rank]
    /\ hooked \subseteq Requests
    /\ crashes \in 0..MaxCrashes

Fulfilments == {r \in Requests : kind[r] = "fulfil" /\ jobs[r] # "none"}

\* "A client that immediately retries fulfill" gets the 409 of an order in
\* progress: a fulfil that reads the order after another was answered 202 starts
\* no job.
RetryIsRefused ==
    [][ \A r, s \in Requests :
            /\ kind[r] = "fulfil" /\ pc[r] = "readOrder" /\ pc'[r] # "readOrder"
            /\ kind[s] = "fulfil" /\ answer[s] = "accepted"
            => pc'[r] = "done" ]_vars

\* "A decision is final" for whoever comes after it: once the caller of a decision has
\* its answer, a later decision of the return is refused.
LateDecisionIsRefused ==
    [][ \A r, s \in Requests :
            /\ Decides(r) /\ pc[r] = "readReturn" /\ pc'[r] # "readReturn"
            /\ Decides(s) /\ answer[s] = "decided"
            => pc'[r] = "done" ]_vars

\* While only one fulfilment was started, the order only moves forward, whatever
\* returns, refunds and crashes do meanwhile.
StatusOnlyAdvances ==
    [][ Cardinality(Fulfilments) <= 1 => Rank[status'] >= Rank[status] ]_vars

\* An order that is neither waiting nor finished is being worked on: some live
\* continuation will move it, unless the process has died since.
NoOrphanedOrder ==
    status \in {"processing", "ready"} /\ crashes = 0 =>
        \E r \in Fulfilments : stage[r] \in {"ready", "readyNote", "fulfilled"}

\* A completed job has done all it stands for: the owner was told of each
\* status, and the webhook is called for nothing less.
CompletedMeansDone ==
    \A r \in Requests :
        /\ jobs[r] = "completed" =>
              {n.to : n \in {m \in notes : m.job = r}} =
                  IF kind[r] = "fulfil" THEN {"ready", "fulfilled"} ELSE {"refunded"}
        /\ r \in hooked => jobs[r] = "completed"

\* One return per order however submissions race, told truthfully to each of
\* them; and money goes back only for a return that was decided, and after an approval
\* of it that was saved and answered: a rejection alone refunds nothing.
ReturnsAreUnique ==
    /\ Cardinality(returns) <= 1
    /\ \A r \in Requests :
          /\ answer[r] = "requested" => \E row \in returns : row.by = r
          /\ answer[r] = "conflict" => ~\E row \in returns : row.by = r
    /\ status = "refunded" =>
          /\ \E row \in returns : row.status # "requested"
          /\ \E r \in Requests : kind[r] = "approve" /\ answer[r] = "decided"

\* Every accepted fulfilment and every approved refund is completed, unless the
\* process dies: nothing resumes a job.
JobsComplete ==
    \A r \in Requests : jobs[r] = "pending" ~> jobs[r] = "completed" \/ crashes > 0

\* An order whose return is approved ends up refunded, whatever other decisions race
\* with the approval, unless the process dies or a second fulfilment was started.
ApprovedIsRefunded ==
    (\E row \in returns : row.status = "approved") ~>
        status = "refunded" \/ crashes > 0 \/ Cardinality(Fulfilments) > 1

------------------------------------------------------------------------------
(***************************************************************************)
(* What texts of the repository say and concurrent requests break: not     *)
(* invariants of this model.  The README tells what happens.               *)
(***************************************************************************)
\* An order "cannot be fulfilled again": one fulfil is accepted.
FulfilledOnce ==
    Cardinality({r \in Requests : kind[r] = "fulfil" /\ answer[r] = "accepted"}) <= 1

\* "A decision is final": a decided return keeps its decision.
DecisionIsFinal ==
    [][ \A row \in returns : row.status # "requested" => row \in returns' ]_vars

\* Whoever comes after the answer is refused: a fulfil after a fulfilment was accepted, a
\* decision after the return was decided.
LateCallerIsRefused == RetryIsRefused /\ LateDecisionIsRefused

\* What was accepted is completed: each job, and the refund of an approval.
AcceptedIsCompleted == JobsComplete /\ ApprovedIsRefunded
=============================================================================
