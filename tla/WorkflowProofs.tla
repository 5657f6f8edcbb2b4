--------------------------- MODULE WorkflowProofs ---------------------------
(***************************************************************************)
(* What two workflows keep: the fulfilment, the return and the refund of   *)
(* one order, for any number of requests about it and of crashes between   *)
(* their steps; and the tickets of support, for any number of requests,    *)
(* sweeps, tickets, histories they start from and sizes of a batch.        *)
(***************************************************************************)
EXTENDS Fulfilment, Tickets, FiniteSetTheorems, SequenceTheorems, WellFoundedInduction,
        TLAPS

------------------------------------------------------------------------------
(***************************************************************************)
(* Fulfilment.                                                             *)
(***************************************************************************)
\* Where a request stands tells what it asked for.
StageOfKind(r) ==
    /\ pc[r] = "readOrder" => kind[r] \in {"fulfil", "submit"}
    /\ pc[r] \in {"insertJob", "markJob"} => kind[r] \in {"fulfil", "approve"}
    /\ pc[r] = "markOrder" => kind[r] = "fulfil"
    /\ pc[r] \in {"findExisting", "insertReturn"} => kind[r] = "submit"
    /\ pc[r] \in {"readReturn", "saveSelect", "saveUpdate"} => Decides(r)
    /\ pc[r] # "done" => answer[r] = "none"

\* A job belongs to a request that may start one, and its continuation runs when that
\* request has its answer.
JobOfKind(r) ==
    /\ pc[r] \in {"markJob", "markOrder"} => jobs[r] \in {"pending", "processing"}
    /\ pc[r] \notin {"done", "markJob", "markOrder"} => jobs[r] = "none"
    /\ jobs[r] # "none" => kind[r] \in {"fulfil", "approve"}
    /\ stage[r] # "none" => pc[r] = "done" /\ jobs[r] # "none"
    /\ stage[r] \in {"ready", "readyNote", "fulfilled", "fulfilledNote", "webhook"} =>
          kind[r] = "fulfil"
    /\ stage[r] \in {"refund", "refundNote"} => kind[r] = "approve"

Stages == \A r \in Requests : StageOfKind(r) /\ JobOfKind(r)

\* What the owner was told for a job, and all there is to tell.
Told(r) == {n.to : n \in {m \in notes : m.job = r}}
Whole(r) == IF kind[r] = "fulfil" THEN {"ready", "fulfilled"} ELSE {"refunded"}

\* How far the continuation is tells what was told.
ToldInOrder(r) ==
    /\ pc[r] # "done" \/ stage[r] \in {"ready", "readyNote", "refund", "refundNote"} =>
          Told(r) = {}
    /\ stage[r] \in {"fulfilled", "fulfilledNote"} => Told(r) = {"ready"}
    /\ stage[r] = "complete" \/ jobs[r] = "completed" => Told(r) = Whole(r)
    /\ stage[r] = "webhook" \/ r \in hooked => jobs[r] = "completed"

NotesInOrder == \A r \in Requests : ToldInOrder(r)

\* One row, by a submission that was told so; a decision in memory was read from it.
Decided == \E row \in returns : row.status # "requested"

OneReturn ==
    /\ \A x, y \in returns : x = y
    /\ \A row \in returns : answer[row.by] = "requested"
    /\ \A r \in Requests :
          /\ answer[r] = "requested" => \E row \in returns : row.by = r
          /\ pc[r] = "saveUpdate" =>
                found[r] \in Row /\ (found[r].status # "requested" => Decided)

\* Refunds, and what is answered to decisions, rest on a decided return; and a refund on
\* an approval that was answered.
Approved(r) == kind[r] = "approve" /\ answer[r] = "decided"

RefundsAreDecided ==
    /\ status = "refunded" => Decided /\ \E r \in Requests : Approved(r)
    /\ \A r \in Requests :
          /\ stage[r] = "refund" => Approved(r)
          /\ kind[r] = "approve" /\ (jobs[r] # "none" \/ pc[r] = "insertJob") => Decided
          /\ Decides(r) /\ answer[r] = "decided" => Decided

AcceptedIsNotPending ==
    \A r \in Requests : answer[r] = "accepted" => status # "pending"

\* While one fulfilment was started at most, the order is where that one has brought it;
\* a return is asked for only when it has ended.
OneAtMost == \A q, r \in Fulfilments : q = r

StatusFollows ==
    OneAtMost =>
        /\ Fulfilments = {} => status = "pending"
        /\ \A r \in Fulfilments :
              /\ pc[r] \in {"markJob", "markOrder"} => status = "pending"
              /\ stage[r] = "ready" => status = "processing"
              /\ stage[r] \in {"readyNote", "fulfilled"} => status = "ready"
        /\ returns # {} => status \in {"fulfilled", "refunded"}
        /\ \A r \in Requests :
              pc[r] \in {"findExisting", "insertReturn"} => status \in {"fulfilled", "refunded"}

FulfilmentInv ==
    /\ TypeOK /\ Stages /\ NotesInOrder /\ OneReturn /\ RefundsAreDecided
    /\ AcceptedIsNotPending /\ StatusFollows /\ NoOrphanedOrder

\* What save makes of a return: the columns the entity in memory changed.
LEMMA SavedRow ==
    ASSUME NEW row \in Row, NEW was \in Row, NEW own \in Row
    PROVE  LET saved == Saved(row, was, own)
           IN  /\ saved \in Row
               /\ saved.by = IF own.by # was.by THEN own.by ELSE row.by
               /\ saved.status = IF own.status # was.status THEN own.status ELSE row.status
<1> DEFINE saved == Saved(row, was, own)
<1>1. DOMAIN row = {"by", "status", "decidedBy"}
  BY DEF Row
<1>2. saved = [by |-> IF own.by # was.by THEN own.by ELSE row.by,
               status |-> IF own.status # was.status THEN own.status ELSE row.status,
               decidedBy |-> IF own.decidedBy # was.decidedBy THEN own.decidedBy
                             ELSE row.decidedBy]
  BY <1>1 DEF Saved
<1>3. /\ saved.by = IF own.by # was.by THEN own.by ELSE row.by
      /\ saved.status = IF own.status # was.status THEN own.status ELSE row.status
  BY <1>2
<1>4. saved \in Row
  BY <1>2 DEF Row
<1> QED BY <1>3, <1>4

LEMMA FulfilmentInitInv == Init => FulfilmentInv
<1> SUFFICES ASSUME Init PROVE FulfilmentInv
  OBVIOUS
<1> USE FulfilmentAssumption DEF Init
<1>1. TypeOK
  BY DEF TypeOK, JobStatus, Rank
<1>2. Stages
  BY DEF Stages, StageOfKind, JobOfKind
<1>3. NotesInOrder
  BY DEF NotesInOrder, ToldInOrder, Told
<1>4. OneReturn /\ RefundsAreDecided /\ AcceptedIsNotPending
  BY DEF OneReturn, RefundsAreDecided, AcceptedIsNotPending
<1>5. StatusFollows /\ NoOrphanedOrder
  BY DEF StatusFollows, NoOrphanedOrder, Fulfilments
<1> QED BY <1>1, <1>2, <1>3, <1>4, <1>5 DEF FulfilmentInv

------------------------------------------------------------------------------
(***************************************************************************)
(* What each kind of step leaves alone.                                    *)
(***************************************************************************)
HandlerMoves(r) == Arrive(r) \/ Handle(r)

\* A handler moves its own request; notes and webhooks are the continuations'.
LEMMA HandlerFrame ==
    ASSUME TypeOK, NEW r \in Requests, HandlerMoves(r)
    PROVE  /\ UNCHANGED <<notes, hooked, crashes, kind>>
           /\ pc[r] # "done" /\ pc'[r] # "idle"
           /\ pc'[r] = "done" \/ answer'[r] = answer[r]
           /\ stage'[r] = stage[r] \/ pc'[r] = "done"
           /\ \A s \in Requests \ {r} :
                 /\ pc'[s] = pc[s] /\ answer'[s] = answer[s] /\ jobs'[s] = jobs[s]
                 /\ stage'[s] = stage[s] /\ found'[s] = found[s]
<1> USE DEF TypeOK, Goto, Finish, Answer, database
<1>1. CASE Arrive(r)
  BY <1>1 DEF Arrive
<1>2. CASE ReadOrderToFulfil(r) \/ InsertJob(r) \/ MarkJob(r) \/ MarkOrder(r)
  BY <1>2 DEF ReadOrderToFulfil, InsertJob, MarkJob, MarkOrder
<1>3. CASE ReadOrderToReturn(r) \/ FindExisting(r) \/ InsertReturn(r)
  BY <1>3 DEF ReadOrderToReturn, FindExisting, InsertReturn
<1>4. CASE ReadReturn(r) \/ SaveSelect(r) \/ SaveUpdate(r)
  BY <1>4 DEF ReadReturn, SaveSelect, SaveUpdate
<1> QED BY <1>1, <1>2, <1>3, <1>4 DEF HandlerMoves, Handle

\* A continuation moves on; requests and returns are the handlers'.
LEMMA ContinuationFrame ==
    ASSUME TypeOK, NEW r \in Requests, Continue(r)
    PROVE  /\ UNCHANGED <<returns, kind, pc, answer, found, crashes>>
           /\ stage[r] # "none" /\ stage' = [stage EXCEPT ![r] = stage'[r]]
           /\ \A s \in Requests \ {r} : jobs'[s] = jobs[s] /\ (s \in hooked' => s \in hooked)
BY DEF TypeOK, Continue, Advance, UpdateOrder, Notify, BecomeReady, NoteReady, BecomeFulfilled,
       NoteFulfilled, BecomeRefunded, NoteRefunded, CompleteJob, SendWebhook, database

------------------------------------------------------------------------------
LEMMA HandlerTypes ==
    ASSUME FulfilmentInv, NEW r \in Requests, HandlerMoves(r)
    PROVE  TypeOK'
<1> USE DEF FulfilmentInv, TypeOK, Goto, Finish, Answer, database
<1>1. CASE Arrive(r)
  BY <1>1 DEF Arrive
<1>2. CASE ReadOrderToFulfil(r) \/ InsertJob(r) \/ MarkJob(r) \/ MarkOrder(r)
  BY <1>2 DEF ReadOrderToFulfil, InsertJob, MarkJob, MarkOrder, JobStatus, Rank
<1>3. CASE ReadOrderToReturn(r) \/ FindExisting(r)
  BY <1>3 DEF ReadOrderToReturn, FindExisting
<1>4. CASE InsertReturn(r)
  <2>1. [by |-> r, status |-> "requested", decidedBy |-> NoRow] \in Row
    BY DEF Row
  <2> QED BY <1>4, <2>1 DEF InsertReturn
<1>5. CASE ReadReturn(r) \/ SaveSelect(r)
  BY <1>5 DEF ReadReturn, SaveSelect
<1>6. CASE SaveUpdate(r)
  <2>1. found[r] \in Row
    BY <1>6 DEF SaveUpdate, OneReturn
  <2>2. [found[r] EXCEPT !.status = Decision(r), !.decidedBy = r] \in Row
    BY <2>1 DEF Row, Decision
  <2>3. \A row \in returns :
            Saved(row, found[r], [found[r] EXCEPT !.status = Decision(r), !.decidedBy = r]) \in Row
    BY <2>1, <2>2, SavedRow
  <2> QED BY <1>6, <2>3 DEF SaveUpdate
<1> QED BY <1>1, <1>2, <1>3, <1>4, <1>5, <1>6 DEF HandlerMoves, Handle

LEMMA ContinuationTypes ==
    ASSUME FulfilmentInv, NEW r \in Requests, Continue(r)
    PROVE  TypeOK'
<1> USE DEF FulfilmentInv, TypeOK, Advance, UpdateOrder, Notify, database
<1>1. CASE BecomeReady(r) \/ BecomeFulfilled(r) \/ BecomeRefunded(r)
  BY <1>1 DEF BecomeReady, BecomeFulfilled, BecomeRefunded, Rank
<1>2. CASE NoteReady(r) \/ NoteFulfilled(r) \/ NoteRefunded(r)
  <2>1. \A s \in {"ready", "fulfilled", "refunded"} :
            [job |-> r, to |-> s] \in [job : Requests, to : DOMAIN Rank]
    BY DEF Rank
  <2> QED BY <1>2, <2>1 DEF NoteReady, NoteFulfilled, NoteRefunded
<1>3. CASE CompleteJob(r) \/ SendWebhook(r)
  BY <1>3 DEF CompleteJob, SendWebhook, JobStatus
<1> QED BY <1>1, <1>2, <1>3 DEF Continue

LEMMA StagesStep ==
    ASSUME FulfilmentInv, NEW r \in Requests, HandlerMoves(r) \/ Continue(r)
    PROVE  Stages'
<1> USE DEF FulfilmentInv, TypeOK, Stages
<1>1. /\ kind' = kind
      /\ \A s \in Requests \ {r} :
            /\ pc'[s] = pc[s] /\ answer'[s] = answer[s] /\ jobs'[s] = jobs[s]
            /\ stage'[s] = stage[s]
  BY HandlerFrame, ContinuationFrame
<1>2. \A s \in Requests \ {r} : StageOfKind(s)' /\ JobOfKind(s)'
  BY <1>1 DEF StageOfKind, JobOfKind, Decides
<1>3. kind[r] \in Kinds
  BY FulfilmentAssumption
<1>4. StageOfKind(r)' /\ JobOfKind(r)'
  <2> USE <1>1, <1>3 DEF StageOfKind, JobOfKind, Decides, Kinds, Goto, Finish, Answer, database
  <2>1. CASE Arrive(r)
    BY <2>1 DEF Arrive
  <2>2. CASE ReadOrderToFulfil(r) \/ ReadOrderToReturn(r) \/ FindExisting(r) \/ InsertReturn(r)
    BY <2>2 DEF ReadOrderToFulfil, ReadOrderToReturn, FindExisting, InsertReturn
  <2>3. CASE InsertJob(r) \/ MarkJob(r) \/ MarkOrder(r)
    BY <2>3 DEF InsertJob, MarkJob, MarkOrder
  <2>4. CASE ReadReturn(r)
    BY <2>4 DEF ReadReturn
  <2>5. CASE SaveSelect(r)
    BY <2>5 DEF SaveSelect
  <2>6. CASE SaveUpdate(r)
    BY <2>6 DEF SaveUpdate
  <2>7. CASE Continue(r)
    BY <2>7 DEF Continue, Advance, UpdateOrder, Notify, BecomeReady, NoteReady, BecomeFulfilled,
       NoteFulfilled, BecomeRefunded, NoteRefunded, CompleteJob, SendWebhook
  <2> QED BY <2>1, <2>2, <2>3, <2>4, <2>5, <2>6, <2>7 DEF HandlerMoves, Handle
<1> QED BY <1>2, <1>4

\* What a note adds to what the owner was told for the job.
LEMMA TellingAdds ==
    ASSUME NEW r, NEW from, NEW to, NEW next, Notify(r, from, to, next)
    PROVE  Told(r)' = Told(r) \cup {to}
<1> DEFINE note == [job |-> r, to |-> to]
<1>1. {m \in notes' : m.job = r} = {m \in notes : m.job = r} \cup {note}
  BY DEF Notify
<1>2. note.to = to
  OBVIOUS
<1> HIDE DEF note
<1> QED BY <1>1, <1>2 DEF Told

LEMMA NotesStep ==
    ASSUME FulfilmentInv, NEW r \in Requests, HandlerMoves(r) \/ Continue(r)
    PROVE  NotesInOrder'
<1> USE DEF FulfilmentInv, TypeOK, NotesInOrder, Stages
<1>1. ASSUME HandlerMoves(r)
      PROVE  NotesInOrder'
  <2>1. UNCHANGED <<notes, hooked, kind>>
    BY <1>1, HandlerFrame
  <2>2. \A s \in Requests : Told(s)' = Told(s) /\ Whole(s)' = Whole(s)
    BY <2>1 DEF Told, Whole
  <2>3. \A s \in Requests \ {r} : ToldInOrder(s)'
    BY <1>1, <2>1, <2>2, HandlerFrame DEF ToldInOrder
  <2>4. Told(r) = {} /\ r \notin hooked /\ stage[r] = "none" /\ jobs[r] # "completed"
    BY <1>1, HandlerFrame DEF ToldInOrder, JobOfKind
  <2>5. stage'[r] \in {"none", "ready", "refund"} /\ jobs'[r] # "completed"
    BY <1>1, <2>4 DEF HandlerMoves, Handle, database, Arrive, ReadOrderToFulfil, InsertJob, MarkJob,
       MarkOrder, ReadOrderToReturn, FindExisting, InsertReturn, ReadReturn, SaveSelect, SaveUpdate
  <2> QED BY <2>1, <2>2, <2>3, <2>4, <2>5 DEF ToldInOrder
<1>2. ASSUME Continue(r)
      PROVE  NotesInOrder'
  <2>1. /\ UNCHANGED <<kind, pc>> /\ \A s : Whole(s)' = Whole(s)
        /\ \A s \in Requests \ {r} :
              stage'[s] = stage[s] /\ jobs'[s] = jobs[s] /\ (s \in hooked' => s \in hooked)
    BY <1>2, ContinuationFrame DEF Whole
  <2>2. \A s \in Requests \ {r} : Told(s)' = Told(s)
    BY <1>2 DEF Told, Continue, UpdateOrder, Notify, BecomeReady, NoteReady, BecomeFulfilled,
       NoteFulfilled, BecomeRefunded, NoteRefunded, CompleteJob, SendWebhook, database
  <2>3. \A s \in Requests \ {r} : ToldInOrder(s)'
    BY <2>1, <2>2 DEF ToldInOrder
  <2>4. pc[r] = "done" /\ jobs[r] # "none"
    BY <1>2, ContinuationFrame DEF JobOfKind
  <2>5. ToldInOrder(r)'
    <3> USE <2>1, <2>4 DEF ToldInOrder, JobOfKind, Advance
    <3>1. CASE BecomeReady(r) \/ BecomeFulfilled(r) \/ BecomeRefunded(r)
      <4>1. Told(r)' = Told(r)
        BY <3>1 DEF Told, BecomeReady, BecomeFulfilled, BecomeRefunded, UpdateOrder
      <4> QED BY <3>1, <4>1 DEF BecomeReady, BecomeFulfilled, BecomeRefunded, UpdateOrder
    <3>2. CASE NoteReady(r)
      <4>1. Told(r)' = Told(r) \cup {"ready"}
        BY <3>2, TellingAdds DEF NoteReady
      <4>2. "ready" \notin Told(r) /\ "ready" \in Whole(r)
        BY <3>2 DEF NoteReady, Notify, Whole
      <4>3. jobs[r] # "completed"
        BY <4>2
      <4> QED BY <3>2, <4>1, <4>3 DEF NoteReady, Notify
    <3>3. CASE NoteFulfilled(r)
      <4>1. Told(r)' = Told(r) \cup {"fulfilled"}
        BY <3>3, TellingAdds DEF NoteFulfilled
      <4> QED BY <3>3, <4>1 DEF NoteFulfilled, Notify, Whole
    <3>4. CASE NoteRefunded(r)
      <4>1. Told(r)' = Told(r) \cup {"refunded"}
        BY <3>4, TellingAdds DEF NoteRefunded
      <4> QED BY <3>4, <4>1 DEF NoteRefunded, Notify, Whole
    <3>5. CASE CompleteJob(r) \/ SendWebhook(r)
      <4>1. Told(r)' = Told(r)
        BY <3>5 DEF Told, CompleteJob, SendWebhook, database
      <4> QED BY <3>5, <4>1 DEF CompleteJob, SendWebhook, database
    <3> QED BY <1>2, <3>1, <3>2, <3>3, <3>4, <3>5 DEF Continue
  <2> QED BY <2>3, <2>5
<1> QED BY <1>1, <1>2

\* A decision leaves the one row there is, decided: the column the entity in memory did
\* not change was decided before.
LEMMA DecisionFacts ==
    ASSUME FulfilmentInv, NEW r \in Requests, SaveUpdate(r)
    PROVE  \E row \in returns, new \in Row :
              returns' = {new} /\ new.by = row.by /\ new.status # "requested"
<1> USE DEF FulfilmentInv, TypeOK, OneReturn
<1> DEFINE own == [found[r] EXCEPT !.status = Decision(r), !.decidedBy = r]
<1>1. PICK row \in returns :
          returns' = (returns \ {row}) \cup {Saved(row, found[r], own)}
  BY DEF SaveUpdate
<1>2. found[r] \in Row /\ row \in Row /\ (found[r].status # "requested" => row.status # "requested")
  BY DEF SaveUpdate, Decided
<1>3. /\ own \in Row /\ own.by = found[r].by
      /\ own.status = Decision(r) /\ Decision(r) # "requested"
  BY <1>2 DEF Row, Decision
<1> HIDE DEF own
<1> DEFINE new == Saved(row, found[r], own)
<1>4. /\ new \in Row
      /\ new.by = IF own.by # found[r].by THEN own.by ELSE row.by
      /\ new.status = IF own.status # found[r].status THEN own.status ELSE row.status
  BY <1>2, <1>3, SavedRow
<1>5. new.by = row.by /\ new.status # "requested"
  BY <1>2, <1>3, <1>4
<1>6. returns' = {new}
  BY <1>1
<1> QED BY <1>4, <1>5, <1>6

\* What was decided stays decided.
LEMMA DecidedLasts ==
    ASSUME FulfilmentInv, NEW r \in Requests, HandlerMoves(r) \/ Continue(r), Decided
    PROVE  Decided'
<1>1. CASE SaveUpdate(r)
  BY <1>1, DecisionFacts DEF Decided
<1>2. CASE InsertReturn(r)
  BY <1>2 DEF InsertReturn, Decided
<1>3. CASE ~(SaveUpdate(r) \/ InsertReturn(r))
  <2>1. returns' = returns
    BY <1>3, ContinuationFrame DEF FulfilmentInv, HandlerMoves, Handle, database, Arrive, ReadOrderToFulfil,
       InsertJob, MarkJob, MarkOrder, ReadOrderToReturn, FindExisting, ReadReturn, SaveSelect
  <2> QED BY <2>1 DEF Decided
<1> QED BY <1>1, <1>2, <1>3

LEMMA ReturnStep ==
    ASSUME FulfilmentInv, NEW r \in Requests, HandlerMoves(r) \/ Continue(r)
    PROVE  OneReturn'
<1> USE DEF FulfilmentInv, TypeOK
<1>1. CASE Continue(r)
  BY <1>1, ContinuationFrame DEF OneReturn, Decided
<1>2. CASE HandlerMoves(r)
  <2>1. /\ \A s \in Requests \ {r} :
              pc'[s] = pc[s] /\ answer'[s] = answer[s] /\ found'[s] = found[s]
        /\ pc[r] # "done" /\ answer[r] = "none"
    BY <1>2, HandlerFrame DEF Stages, StageOfKind
  <2>2. \A row \in returns : row.by # r /\ row.by \in Requests
    BY <2>1 DEF OneReturn, Row
  <2>3. /\ \A s \in Requests : pc'[s] = "saveUpdate" =>
              found'[s] \in Row /\ (found'[s].status # "requested" => Decided)
    <3>1. CASE SaveSelect(r)
      <4>1. found'[r] \in returns
        BY <3>1 DEF SaveSelect
      <4> QED BY <2>1, <4>1 DEF OneReturn, Decided
    <3>2. CASE ~SaveSelect(r)
      <4>1. pc'[r] # "saveUpdate"
        BY <1>2, <2>1, <3>2 DEF HandlerMoves, Handle, Goto, Finish, Answer, Arrive, ReadOrderToFulfil,
           InsertJob, MarkJob, MarkOrder, ReadOrderToReturn, FindExisting, InsertReturn,
           ReadReturn, SaveUpdate
      <4> QED BY <2>1, <4>1 DEF OneReturn
    <3> QED BY <3>1, <3>2
  <2>4. \A s \in Requests : pc'[s] = "saveUpdate" =>
              found'[s] \in Row /\ (found'[s].status # "requested" => Decided')
    BY <1>2, <2>3, DecidedLasts
  <2>5. /\ \A x, y \in returns' : x = y
        /\ \A row \in returns' : answer'[row.by] = "requested"
        /\ \A s \in Requests : answer'[s] = "requested" => \E row \in returns' : row.by = s
    <3>1. CASE InsertReturn(r)
      <4>1. CASE Taken
        BY <2>1, <2>2, <3>1, <4>1 DEF InsertReturn, Finish, Goto, OneReturn
      <4>2. CASE ~Taken
        <5>1. PICK row : row.by = r /\ returns' = {row} /\ returns = {}
          <6>1. [by |-> r, status |-> "requested", decidedBy |-> NoRow].by = r
            OBVIOUS
          <6> QED BY <3>1, <4>2, <6>1 DEF InsertReturn, Taken
        <5>2. answer'[r] = "requested"
          BY <3>1, <4>2 DEF InsertReturn, Finish
        <5> QED BY <2>1, <5>1, <5>2 DEF OneReturn
      <4> QED BY <4>1, <4>2
    <3>2. CASE SaveUpdate(r)
      <4>1. PICK row \in returns, new \in Row : returns' = {new} /\ new.by = row.by
        BY <3>2, DecisionFacts
      <4>2. answer'[r] # "requested"
        BY <2>1, <3>2 DEF SaveUpdate, Finish
      <4> QED BY <2>1, <2>2, <4>1, <4>2 DEF OneReturn
    <3>3. CASE ~(InsertReturn(r) \/ SaveUpdate(r))
      <4>1. returns' = returns /\ answer'[r] # "requested"
        BY <1>2, <2>1, <3>3 DEF HandlerMoves, Handle, Goto, Finish, Answer, database, Arrive,
           ReadOrderToFulfil, InsertJob, MarkJob, MarkOrder, ReadOrderToReturn, FindExisting,
           ReadReturn, SaveSelect
      <4> QED BY <2>1, <2>2, <4>1 DEF OneReturn
    <3> QED BY <3>1, <3>2, <3>3
  <2> QED BY <2>4, <2>5 DEF OneReturn
<1> QED BY <1>1, <1>2

LEMMA RefundStep ==
    ASSUME FulfilmentInv, NEW r \in Requests, HandlerMoves(r) \/ Continue(r)
    PROVE  RefundsAreDecided'
<1> USE DEF FulfilmentInv, TypeOK, RefundsAreDecided, Stages
<1>1. /\ kind' = kind
      /\ \A s \in Requests \ {r} : /\ pc'[s] = pc[s] /\ answer'[s] = answer[s]
                                   /\ jobs'[s] = jobs[s] /\ stage'[s] = stage[s]
  BY HandlerFrame, ContinuationFrame
<1>5. \A s \in Requests : Approved(s) => Approved(s)'
  <2>1. Approved(r) => answer'[r] = "decided"
    BY HandlerFrame, ContinuationFrame DEF Approved, StageOfKind
  <2> QED BY <1>1, <2>1 DEF Approved
<1>6. stage'[r] = "refund" => Approved(r)'
  <2>1. CASE MarkJob(r)
    BY <2>1, <1>1 DEF MarkJob, Finish, Goto, StageOfKind, JobOfKind, Approved
  <2>2. CASE ~MarkJob(r) /\ stage'[r] = "refund"
    <3>1. stage[r] = "refund"
      BY <2>2 DEF HandlerMoves, Handle, Continue, Arrive, ReadOrderToFulfil, InsertJob, MarkOrder,
         ReadOrderToReturn, FindExisting, InsertReturn, ReadReturn, SaveSelect, SaveUpdate,
         Advance, UpdateOrder, Notify, BecomeReady, NoteReady, BecomeFulfilled, NoteFulfilled,
         BecomeRefunded, NoteRefunded, CompleteJob, SendWebhook
    <3> QED BY <3>1, <1>5
  <2> QED BY <2>1, <2>2
<1>2. status' = "refunded" => Decided' /\ \E s \in Requests : Approved(s)'
  <2>1. CASE status' = status
    BY <2>1, <1>5, DecidedLasts
  <2>2. CASE status' # status /\ status' = "refunded"
    <3>1. BecomeRefunded(r)
      BY <2>2 DEF HandlerMoves, Handle, database, Arrive, ReadOrderToFulfil, InsertJob, MarkJob,
         MarkOrder, ReadOrderToReturn, FindExisting, InsertReturn, ReadReturn, SaveSelect,
         SaveUpdate, Continue, UpdateOrder, Notify, BecomeReady, NoteReady, BecomeFulfilled,
         NoteFulfilled, NoteRefunded, CompleteJob, SendWebhook
    <3>2. Decided /\ Approved(r)
      BY <3>1 DEF BecomeRefunded, UpdateOrder, Advance, JobOfKind
    <3> QED BY <3>2, <1>5, DecidedLasts
  <2> QED BY <2>1, <2>2
<1>3. kind[r] = "approve" /\ (jobs'[r] # "none" \/ pc'[r] = "insertJob") => Decided'
  <2>1. CASE SaveUpdate(r)
    BY <2>1, DecisionFacts DEF Decided
  <2>2. CASE ~SaveUpdate(r) /\ kind[r] = "approve" /\ (jobs'[r] # "none" \/ pc'[r] = "insertJob")
    <3>1. jobs[r] # "none" \/ pc[r] = "insertJob"
      <4> USE DEF Goto, Finish, Answer, database, StageOfKind, JobOfKind, Decides
      <4>1. CASE Arrive(r) \/ ReadOrderToFulfil(r) \/ InsertJob(r)
        BY <2>2, <4>1 DEF Arrive, ReadOrderToFulfil, InsertJob
      <4>2. CASE MarkJob(r) \/ MarkOrder(r) \/ ReadOrderToReturn(r)
        BY <2>2, <4>2 DEF MarkJob, MarkOrder, ReadOrderToReturn
      <4>3. CASE FindExisting(r) \/ InsertReturn(r) \/ ReadReturn(r) \/ SaveSelect(r)
        BY <2>2, <4>3 DEF FindExisting, InsertReturn, ReadReturn, SaveSelect
      <4> USE DEF Advance, UpdateOrder, Notify
      <4>4. CASE BecomeReady(r) \/ NoteReady(r) \/ BecomeFulfilled(r) \/ NoteFulfilled(r)
        BY <2>2, <4>4 DEF BecomeReady, NoteReady, BecomeFulfilled, NoteFulfilled
      <4>5. CASE BecomeRefunded(r) \/ NoteRefunded(r) \/ CompleteJob(r) \/ SendWebhook(r)
        BY <2>2, <4>5 DEF BecomeRefunded, NoteRefunded, CompleteJob, SendWebhook
      <4> QED BY <2>2, <4>1, <4>2, <4>3, <4>4, <4>5 DEF HandlerMoves, Handle, Continue
    <3> QED BY <2>2, <3>1, DecidedLasts
  <2> QED BY <2>1, <2>2
<1>4. Decides(r) /\ answer'[r] = "decided" => Decided'
  <2>1. CASE SaveUpdate(r)
    BY <2>1, DecisionFacts DEF Decided
  <2>2. CASE ~SaveUpdate(r) /\ Decides(r) /\ answer'[r] = "decided"
    <3>1. answer[r] = "decided" \/ (kind[r] = "approve" /\ pc[r] = "markJob")
      BY <2>2, ContinuationFrame DEF HandlerMoves, Handle, Goto, Finish, Answer, Arrive,
         ReadOrderToFulfil, InsertJob, MarkJob, MarkOrder, ReadOrderToReturn, FindExisting,
         InsertReturn, ReadReturn, SaveSelect, StageOfKind, Decides
    <3>2. Decided
      BY <2>2, <3>1 DEF JobOfKind
    <3> QED BY <3>2, DecidedLasts
  <2> QED BY <2>1, <2>2
<1>7. \A s \in Requests \ {r} : stage'[s] = "refund" => Approved(s)'
  BY <1>1, <1>5
<1> QED BY <1>1, <1>2, <1>3, <1>4, <1>6, <1>7, DecidedLasts DEF Decides

\* Which step writes orders.status, and what.
LEMMA StatusWrites ==
    ASSUME NEW r \in Requests, HandlerMoves(r) \/ Continue(r)
    PROVE  \/ status' = status
           \/ MarkOrder(r) /\ status' = "processing"
           \/ BecomeReady(r) /\ status' = "ready"
           \/ BecomeFulfilled(r) /\ status' = "fulfilled"
           \/ BecomeRefunded(r) /\ status' = "refunded"
BY DEF HandlerMoves, Handle, database, Arrive, ReadOrderToFulfil, InsertJob, MarkJob, MarkOrder,
       ReadOrderToReturn, FindExisting, InsertReturn, ReadReturn, SaveSelect, SaveUpdate, Continue,
       UpdateOrder, Notify, BecomeReady, NoteReady, BecomeFulfilled, NoteFulfilled,
       BecomeRefunded, NoteRefunded, CompleteJob, SendWebhook

LEMMA AcceptedStep ==
    ASSUME FulfilmentInv, NEW r \in Requests, HandlerMoves(r) \/ Continue(r)
    PROVE  AcceptedIsNotPending'
<1> USE DEF FulfilmentInv, TypeOK, AcceptedIsNotPending
<1>1. \A s \in Requests \ {r} : answer'[s] = answer[s]
  BY HandlerFrame, ContinuationFrame
<1>2. status' # status => status' # "pending"
  BY StatusWrites
<1>3. answer'[r] = "accepted" => answer[r] = "accepted" \/ status' = "processing"
  BY ContinuationFrame DEF HandlerMoves, Handle, Goto, Finish, Answer, Arrive, ReadOrderToFulfil,
     InsertJob, MarkJob, MarkOrder, ReadOrderToReturn, FindExisting, InsertReturn, ReadReturn,
     SaveSelect, SaveUpdate
<1> QED BY <1>1, <1>2, <1>3

\* Some continuation of a fulfilment is behind every order that is on its way.
LEMMA OrphanStep ==
    ASSUME FulfilmentInv, NEW r \in Requests, HandlerMoves(r) \/ Continue(r)
    PROVE  NoOrphanedOrder'
<1> USE DEF FulfilmentInv, TypeOK, Stages
<1>1. kind' = kind /\ crashes' = crashes /\ \A s \in Requests \ {r} :
          stage'[s] = stage[s] /\ jobs'[s] = jobs[s]
  BY HandlerFrame, ContinuationFrame
<1> SUFFICES ASSUME status' \in {"processing", "ready"}, crashes = 0
             PROVE  \E s \in Fulfilments' : stage'[s] \in {"ready", "readyNote", "fulfilled"}
  BY <1>1 DEF NoOrphanedOrder
<1>2. CASE MarkOrder(r)
  BY <1>1, <1>2 DEF MarkOrder, Fulfilments, StageOfKind, JobOfKind
<1>3. CASE BecomeReady(r)
  BY <1>1, <1>3 DEF BecomeReady, UpdateOrder, Advance, Fulfilments, JobOfKind
<1>4. CASE status' = status
  <2>1. PICK s \in Fulfilments : stage[s] \in {"ready", "readyNote", "fulfilled"}
    BY <1>4 DEF NoOrphanedOrder
  <2>2. CASE s # r
    BY <1>1, <2>1, <2>2 DEF Fulfilments
  <2>3. CASE s = r
    <3>1. Continue(r)
      BY <2>1, <2>3, HandlerFrame DEF JobOfKind
    <3>2. jobs'[r] # "none"
      BY <2>1, <2>3, <3>1 DEF Fulfilments, Continue, Advance, UpdateOrder, Notify, BecomeReady,
         NoteReady, BecomeFulfilled, NoteFulfilled, BecomeRefunded, NoteRefunded, CompleteJob,
         SendWebhook, database
    <3>3. stage'[r] \in {"ready", "readyNote", "fulfilled"}
      BY <1>4, <2>1, <2>3, <3>1 DEF Continue, Advance, UpdateOrder, Notify, BecomeReady,
         NoteReady, BecomeFulfilled, NoteFulfilled, BecomeRefunded, NoteRefunded, CompleteJob,
         SendWebhook
    <3> QED BY <1>1, <2>1, <2>3, <3>2, <3>3 DEF Fulfilments
  <2> QED BY <2>2, <2>3
<1> QED BY <1>2, <1>3, <1>4, StatusWrites

\* No fulfilment is ever taken back.
LEMMA FulfilmentsStay ==
    ASSUME FulfilmentInv, NEW r \in Requests, HandlerMoves(r) \/ Continue(r)
    PROVE  /\ Fulfilments \subseteq Fulfilments'
           /\ Fulfilments' \subseteq Fulfilments \/ InsertJob(r)
<1> USE DEF FulfilmentInv, TypeOK
<1>1. kind' = kind /\ \A s \in Requests \ {r} : jobs'[s] = jobs[s]
  BY HandlerFrame, ContinuationFrame
<1>2. /\ jobs[r] # "none" => jobs'[r] # "none"
      /\ jobs'[r] # "none" => jobs[r] # "none" \/ InsertJob(r)
  BY DEF HandlerMoves, Handle, database, Arrive, ReadOrderToFulfil, InsertJob, MarkJob,
     MarkOrder, ReadOrderToReturn, FindExisting, InsertReturn, ReadReturn, SaveSelect,
     SaveUpdate, Stages, JobOfKind, Continue, Advance, UpdateOrder, Notify, BecomeReady, NoteReady,
     BecomeFulfilled, NoteFulfilled, BecomeRefunded, NoteRefunded, CompleteJob, SendWebhook
<1> QED BY <1>1, <1>2 DEF Fulfilments

\* Where the order is while one fulfilment was started at most.
LEMMA FollowStep ==
    ASSUME FulfilmentInv, NEW r \in Requests, HandlerMoves(r) \/ Continue(r)
    PROVE  StatusFollows'
<1> USE DEF FulfilmentInv, TypeOK, Stages
<1> SUFFICES ASSUME OneAtMost'
             PROVE  /\ Fulfilments' = {} => status' = "pending"
                    /\ \A s \in Fulfilments' :
                          /\ pc'[s] \in {"markJob", "markOrder"} => status' = "pending"
                          /\ stage'[s] = "ready" => status' = "processing"
                          /\ stage'[s] \in {"readyNote", "fulfilled"} => status' = "ready"
                    /\ returns' # {} => status' \in {"fulfilled", "refunded"}
                    /\ \A s \in Requests : pc'[s] \in {"findExisting", "insertReturn"} =>
                          status' \in {"fulfilled", "refunded"}
  BY DEF StatusFollows
<1>1. Fulfilments \subseteq Fulfilments' /\ (Fulfilments' \subseteq Fulfilments \/ InsertJob(r))
  BY FulfilmentsStay
<1>2. OneAtMost /\ \A s, t \in Fulfilments' : s = t
  BY <1>1 DEF OneAtMost
<1>3. /\ Fulfilments = {} => status = "pending"
      /\ \A s \in Fulfilments :
            /\ pc[s] \in {"markJob", "markOrder"} => status = "pending"
            /\ stage[s] = "ready" => status = "processing"
            /\ stage[s] \in {"readyNote", "fulfilled"} => status = "ready"
      /\ returns # {} => status \in {"fulfilled", "refunded"}
      /\ \A s \in Requests :
            pc[s] \in {"findExisting", "insertReturn"} => status \in {"fulfilled", "refunded"}
  BY <1>2 DEF StatusFollows
<1>4. /\ kind' = kind
      /\ \A s \in Requests \ {r} : pc'[s] = pc[s] /\ stage'[s] = stage[s] /\ jobs'[s] = jobs[s]
  BY HandlerFrame, ContinuationFrame
<1>5. Fulfilments' \subseteq Requests /\ Fulfilments \subseteq Requests
  BY DEF Fulfilments
<1>6. CASE InsertJob(r)
  <2>1. status' = status /\ returns' = returns /\ stage' = stage /\ pc'[r] = "markJob"
    BY <1>6 DEF InsertJob, Goto
  <2>2. r \notin Fulfilments /\ stage[r] = "none"
    BY <1>6 DEF InsertJob, JobOfKind, Fulfilments
  <2>3. r \in Fulfilments' => Fulfilments = {} /\ status = "pending"
    BY <1>1, <1>2, <1>3, <2>2
  <2>4. \A s \in Fulfilments' \ {r} : s \in Fulfilments
    BY <1>4 DEF Fulfilments
  <2> QED BY <1>1, <1>3, <1>4, <1>5, <2>1, <2>2, <2>3, <2>4
<1>7. CASE MarkOrder(r)
  <2>1. r \in Fulfilments /\ pc[r] = "markOrder"
    BY <1>7 DEF MarkOrder, Fulfilments, StageOfKind, JobOfKind
  <2>2. status = "pending" /\ returns' = returns
    BY <1>3, <1>7, <2>1 DEF MarkOrder
  <2>3. status' = "processing" /\ pc'[r] = "done" /\ stage'[r] = "ready"
    BY <1>7 DEF MarkOrder, Finish, Goto
  <2>4. Fulfilments' = {r}
    BY <1>1, <1>2, <2>1
  <2> QED BY <1>3, <1>4, <2>2, <2>3, <2>4
<1>8. CASE Continue(r)
  <2>1. pc' = pc /\ returns' = returns /\ pc[r] = "done" /\ jobs[r] # "none"
    BY <1>8, ContinuationFrame DEF JobOfKind
  <2>2. Fulfilments' = Fulfilments
    BY <1>1, <1>8, <2>1 DEF InsertJob
  <2>3. CASE kind[r] = "fulfil"
    <3>1. Fulfilments = {r}
      BY <1>1, <1>2, <2>1, <2>3 DEF Fulfilments
    <3> USE <1>3, <1>4, <2>1, <2>2, <2>3, <3>1 DEF Advance, UpdateOrder, Notify, JobOfKind, database
    <3>2. CASE BecomeReady(r) \/ NoteReady(r)
      BY <3>2 DEF BecomeReady, NoteReady
    <3>3. CASE BecomeFulfilled(r) \/ NoteFulfilled(r)
      BY <3>3 DEF BecomeFulfilled, NoteFulfilled
    <3>4. ~BecomeRefunded(r) /\ ~NoteRefunded(r)
      BY DEF BecomeRefunded, NoteRefunded
    <3>5. CASE CompleteJob(r) \/ SendWebhook(r)
      BY <3>5 DEF CompleteJob, SendWebhook
    <3> QED BY <1>8, <3>2, <3>3, <3>4, <3>5 DEF Continue
  <2>4. CASE kind[r] # "fulfil"
    <3>1. kind[r] = "approve" /\ r \notin Fulfilments
      BY <2>1, <2>4 DEF JobOfKind, Fulfilments
    <3>2. status \in {"fulfilled", "refunded"}
      BY <1>3, <2>1, <3>1 DEF RefundsAreDecided, Decided
    <3>3. status' = status \/ status' = "refunded"
      BY <1>8, <2>4, StatusWrites DEF MarkOrder, BecomeReady, BecomeFulfilled, UpdateOrder, Advance,
         JobOfKind, StageOfKind
    <3> QED BY <1>3, <1>4, <1>5, <2>1, <2>2, <3>1, <3>2, <3>3
  <2> QED BY <2>3, <2>4
<1>9. CASE HandlerMoves(r) /\ ~InsertJob(r) /\ ~MarkOrder(r)
  <2>1. status' = status
    BY <1>9, HandlerFrame, StatusWrites DEF BecomeReady, BecomeFulfilled, BecomeRefunded,
       UpdateOrder, Advance, JobOfKind
  <2>2. Fulfilments' = Fulfilments /\ pc[r] # "done" /\ stage[r] = "none"
    BY <1>1, <1>9, HandlerFrame DEF JobOfKind
  <2>3. returns' # {} => returns # {} \/ pc[r] = "insertReturn"
    BY <1>9 DEF HandlerMoves, Handle, database, Arrive, ReadOrderToFulfil, MarkJob, ReadOrderToReturn,
       FindExisting, InsertReturn, ReadReturn, SaveSelect, SaveUpdate
  <2>4. /\ pc'[r] \in {"findExisting", "insertReturn"} =>
              status \in {"fulfilled", "refunded"}
        /\ pc'[r] \in {"markJob", "markOrder"} => pc[r] = "markJob"
        /\ stage'[r] \in {"none", "refund"}
    <3> USE DEF Goto, Finish, Answer
    <3>1. CASE Arrive(r) \/ ReadOrderToFulfil(r) \/ MarkJob(r)
      BY <1>3, <2>2, <3>1 DEF Arrive, ReadOrderToFulfil, MarkJob
    <3>2. CASE ReadOrderToReturn(r) \/ FindExisting(r) \/ InsertReturn(r)
      BY <1>3, <2>2, <3>2 DEF ReadOrderToReturn, FindExisting, InsertReturn
    <3>3. CASE ReadReturn(r) \/ SaveSelect(r) \/ SaveUpdate(r)
      BY <1>3, <2>2, <3>3 DEF ReadReturn, SaveSelect, SaveUpdate
    <3> QED BY <1>9, <3>1, <3>2, <3>3 DEF HandlerMoves, Handle
  <2> QED BY <1>3, <1>4, <1>5, <2>1, <2>2, <2>3, <2>4
<1> QED BY <1>6, <1>7, <1>8, <1>9

------------------------------------------------------------------------------
\* The death of the process ends what was under way, and its answers are lost.
LEMMA CrashStep ==
    ASSUME FulfilmentInv, Crash
    PROVE  FulfilmentInv'
<1> USE DEF FulfilmentInv, TypeOK
<1>1. /\ UNCHANGED <<status, returns, jobs, notes, kind, found, hooked>>
      /\ crashes' = crashes + 1 /\ crashes' \in 1..MaxCrashes
      /\ pc' \in [Requests -> {"idle", "done"}]
      /\ \A s \in Requests : pc'[s] = "idle" => pc[s] = "idle"
      /\ stage' = [s \in Requests |-> "none"]
      /\ \A s \in Requests : answer'[s] = answer[s] \/ (answer'[s] = "lost" /\ pc[s] # "done")
      /\ \A s \in Requests : pc'[s] = "idle" => answer'[s] = answer[s]
  BY FulfilmentAssumption DEF Crash, database
<1>2. \A s \in Requests : pc[s] # "done" => answer[s] = "none"
  BY DEF Stages, StageOfKind
<1>3. TypeOK'
  <2>1. /\ answer' \in [Requests -> {"none", "conflict", "accepted", "requested", "notFound",
                                      "decided", "lost"}]
        /\ crashes' \in 0..MaxCrashes
    BY FulfilmentAssumption DEF Crash
  <2> QED BY <1>1, <2>1
<1>4. Stages'
  BY <1>1 DEF Stages, StageOfKind, JobOfKind, Decides
<1>5. NotesInOrder'
  BY <1>1 DEF NotesInOrder, ToldInOrder, Told, Whole
<1>6. OneReturn' /\ RefundsAreDecided' /\ AcceptedIsNotPending'
  <2>1. \A row \in returns : row.by \in Requests
    BY DEF Row
  <2> QED BY <1>1, <1>2, <2>1 DEF OneReturn, RefundsAreDecided, AcceptedIsNotPending, Decided,
             Decides, Approved
<1>7. StatusFollows'
  <2>1. Fulfilments' = Fulfilments
    BY <1>1 DEF Fulfilments
  <2> QED BY <1>1, <2>1 DEF StatusFollows, OneAtMost, Fulfilments
<1>8. NoOrphanedOrder'
  BY <1>1 DEF NoOrphanedOrder
<1> QED BY <1>3, <1>4, <1>5, <1>6, <1>7, <1>8

LEMMA FulfilmentNextStep == FulfilmentInv /\ [Next]_vars => FulfilmentInv'
<1> SUFFICES ASSUME FulfilmentInv, [Next]_vars PROVE FulfilmentInv'
  OBVIOUS
<1>1. ASSUME NEW r \in Requests, Arrive(r) \/ Handle(r) \/ Continue(r)
      PROVE  FulfilmentInv'
  <2>1. TypeOK'
    BY <1>1, HandlerTypes, ContinuationTypes DEF HandlerMoves
  <2>2. HandlerMoves(r) \/ Continue(r)
    BY <1>1 DEF HandlerMoves
  <2> QED BY <2>1, <2>2, StagesStep, NotesStep, ReturnStep, RefundStep, AcceptedStep, FollowStep,
             OrphanStep DEF FulfilmentInv
<1>2. CASE Crash
  BY <1>2, CrashStep
<1>3. CASE UNCHANGED vars
  <2> USE <1>3 DEF FulfilmentInv, vars, database, memory
  <2>1. TypeOK' /\ Stages' /\ NotesInOrder'
    <3>1. TypeOK'
      BY DEF TypeOK
    <3>2. Stages'
      BY DEF Stages, StageOfKind, JobOfKind, Decides
    <3>3. NotesInOrder'
      BY DEF NotesInOrder, ToldInOrder, Told, Whole
    <3> QED BY <3>1, <3>2, <3>3
  <2>2. OneReturn' /\ RefundsAreDecided' /\ AcceptedIsNotPending'
    <3>1. OneReturn'
      BY DEF OneReturn, Decided
    <3>2. RefundsAreDecided'
      BY DEF RefundsAreDecided, Decided, Decides, Approved
    <3>3. AcceptedIsNotPending'
      BY DEF AcceptedIsNotPending
    <3> QED BY <3>1, <3>2, <3>3
  <2>3. StatusFollows' /\ NoOrphanedOrder'
    BY DEF StatusFollows, OneAtMost, NoOrphanedOrder, Fulfilments
  <2> QED BY <2>1, <2>2, <2>3
<1> QED BY <1>1, <1>2, <1>3 DEF Next

LEMMA FulfilmentInvariance == Spec => []FulfilmentInv
<1> QED BY FulfilmentInitInv, FulfilmentNextStep, PTL DEF Spec

------------------------------------------------------------------------------
\* Every variable has its type.
THEOREM TypeCorrect == Spec => []TypeOK
<1>1. FulfilmentInv => TypeOK
  BY DEF FulfilmentInv
<1> QED BY <1>1, FulfilmentInvariance, PTL

\* An order on its way has a continuation behind it, until the process dies.
THEOREM NoOrderIsOrphaned == Spec => []NoOrphanedOrder
<1>1. FulfilmentInv => NoOrphanedOrder
  BY DEF FulfilmentInv
<1> QED BY <1>1, FulfilmentInvariance, PTL

\* A completed job told the owner of every status it stands for.
THEOREM CompletedJobsAreDone == Spec => []CompletedMeansDone
<1>1. FulfilmentInv => CompletedMeansDone
  BY DEF FulfilmentInv, NotesInOrder, ToldInOrder, Told, Whole, CompletedMeansDone
<1> QED BY <1>1, FulfilmentInvariance, PTL

\* One return per order, told truthfully to who asks, and no refund that nobody approved.
THEOREM OneReturnPerOrder == Spec => []ReturnsAreUnique
<1>1. FulfilmentInv => ReturnsAreUnique
  <2> SUFFICES ASSUME FulfilmentInv PROVE ReturnsAreUnique
    OBVIOUS
  <2>1. Cardinality(returns) <= 1
    <3>1. CASE returns = {}
      BY <3>1, FS_EmptySet
    <3>2. ASSUME NEW row \in returns
          PROVE  Cardinality(returns) <= 1
      <4>1. returns = {row}
        BY DEF FulfilmentInv, OneReturn
      <4>2. Cardinality({row}) = 1
        BY FS_Singleton
      <4> QED BY <4>1, <4>2
    <3> QED BY <3>1, <3>2
  <2>2. \A row \in returns : row.by \in Requests
    BY DEF FulfilmentInv, TypeOK, Row
  <2> QED BY <2>1, <2>2 DEF FulfilmentInv, OneReturn, RefundsAreDecided, Decided, Approved,
             ReturnsAreUnique
<1> QED BY <1>1, FulfilmentInvariance, PTL

\* Who comes after the answer is refused: no fulfil of a pending order was accepted, and
\* the return somebody was told is decided is decided for whoever reads it.
LEMMA RetriesAreRefused == Spec => RetryIsRefused
<1>1. FulfilmentInv /\ [Next]_vars =>
        [ \A r, s \in Requests :
            /\ kind[r] = "fulfil" /\ pc[r] = "readOrder" /\ pc'[r] # "readOrder"
            /\ kind[s] = "fulfil" /\ answer[s] = "accepted"
            => pc'[r] = "done" ]_vars
  <2> SUFFICES ASSUME FulfilmentInv, Next, NEW r \in Requests, NEW s \in Requests,
                      kind[r] = "fulfil", pc[r] = "readOrder", pc'[r] # "readOrder",
                      answer[s] = "accepted"
               PROVE  pc'[r] = "done"
    BY DEF vars, memory
  <2> USE DEF FulfilmentInv, TypeOK
  <2>1. status # "pending"
    BY DEF AcceptedIsNotPending
  <2>2. CASE Crash
    BY <2>2 DEF Crash
  <2>3. ASSUME NEW t \in Requests, HandlerMoves(t) \/ Continue(t)
        PROVE  pc'[r] = "done"
    <3>1. HandlerMoves(t) /\ t = r
      BY <2>3, HandlerFrame, ContinuationFrame
    <3> QED BY <2>1, <3>1 DEF HandlerMoves, Handle, Goto, Finish, Answer, Arrive, ReadOrderToFulfil,
       InsertJob, MarkJob, MarkOrder, ReadOrderToReturn, FindExisting, InsertReturn, ReadReturn,
       SaveSelect, SaveUpdate
  <2> QED BY <2>2, <2>3 DEF Next, HandlerMoves
<1> QED BY <1>1, FulfilmentInvariance, PTL DEF Spec, RetryIsRefused

LEMMA LateDecisionsAreRefused == Spec => LateDecisionIsRefused
<1>1. FulfilmentInv /\ [Next]_vars =>
        [ \A r, s \in Requests :
            /\ Decides(r) /\ pc[r] = "readReturn" /\ pc'[r] # "readReturn"
            /\ Decides(s) /\ answer[s] = "decided"
            => pc'[r] = "done" ]_vars
  <2> SUFFICES ASSUME FulfilmentInv, Next, NEW r \in Requests, NEW s \in Requests,
                      pc[r] = "readReturn", pc'[r] # "readReturn",
                      Decides(s), answer[s] = "decided"
               PROVE  pc'[r] = "done"
    BY DEF vars, memory
  <2> USE DEF FulfilmentInv, TypeOK
  <2>1. \A row \in returns : row.status # "requested"
    BY DEF RefundsAreDecided, Decided, OneReturn
  <2>2. CASE Crash
    BY <2>2 DEF Crash
  <2>3. ASSUME NEW t \in Requests, HandlerMoves(t) \/ Continue(t)
        PROVE  pc'[r] = "done"
    <3>1. HandlerMoves(t) /\ t = r
      BY <2>3, HandlerFrame, ContinuationFrame
    <3> QED BY <2>1, <3>1 DEF HandlerMoves, Handle, Goto, Finish, Answer, Arrive, ReadOrderToFulfil,
       InsertJob, MarkJob, MarkOrder, ReadOrderToReturn, FindExisting, InsertReturn, ReadReturn,
       SaveSelect, SaveUpdate
  <2> QED BY <2>2, <2>3 DEF Next, HandlerMoves
<1> QED BY <1>1, FulfilmentInvariance, PTL DEF Spec, LateDecisionIsRefused

\* Whoever comes after the answer is refused.
THEOREM LateCallersAreRefused == Spec => LateCallerIsRefused
<1> QED BY RetriesAreRefused, LateDecisionsAreRefused DEF LateCallerIsRefused

\* With one fulfilment at most the order goes only forward: each status is written over
\* the one before it, a refund over the end of the fulfilment.
THEOREM OneFulfilmentAdvances == Spec => StatusOnlyAdvances
<1>1. FulfilmentInv /\ [Next]_vars => [Cardinality(Fulfilments) <= 1 => Rank[status'] >= Rank[status]]_vars
  <2> SUFFICES ASSUME FulfilmentInv, Next, Cardinality(Fulfilments) <= 1
               PROVE  Rank[status'] >= Rank[status]
    BY DEF vars, database
  <2> USE DEF FulfilmentInv, TypeOK, Stages
  <2>1. IsFiniteSet(Fulfilments)
    BY FulfilmentAssumption, FS_Subset DEF Fulfilments
  <2>2. OneAtMost
    <3> SUFFICES ASSUME NEW q \in Fulfilments, NEW r \in Fulfilments, q # r
                 PROVE  FALSE
      BY DEF OneAtMost
    <3>1. IsFiniteSet(Fulfilments \ {q}) /\ Cardinality(Fulfilments \ {q}) = Cardinality(Fulfilments) - 1
      BY <2>1, FS_RemoveElement
    <3>2. Cardinality(Fulfilments \ {q}) \in Nat /\ Cardinality(Fulfilments) \in Nat
      BY <2>1, <3>1, FS_CardinalityType
    <3>3. Fulfilments \ {q} = {}
      BY <3>1, <3>2, FS_EmptySet
    <3> QED BY <3>3
  <2>3. \A a \in DOMAIN Rank : Rank[a] \in Nat
    BY DEF Rank
  <2>4. CASE status' = status
    BY <2>3, <2>4
  <2>5. ASSUME NEW r \in Requests, HandlerMoves(r) \/ Continue(r), status' # status
        PROVE  Rank[status'] >= Rank[status]
    <3>1. CASE MarkOrder(r) /\ status' = "processing"
      <4>1. r \in Fulfilments /\ pc[r] = "markOrder"
        BY <3>1 DEF MarkOrder, Fulfilments, StageOfKind, JobOfKind
      <4>2. status = "pending"
        BY <2>2, <4>1 DEF StatusFollows
      <4> QED BY <3>1, <4>2 DEF Rank
    <3>2. CASE BecomeReady(r) /\ status' = "ready"
      <4>1. r \in Fulfilments /\ stage[r] = "ready"
        BY <3>2 DEF BecomeReady, UpdateOrder, Advance, Fulfilments, JobOfKind
      <4>2. status = "processing"
        BY <2>2, <4>1 DEF StatusFollows
      <4> QED BY <3>2, <4>2 DEF Rank
    <3>3. CASE BecomeFulfilled(r) /\ status' = "fulfilled"
      <4>1. r \in Fulfilments /\ stage[r] = "fulfilled"
        BY <3>3 DEF BecomeFulfilled, UpdateOrder, Advance, Fulfilments, JobOfKind
      <4>2. status = "ready"
        BY <2>2, <4>1 DEF StatusFollows
      <4> QED BY <3>3, <4>2 DEF Rank
    <3>4. CASE status' = "refunded"
      BY <3>4 DEF Rank
    <3> QED BY <2>5, <3>1, <3>2, <3>3, <3>4, StatusWrites
  <2>6. CASE Crash
    BY <2>4, <2>6 DEF Crash, database
  <2> QED BY <2>4, <2>5, <2>6 DEF Next, HandlerMoves
<1> QED BY <1>1, FulfilmentInvariance, PTL DEF Spec, StatusOnlyAdvances


------------------------------------------------------------------------------
(***************************************************************************)
(* Tickets.  A history stays a walk of the workflow because a request      *)
(* alone with its ticket saves the status it checked and logs it before    *)
(* the next is served; what has yet to be logged, and what each save and   *)
(* each sweep has in hand, is what the invariant follows.                  *)
(***************************************************************************)
\* A nonempty set of positions of a sequence has a last one.
LEMMA LastPosition ==
    ASSUME NEW h \in Seq(TicketEvents), NEW S \in SUBSET DOMAIN h, S # {}
    PROVE  \E i \in S : \A j \in S : j <= i
<1> USE LenProperties
<1> DEFINE n == Len(h)
           B == {n - i : i \in S}
<1>1. n \in Nat /\ \A i \in S : i \in 1..n
  OBVIOUS
<1>2. B \subseteq Nat /\ B # {}
  BY <1>1
<1>3. \E m \in B : \A k \in B : ~(k < m)
  <2>1. IsWellFoundedOn({ss \in Nat \X Nat : ss[1] < ss[2]}, Nat)
    BY NatLessThanWellFounded DEF OpToRel
  <2> HIDE DEF B
  <2>2. \E m \in B : \A k \in B : ~(<<k, m>> \in {ss \in Nat \X Nat : ss[1] < ss[2]})
    BY <1>2, <2>1, WFMin
  <2> QED BY <1>2, <2>2
<1>4. PICK i \in S : \A k \in B : ~(k < n - i)
  BY <1>3
<1>5. \A j \in S : n - j \in B /\ ~(n - j < n - i)
  BY <1>4
<1> HIDE DEF B, n
<1> QED BY <1>1, <1>4, <1>5

\* Append, spelled out.
LEMMA AppendIs ==
    ASSUME NEW h \in Seq(TicketEvents), NEW e \in TicketEvents
    PROVE  /\ Append(h, e) \in Seq(TicketEvents)
           /\ Len(h) \in Nat /\ DOMAIN h = 1..Len(h)
           /\ Len(Append(h, e)) = Len(h) + 1
           /\ DOMAIN Append(h, e) = 1..(Len(h) + 1)
           /\ Append(h, e)[Len(h) + 1] = e
           /\ \A i \in 1..Len(h) : Append(h, e)[i] = h[i] /\ h[i] \in TicketEvents
<1>1. Append(h, e) \in Seq(TicketEvents) /\ Len(Append(h, e)) = Len(h) + 1
  BY AppendProperties
<1>2. DOMAIN Append(h, e) = 1..Len(Append(h, e))
  BY <1>1, LenProperties
<1>3. Len(h) \in Nat /\ DOMAIN h = 1..Len(h) /\ h \in [1..Len(h) -> TicketEvents]
  BY LenProperties
<1>4. /\ Append(h, e)[Len(h) + 1] = e
      /\ \A i \in 1..Len(h) : Append(h, e)[i] = h[i]
  BY AppendProperties
<1> QED BY <1>1, <1>2, <1>3, <1>4

\* No event stands for two operations.
LEMMA EventsDiffer ==
    /\ DOMAIN From = {"start", "resolve", "close", "cancel"}
    /\ \A a, b \in DOMAIN From : Event[a] = Event[b] => a = b
    /\ \A a \in DOMAIN From : Event[a] \notin {"created", "assigned", "claimed", "sla_breached"}
    /\ \A a \in DOMAIN From : Event[a] \in TicketEvents /\ To[a] \in TicketStatus
    /\ Event["assign"] = "assigned" /\ Event["claim"] = "claimed"
<1>1. DOMAIN From = {"start", "resolve", "close", "cancel"}
  BY DEF From
<1>2. /\ Event["start"] = "started" /\ Event["resolve"] = "resolved"
      /\ Event["close"] = "closed" /\ Event["cancel"] = "cancelled"
      /\ Event["assign"] = "assigned" /\ Event["claim"] = "claimed"
  BY DEF Event
<1>3. \A a \in {"start", "resolve", "close", "cancel"} : To[a] \in TicketStatus
  BY DEF To, TicketStatus
<1>4. \A a \in DOMAIN From : a = "start" \/ a = "resolve" \/ a = "close" \/ a = "cancel"
  BY <1>1
<1>5. \A a, b \in DOMAIN From : Event[a] = Event[b] => a = b
  BY <1>2, <1>4
<1>6. \A a \in DOMAIN From : Event[a] \notin {"created", "assigned", "claimed", "sla_breached"}
  BY <1>2, <1>4
<1>7. \A a \in DOMAIN From : Event[a] \in TicketEvents
  BY <1>2, <1>4 DEF TicketEvents
<1> QED BY <1>1, <1>2, <1>3, <1>5, <1>6, <1>7

\* The last of the moves, when there is one.
LastMove(h) == CHOOSE i \in Moves(h) : \A j \in Moves(h) : j <= i

LEMMA StatusOfMoves ==
    ASSUME NEW h \in Seq(TicketEvents)
    PROVE  /\ Moves(h) = {} => StatusOf(h) = "open"
           /\ \A n \in Moves(h), op \in DOMAIN From :
                 (\A j \in Moves(h) : j <= n) /\ h[n] = Event[op] => StatusOf(h) = To[op]
<1>1. \A i \in Moves(h) : i \in Nat
  BY LenProperties DEF Moves
<1>2. ASSUME NEW n \in Moves(h), NEW op \in DOMAIN From,
             \A j \in Moves(h) : j <= n, h[n] = Event[op]
      PROVE  StatusOf(h) = To[op]
  <2>1. LastMove(h) = n
    <3>1. LastMove(h) \in Moves(h) /\ \A j \in Moves(h) : j <= LastMove(h)
      BY <1>2 DEF LastMove
    <3>2. LastMove(h) \in Nat /\ n \in Nat /\ n <= LastMove(h) /\ LastMove(h) <= n
      BY <1>1, <1>2, <3>1
    <3> QED BY <3>2
  <2>2. (CHOOSE o \in DOMAIN From : Event[o] = h[n]) = op
    BY <1>2, EventsDiffer
  <2> QED BY <1>2, <2>1, <2>2 DEF StatusOf, LastMove
<1> QED BY <1>2 DEF StatusOf

\* One more event is the last move, or leaves the moves as they were.
LEMMA StatusOfAppend ==
    ASSUME NEW h \in Seq(TicketEvents), NEW e \in TicketEvents
    PROVE  /\ \A op \in DOMAIN From : e = Event[op] => StatusOf(Append(h, e)) = To[op]
           /\ (\A op \in DOMAIN From : e # Event[op]) => StatusOf(Append(h, e)) = StatusOf(h)
<1> DEFINE g == Append(h, e)
           n == Len(h)
<1>1. /\ n \in Nat /\ DOMAIN h = 1..n /\ DOMAIN g = 1..(n + 1) /\ g[n + 1] = e
      /\ \A i \in 1..n : g[i] = h[i]
      /\ g \in Seq(TicketEvents)
  BY AppendIs
<1> HIDE DEF g, n
<1>2. ASSUME NEW op \in DOMAIN From, e = Event[op]
      PROVE  StatusOf(g) = To[op]
  <2>1. n + 1 \in Moves(g) /\ \A j \in Moves(g) : j <= n + 1
    BY <1>1, <1>2 DEF Moves
  <2> QED BY <1>1, <1>2, <2>1, StatusOfMoves
<1>3. ASSUME \A op \in DOMAIN From : e # Event[op]
      PROVE  StatusOf(g) = StatusOf(h)
  <2>1. Moves(g) = Moves(h)
    <3>1. \A i \in Moves(g) : i \in Moves(h)
      <4> SUFFICES ASSUME NEW i \in Moves(g) PROVE i \in Moves(h)
        OBVIOUS
      <4>1. i \in 1..(n + 1)
        BY <1>1 DEF Moves
      <4>2. PICK op \in DOMAIN From : g[i] = Event[op]
        BY DEF Moves
      <4>3. i # n + 1
        BY <1>1, <1>3, <4>2
      <4>4. i \in 1..n
        BY <1>1, <4>1, <4>3
      <4> QED BY <1>1, <4>2, <4>4 DEF Moves
    <3>2. \A i \in Moves(h) : i \in Moves(g)
      BY <1>1 DEF Moves
    <3> QED BY <3>1, <3>2
  <2>2. CASE Moves(h) = {}
    BY <1>1, <2>1, <2>2, StatusOfMoves
  <2>3. CASE Moves(h) # {}
    <3>1. Moves(h) \subseteq DOMAIN h
      BY DEF Moves
    <3>2. PICK last \in Moves(h) : \A j \in Moves(h) : j <= last
      BY <2>3, <3>1, LastPosition
    <3>3. PICK op \in DOMAIN From : h[last] = Event[op]
      BY DEF Moves
    <3>4. g[last] = h[last]
      BY <1>1, <3>1, <3>2
    <3>5. StatusOf(h) = To[op]
      BY <3>2, <3>3, StatusOfMoves
    <3>6. StatusOf(g) = To[op]
      BY <1>1, <2>1, <3>2, <3>3, <3>4, StatusOfMoves
    <3> QED BY <3>5, <3>6
  <2> QED BY <2>2, <2>3
<1> QED BY <1>2, <1>3 DEF g

\* A legal move, or no move, keeps a history legal.
LEMMA LegalAppend ==
    ASSUME NEW h \in Seq(TicketEvents), NEW e \in TicketEvents, LegalHistory(h),
           \A op \in DOMAIN From : e = Event[op] => StatusOf(h) \in From[op]
    PROVE  LegalHistory(Append(h, e))
<1> DEFINE g == Append(h, e)
           n == Len(h)
<1> SUFFICES ASSUME NEW i \in DOMAIN g, NEW op \in DOMAIN From, g[i] = Event[op]
             PROVE  StatusOf(SubSeq(g, 1, i - 1)) \in From[op]
  BY DEF LegalHistory
<1>1. /\ n \in Nat /\ DOMAIN h = 1..n /\ DOMAIN g = 1..(n + 1) /\ g[n + 1] = e
      /\ \A j \in 1..n : g[j] = h[j] /\ h[j] \in TicketEvents
  BY AppendIs
<1>5. SubSeq(h, 1, n) = h
  BY SubSeqFull
<1> HIDE DEF g, n
<1>2. SubSeq(g, 1, i - 1) = SubSeq(h, 1, i - 1)
  <2>1. i - 1 \in 0..n /\ i - 1 \in Int
    BY <1>1
  <2>2. \A j \in 1..(i - 1) : g[j] \in TicketEvents /\ h[j] \in TicketEvents /\ g[j] = h[j]
    BY <1>1, <2>1
  <2> DEFINE k == i - 1
  <2> HIDE DEF k
  <2>6. k \in Nat /\ \A j \in 1..k : g[j] \in TicketEvents /\ h[j] \in TicketEvents /\ g[j] = h[j]
    BY <2>1, <2>2 DEF k
  <2>3. /\ SubSeq(g, 1, k) \in Seq(TicketEvents)
        /\ Len(SubSeq(g, 1, k)) = IF 1 <= k THEN k - 1 + 1 ELSE 0
        /\ \A j \in 1..(k - 1 + 1) : SubSeq(g, 1, k)[j] = g[1 + j - 1]
    BY <2>6, SubSeqProperties
  <2>4. /\ SubSeq(h, 1, k) \in Seq(TicketEvents)
        /\ Len(SubSeq(h, 1, k)) = IF 1 <= k THEN k - 1 + 1 ELSE 0
        /\ \A j \in 1..(k - 1 + 1) : SubSeq(h, 1, k)[j] = h[1 + j - 1]
    BY <2>6, SubSeqProperties
  <2>5. /\ Len(SubSeq(g, 1, k)) = k /\ Len(SubSeq(h, 1, k)) = k
    BY <2>3, <2>4, <2>6
  <2>7. \A j \in 1..k : SubSeq(g, 1, k)[j] = SubSeq(h, 1, k)[j]
    <3> SUFFICES ASSUME NEW j \in 1..k PROVE SubSeq(g, 1, k)[j] = SubSeq(h, 1, k)[j]
      OBVIOUS
    <3>1. j \in 1..(k - 1 + 1) /\ 1 + j - 1 = j
      BY <2>6
    <3> QED BY <2>3, <2>4, <2>6, <3>1
  <2> QED BY <2>3, <2>4, <2>5, <2>7, SeqEqual DEF k
<1>3. CASE i \in 1..n
  BY <1>1, <1>2, <1>3 DEF LegalHistory
<1>4. CASE i = n + 1
  <2>1. i - 1 = n
    BY <1>1, <1>4
  <2>2. SubSeq(g, 1, i - 1) = h
    BY <1>2, <1>5, <2>1
  <2>3. e = Event[op]
    BY <1>1, <1>4
  <2> QED BY <2>2, <2>3
<1> QED BY <1>1, <1>3, <1>4
TicketStages == {"idle", "saveSelect", "saveWrite", "log", "done"}
TicketAnswers == {"none", "ok", "notFound", "forbidden", "conflict", "error"}

Types ==
    /\ tickets \in [Tickets -> TicketRow \cup {NoTicket}]
    /\ history \in [Tickets -> Seq(TicketEvents)]
    /\ overdue \subseteq Tickets
    /\ stamps \in Nat
    /\ ticketPc \in [TicketRequests -> TicketStages]
    /\ ticketAnswer \in [TicketRequests -> TicketAnswers]
    /\ mine \in [TicketRequests -> TicketRow \cup {NoTicket}]
    /\ selected \in [TicketRequests -> TicketRow \cup {NoTicket}]
    /\ at \in [Sweeps -> {"idle", "stamp", "log"}]
    /\ batch \in [Sweeps -> Seq(Tickets)]
    /\ since \in [Sweeps -> SUBSET Tickets]

\* There is one sweep at most, and one under way has work left.
OneSweep ==
    /\ \A s \in Sweeps : (at[s] = "idle") = (batch[s] = <<>>)
    /\ sweeping = \E s \in Sweeps : at[s] # "idle"
    /\ \A s, u \in Sweeps : at[s] # "idle" /\ at[u] # "idle" => s = u

Saving(r) == ticketPc[r] \in {"saveSelect", "saveWrite"}
UnderWay(r) == ticketPc[r] \notin {"idle", "done"}
For(r, t) == req[r].ticket = t
Moving(r) == req[r].op \in DOMAIN From

\* Who saves holds a row.
InHandNow ==
    \A r \in TicketRequests : Saving(r) => ~Creates(r) /\ mine[r] # NoTicket

\* A ticket somebody is working on is there, unless a reset took it meanwhile.
ThereUnlessReset ==
    \A r \in TicketRequests :
        UnderWay(r) /\ req[r].ticket \notin held =>
            /\ ~Gone(req[r].ticket)
            /\ ticketPc[r] = "saveWrite" => selected[r] # NoTicket

\* Nobody knows a ticket before it is created.
Unborn ==
    \A r \in TicketRequests :
        Creates(r) /\ ticketPc[r] = "idle" =>
            /\ Gone(req[r].ticket) /\ history[req[r].ticket] = <<>>
            /\ \A q \in TicketRequests :
                  For(q, req[r].ticket) => ~UnderWay(q) /\ ticketAnswer[q] # "ok"
            /\ \A s \in Sweeps : \A i \in DOMAIN batch[s] : batch[s][i] # req[r].ticket

\* Requests for a ticket that was never rushed do not meet.
Sole ==
    \A r, q \in TicketRequests :
        UnderWay(r) /\ UnderWay(q) /\ req[r].ticket = req[q].ticket
        /\ req[r].ticket \notin rushed => r = q

\* What a sweep has not come to is as it was when it read it, or was saved since.
BatchIsFresh ==
    \A s \in Sweeps :
        /\ \A i, j \in DOMAIN batch[s] : i # j => batch[s][i] # batch[s][j]
        /\ \A i \in DOMAIN batch[s] :
              (at[s] = "log" => i > 1) =>
                  LET t == batch[s][i] IN
                  \/ Gone(t) \/ t \in since[s]
                  \/ ~tickets[t].slaBreached /\ tickets[t].status \in {"open", "in_progress"}

BreachIsKnown(t) == Breaching(t) \/ Contains(history[t], "sla_breached")

\* Whoever has seen a breach, its event is there or about to be.
BreachesAreKnown ==
    /\ \A t \in Tickets \ (held \cup unlogged) :
          ~Gone(t) /\ tickets[t].slaBreached => BreachIsKnown(t)
    /\ \A r \in TicketRequests :
          Saving(r) /\ mine[r].slaBreached /\ req[r].ticket \notin held \cup unlogged
              => BreachIsKnown(req[r].ticket)

\* A save without company meets the ticket as its SELECT found it.
SeesAlone ==
    \A r \in TicketRequests :
        ticketPc[r] = "saveWrite" /\ req[r].ticket \notin rushed =>
            IF selected[r] = NoTicket THEN Gone(req[r].ticket)
            ELSE Gone(req[r].ticket) \/
                 /\ tickets[req[r].ticket].status = selected[r].status
                 /\ tickets[req[r].ticket].assignedTo = selected[r].assignedTo

\* The history is a walk of the workflow; a status that is written and not yet logged is
\* the next step of it.
HistoryIsAWalk ==
    \A t \in Tickets \ (held \cup unlogged \cup rushed) :
        ~Gone(t) => LegalHistory(history[t]) /\ (~Logging(t) => tickets[t].status = StatusOf(history[t]))

NextIsLegal ==
    \A r \in TicketRequests :
        LET t == req[r].ticket IN
        t \notin held \cup unlogged \cup rushed =>
            /\ Saving(r) =>
                  /\ Moving(r) => tickets[t].status \in From[req[r].op]
                  /\ mine[r].status = IF Moving(r) THEN To[req[r].op] ELSE tickets[t].status
            /\ ticketPc[r] = "log" =>
                  IF Moving(r) THEN /\ StatusOf(history[t]) \in From[req[r].op]
                                    /\ tickets[t].status = To[req[r].op]
                               ELSE tickets[t].status = StatusOf(history[t])

Claims(r) == req[r].op = "claim"
NoAssign(t) ==
    ~\E s \in TicketRequests : req[s].op = "assign" /\ For(s, t) /\ ticketPc[s] # "idle"

\* Who has claimed a ticket is in its row and in every copy of it.
ClaimsStay ==
    \A r \in TicketRequests :
        LET t == req[r].ticket IN
        Claims(r) =>
            /\ Saving(r) => mine[r].assignedTo = req[r].by
            /\ t \notin rushed /\ NoAssign(t) =>
                  /\ ticketPc[r] = "log" /\ ~Gone(t) => tickets[t].assignedTo = req[r].by
                  /\ ticketAnswer[r] = "ok" =>
                        /\ ~Gone(t) => tickets[t].assignedTo = req[r].by
                        /\ \A q \in TicketRequests :
                              Saving(q) /\ For(q, t) => mine[q].assignedTo = req[r].by

TicketInv ==
    /\ Types /\ OneSweep /\ InHandNow /\ ThereUnlessReset /\ Unborn /\ Sole
    /\ BatchIsFresh /\ BreachesAreKnown /\ SeesAlone /\ HistoryIsAWalk /\ NextIsLegal
    /\ ClaimsStay

\* What save makes of a ticket: the columns the entity in memory changed.
LEMMA SavedTicket ==
    ASSUME NEW x \in TicketRow, NEW was \in TicketRow, NEW mem \in TicketRow
    PROVE  LET saved == Saved(x, was, mem)
           IN  /\ saved \in TicketRow
               /\ saved.status = IF mem.status # was.status THEN mem.status ELSE x.status
               /\ saved.assignedTo = IF mem.assignedTo # was.assignedTo
                                     THEN mem.assignedTo ELSE x.assignedTo
               /\ saved.slaBreached = IF mem.slaBreached # was.slaBreached
                                      THEN mem.slaBreached ELSE x.slaBreached
<1> DEFINE saved == Saved(x, was, mem)
<1>1. DOMAIN x = {"status", "assignedTo", "slaBreached", "breachedAt"}
  BY DEF TicketRow
<1>2. saved = [status |-> IF mem.status # was.status THEN mem.status ELSE x.status,
               assignedTo |-> IF mem.assignedTo # was.assignedTo THEN mem.assignedTo
                              ELSE x.assignedTo,
               slaBreached |-> IF mem.slaBreached # was.slaBreached THEN mem.slaBreached
                               ELSE x.slaBreached,
               breachedAt |-> IF mem.breachedAt # was.breachedAt THEN mem.breachedAt
                              ELSE x.breachedAt]
  BY <1>1 DEF Saved
<1>3. saved \in TicketRow
  BY <1>2 DEF TicketRow
<1> QED BY <1>2, <1>3

\* What a request is.
LEMMA BodyOf ==
    ASSUME NEW r \in TicketRequests
    PROVE  /\ req[r].ticket \in Tickets /\ req[r].assignee \in Agents \cup {NoAgent}
           /\ req[r].op \in Operations
           /\ ~Creates(r) => Moving(r) \/ req[r].op \in {"assign", "claim"}
           /\ Creates(r) => ~Moving(r) /\ req[r].op = "create" /\ req[r].ticket \notin Existing
           /\ \A q \in TicketRequests :
                 Creates(q) /\ Creates(r) /\ For(q, req[r].ticket) => q = r
           /\ Claims(r) => ~Moving(r) /\ ~Creates(r) /\ req[r].by # NoAgent /\ req[r].by \in Agents
<1>1. req[r] \in Body
  BY TicketsAssumption
<1>2. DOMAIN From = {"start", "resolve", "close", "cancel"}
  BY EventsDiffer
<1>3. /\ req[r].ticket \in Tickets /\ req[r].assignee \in Agents \cup {NoAgent}
      /\ req[r].op \in Operations
  BY <1>1 DEF Body
<1>4. ~Creates(r) => Moving(r) \/ req[r].op \in {"assign", "claim"}
  BY <1>2, <1>3 DEF Operations, Creates, Moving
<1>5. Creates(r) => ~Moving(r) /\ req[r].op = "create" /\ req[r].ticket \notin Existing
  BY <1>2, TicketsAssumption DEF Creates, Moving
<1>6. \A q \in TicketRequests : Creates(q) /\ Creates(r) /\ For(q, req[r].ticket) => q = r
  BY TicketsAssumption DEF For
<1>7. Claims(r) => ~Moving(r) /\ ~Creates(r) /\ req[r].by # NoAgent /\ req[r].by \in Agents
  BY <1>2, TicketsAssumption DEF Claims, Moving, Creates
<1> QED BY <1>3, <1>4, <1>5, <1>6, <1>7

\* What a handler makes of the ticket in memory.
LEMMA ChangedTicket ==
    ASSUME NEW r \in TicketRequests, ~Creates(r), NEW x \in TicketRow
    PROVE  LET y == Changed(req[r], x)
           IN  /\ y \in TicketRow /\ y.slaBreached = x.slaBreached
               /\ y.status = IF Moving(r) THEN To[req[r].op] ELSE x.status
               /\ y.assignedTo = IF req[r].op = "assign" THEN req[r].assignee
                                 ELSE IF req[r].op = "claim" THEN req[r].by ELSE x.assignedTo
<1>1. DOMAIN From = {"start", "resolve", "close", "cancel"}
  BY EventsDiffer
<1>2. \A op \in DOMAIN From : To[op] \in TicketStatus
  BY EventsDiffer
<1>3. CASE Moving(r)
  <2>1. Changed(req[r], x) = [x EXCEPT !.status = To[req[r].op]]
    BY <1>1, <1>3 DEF Changed, Moving
  <2> QED BY <1>1, <1>2, <1>3, <2>1 DEF TicketRow, Moving
<1>4. CASE req[r].op = "assign"
  <2>1. Changed(req[r], x) = [x EXCEPT !.assignedTo = req[r].assignee]
    BY <1>4 DEF Changed
  <2> QED BY <1>1, <1>4, <2>1, BodyOf DEF TicketRow, Moving
<1>5. CASE req[r].op = "claim"
  <2>1. Changed(req[r], x) = [x EXCEPT !.assignedTo = req[r].by]
    BY <1>5 DEF Changed
  <2>2. req[r].by \in Agents
    BY <1>5, BodyOf DEF Claims
  <2> QED BY <1>1, <1>5, <2>1, <2>2 DEF TicketRow, Moving
<1> QED BY <1>3, <1>4, <1>5, BodyOf

\* A list of overdue tickets names each once; so does the batch cut from it.
LEMMA BatchOf ==
    ASSUME NEW list \in Overdue, list # <<>>
    PROVE  LET b == FirstBatch(list)
           IN  /\ b \in Seq(Tickets) /\ b # <<>>
               /\ \A i, j \in DOMAIN b : i # j => b[i] # b[j]
               /\ \A i \in DOMAIN b : Matches(b[i])
<1> DEFINE S == {t \in Tickets : Matches(t)}
           m == IF Len(list) < Batch THEN Len(list) ELSE Batch
           b == SubSeq(list, 1, m)
<1>1. list \in [1..Cardinality(S) -> S] /\ Cardinality(S) \in Nat
  <2>1. list \in SetToSeqs(S)
    BY DEF Overdue
  <2>2. list \in [1..Cardinality(S) -> S]
    BY <2>1 DEF SetToSeqs
  <2>3. IsFiniteSet(S)
    BY FS_Subset, TicketsAssumption
  <2> QED BY <2>2, <2>3, FS_CardinalityType
<1>2. \A i, j \in 1..Cardinality(S) : i # j => list[i] # list[j]
  BY DEF Overdue, SetToSeqs
<1>3. list \in Seq(S) /\ Len(list) = Cardinality(S)
  <2> DEFINE k == Cardinality(S)
  <2> HIDE DEF S, k
  <2>1. list \in [1..k -> S] /\ k \in Nat
    BY <1>1 DEF k
  <2>2. list \in Seq(S) /\ Len(list) = k
    BY <2>1
  <2> QED BY <2>2 DEF k
<1> DEFINE n == Len(list)
<1>4. n \in Nat \ {0} /\ Batch \in Nat \ {0}
  BY <1>1, <1>3, EmptySeq, TicketsAssumption
<1>5. m \in 1..n
  BY <1>4
<1> HIDE DEF m, n
<1>6. \A i \in 1..m : list[i] \in S
  BY <1>1, <1>3, <1>4, <1>5 DEF n
<1>7. /\ b \in Seq(S) /\ Len(b) = IF 1 <= m THEN m - 1 + 1 ELSE 0
      /\ \A i \in 1..(m - 1 + 1) : b[i] = list[1 + i - 1]
  <2> HIDE DEF S
  <2>1. m \in Int /\ 1 \in Int
    BY <1>4, <1>5
  <2> QED BY <1>6, <2>1, SubSeqProperties
<1>8. Len(b) = m /\ DOMAIN b = 1..m /\ \A i \in 1..m : b[i] = list[i] /\ b[i] \in S
  <2>1. m \in Nat /\ 1 <= m
    BY <1>4, <1>5
  <2>2. Len(b) = m
    BY <1>7, <2>1
  <2>3. DOMAIN b = 1..m
    BY <1>7, <2>2, LenProperties
  <2>4. \A i \in 1..m : i \in 1..(m - 1 + 1) /\ 1 + i - 1 = i
    BY <2>1
  <2> HIDE DEF b
  <2> QED BY <1>6, <1>7, <2>2, <2>3, <2>4
<1> HIDE DEF b
<1>9. b \in Seq(Tickets)
  <2>1. b \in [1..m -> Tickets]
    BY <1>7, <1>8, LenProperties
  <2> QED BY <2>1, <1>4, <1>5
<1>10. b # <<>>
  <2>1. Len(b) # 0
    BY <1>5, <1>8, <1>4
  <2> QED BY <2>1, EmptySeq
<1>11. \A i, j \in DOMAIN b : i # j => b[i] # b[j]
  BY <1>1, <1>2, <1>3, <1>4, <1>5, <1>8 DEF n
<1>12. \A i \in DOMAIN b : Matches(b[i])
  BY <1>8
<1> QED BY <1>9, <1>10, <1>11, <1>12 DEF FirstBatch, b, m

\* What is left of a batch once its first ticket is dealt with.
LEMMA RestOf ==
    ASSUME NEW b \in Seq(Tickets), b # <<>>
    PROVE  /\ Len(b) \in Nat \ {0} /\ DOMAIN b = 1..Len(b) /\ Head(b) = b[1]
           /\ 1 \in DOMAIN b /\ Head(b) \in Tickets
           /\ Tail(b) \in Seq(Tickets) /\ Len(Tail(b)) = Len(b) - 1
           /\ Len(b) = 1 <=> Tail(b) = <<>>
           /\ \A i \in DOMAIN Tail(b) : i + 1 \in DOMAIN b /\ Tail(b)[i] = b[i + 1] /\ i + 1 > 1
<1>1. Len(b) \in Nat \ {0} /\ DOMAIN b = 1..Len(b)
  BY EmptySeq, LenProperties
<1>2. Head(b) = b[1]
  OBVIOUS
<1>3. /\ Head(b) \in Tickets /\ Tail(b) \in Seq(Tickets) /\ Len(Tail(b)) = Len(b) - 1
      /\ \A i \in 1..Len(Tail(b)) : Tail(b)[i] = b[i + 1]
  BY HeadTailProperties
<1>4. DOMAIN Tail(b) = 1..Len(Tail(b))
  BY <1>3, LenProperties
<1>5. Len(b) = 1 <=> Tail(b) = <<>>
  <2>1. Tail(b) # <<>> => Len(Tail(b)) \in Nat \ {0}
    BY <1>3, EmptySeq
  <2>2. Tail(b) = <<>> => Len(Tail(b)) = 0
    <3>1. Len(<<>>) = 0
      BY EmptySeq
    <3> DEFINE tail == Tail(b)
    <3> HIDE DEF tail
    <3>2. tail = <<>> => Len(tail) = 0
      BY <3>1
    <3> QED BY <3>2 DEF tail
  <2> QED BY <1>1, <1>3, <2>1, <2>2
<1> QED BY <1>1, <1>2, <1>3, <1>4, <1>5

LEMMA NewRowIsOne ==
    NewRow \in TicketRow /\ NewRow.status = "open" /\ ~NewRow.slaBreached /\ NewRow # NoTicket
<1>1. NewRow.status = "open" /\ ~NewRow.slaBreached
  BY DEF NewRow
<1>2. NewRow \in TicketRow
  BY DEF NewRow, TicketRow, TicketStatus
<1> QED BY <1>1, <1>2, TicketsAssumption

LEMMA EmptyHistory ==
    /\ <<>> \in Seq(TicketEvents) /\ LegalHistory(<<>>) /\ StatusOf(<<>>) = "open"
    /\ ~Contains(<<>>, "sla_breached")
<1>1. <<>> \in Seq(TicketEvents) /\ Len(<<>>) = 0
  BY EmptySeq
<1>2. DOMAIN <<>> = {}
  OBVIOUS
<1>3. LegalHistory(<<>>)
  BY <1>2 DEF LegalHistory
<1>4. Moves(<<>>) = {}
  BY <1>2 DEF Moves
<1>5. StatusOf(<<>>) = "open"
  BY <1>4 DEF StatusOf
<1>6. ~Contains(<<>>, "sla_breached")
  BY <1>1 DEF Contains
<1> QED BY <1>1, <1>3, <1>5, <1>6

LEMMA TicketInitInv == TicketsInit => TicketInv
<1> SUFFICES ASSUME TicketsInit PROVE TicketInv
  OBVIOUS
<1> USE DEF TicketsInit
<1>1. PICK start \in [Existing -> Start] :
          /\ tickets = [t \in Tickets |-> IF t \in Existing THEN start[t].row ELSE NoTicket]
          /\ history = [t \in Tickets |-> IF t \in Existing THEN start[t].history ELSE <<>>]
  OBVIOUS
<1>2. \A t \in Tickets :
          /\ t \in Existing => /\ tickets[t] \in TicketRow /\ ~tickets[t].slaBreached
                               /\ history[t] \in Seq(TicketEvents)
                               /\ LegalHistory(history[t])
                               /\ tickets[t].status = StatusOf(history[t])
          /\ t \notin Existing => tickets[t] = NoTicket /\ history[t] = <<>>
  <2>1. \A t \in Existing : start[t] \in Start
    OBVIOUS
  <2> QED BY <1>1, <2>1, TicketsAssumption, StartAssumption
<1>3. Types
  <2>1. tickets \in [Tickets -> TicketRow \cup {NoTicket}]
    BY <1>1, <1>2
  <2>2. history \in [Tickets -> Seq(TicketEvents)]
    BY <1>1, <1>2, EmptyHistory
  <2>3. batch \in [Sweeps -> Seq(Tickets)]
    BY EmptySeq
  <2> QED BY <2>1, <2>2, <2>3 DEF Types, TicketStages, TicketAnswers
<1>4. OneSweep /\ InHandNow /\ ThereUnlessReset /\ Sole
  BY DEF OneSweep, InHandNow, ThereUnlessReset, Sole, Saving, UnderWay
<1>5. Unborn
  <2>1. \A r \in TicketRequests : Creates(r) =>
            Gone(req[r].ticket) /\ history[req[r].ticket] = <<>>
    BY <1>2, BodyOf DEF Gone
  <2>2. \A s \in Sweeps : DOMAIN batch[s] = {}
    OBVIOUS
  <2> QED BY <2>1, <2>2 DEF Unborn, UnderWay
<1>6. BatchIsFresh
  <2>1. \A s \in Sweeps : DOMAIN batch[s] = {}
    OBVIOUS
  <2> QED BY <2>1 DEF BatchIsFresh
<1>7. BreachesAreKnown /\ SeesAlone
  BY <1>2 DEF BreachesAreKnown, SeesAlone, Gone, Saving
<1>8. HistoryIsAWalk /\ NextIsLegal /\ ClaimsStay
  BY <1>2 DEF HistoryIsAWalk, NextIsLegal, ClaimsStay, Saving, Gone
<1> QED BY <1>3, <1>4, <1>5, <1>6, <1>7, <1>8 DEF TicketInv

------------------------------------------------------------------------------
(***************************************************************************)
(* What each kind of step leaves alone.                                    *)
(***************************************************************************)
Handling(r) == Receive(r) \/ GoOn(r)

\* A handler works on its own ticket and its own entity.
LEMMA TicketHandlerFrame ==
    ASSUME Types, NEW r \in TicketRequests, Handling(r)
    PROVE  /\ UNCHANGED <<overdue, stamps, sweeping, batch, at, incidents, held, unlogged>>
           /\ \A q \in TicketRequests \ {r} :
                 /\ ticketPc'[q] = ticketPc[q] /\ ticketAnswer'[q] = ticketAnswer[q]
                 /\ mine'[q] = mine[q] /\ selected'[q] = selected[q]
           /\ \A t \in Tickets \ {req[r].ticket} :
                 /\ tickets'[t] = tickets[t] /\ history'[t] = history[t]
                 /\ t \in rushed' <=> t \in rushed
           /\ rushed \subseteq rushed'
           /\ ticketPc[r] # "done" /\ ticketPc'[r] # "idle"
           /\ ticketPc[r] # "idle" => rushed' = rushed
           /\ ticketPc[r] = "idle" => InProgress(req[r].ticket) = {} \/ req[r].ticket \in rushed'
<1> USE DEF Types, MoveTo, AnswerWith, Serve, rows, handlers, sweeper, past
<1>1. CASE Create(r)
  BY <1>1 DEF Create
<1>2. CASE ReadTicket(r)
  BY <1>2 DEF ReadTicket
<1>3. CASE SelectTicket(r)
  BY <1>3 DEF SelectTicket
<1>4. CASE WriteTicket(r)
  BY <1>4 DEF WriteTicket
<1>5. CASE LogEvent(r)
  BY <1>5 DEF LogEvent, Record
<1> QED BY <1>1, <1>2, <1>3, <1>4, <1>5 DEF Handling, Receive, GoOn

\* The sweep and the clock touch nothing of the handlers'.
LEMMA SweepFrame ==
    ASSUME Types, NEW s \in Sweeps, Sweep(s)
    PROVE  /\ UNCHANGED <<overdue, ticketPc, ticketAnswer, mine, selected, incidents, rushed,
                          held, unlogged>>
           /\ \A u \in Sweeps \ {s} : /\ at'[u] = at[u] /\ batch'[u] = batch[u]
                                      /\ since'[u] = since[u]
<1> USE DEF Types, rows, handlers, past
<1>1. CASE Tick(s)
  BY <1>1 DEF Tick
<1>2. CASE Stamp(s)
  BY <1>2 DEF Stamp
<1>3. CASE LogBreach(s)
  BY <1>3 DEF LogBreach, NextOfBatch
<1> QED BY <1>1, <1>2, <1>3 DEF Sweep

\* What a stamp makes of a ticket.
LEMMA StampedTicket ==
    ASSUME Types, OneSweep, NEW s \in Sweeps, Stamp(s)
    PROVE  LET t == Head(batch[s])
           IN  /\ t \in Tickets /\ t = batch[s][1] /\ batch[s] # <<>>
               /\ tickets'[t] \in TicketRow \cup {NoTicket} /\ (Gone(t) <=> tickets'[t] = NoTicket)
               /\ ~Gone(t) => /\ tickets'[t].slaBreached
                              /\ tickets'[t].status = tickets[t].status
                              /\ tickets'[t].assignedTo = tickets[t].assignedTo
               /\ \A u \in Tickets \ {t} : tickets'[u] = tickets[u]
               /\ at[s] = "stamp" /\ at' = [at EXCEPT ![s] = "log"]
               /\ UNCHANGED <<history, batch, since, sweeping>>
<1> DEFINE t == Head(batch[s])
<1>1. batch[s] \in Seq(Tickets) /\ batch[s] # <<>> /\ at[s] = "stamp"
  BY DEF Types, OneSweep, Stamp
<1>2. t \in Tickets /\ t = batch[s][1]
  BY <1>1, RestOf
<1>3. /\ tickets' = [tickets EXCEPT ![t] = Stamped(t)] /\ at' = [at EXCEPT ![s] = "log"]
      /\ UNCHANGED <<history, batch, since, sweeping>>
  BY DEF Stamp
<1> HIDE DEF t
<1>4. tickets'[t] = Stamped(t) /\ \A u \in Tickets \ {t} : tickets'[u] = tickets[u]
  BY <1>2, <1>3 DEF Types
<1>5. CASE Gone(t)
  BY <1>1, <1>2, <1>3, <1>4, <1>5 DEF Stamped, t
<1>6. CASE ~Gone(t)
  <2>1. tickets[t] \in TicketRow /\ stamps + 1 \in Nat
    BY <1>2, <1>6 DEF Types, Gone
  <2>2. tickets'[t] = [tickets[t] EXCEPT !.slaBreached = TRUE, !.breachedAt = stamps + 1]
    BY <1>4, <1>6 DEF Stamped, Breached
  <2>3. /\ tickets'[t] \in TicketRow /\ tickets'[t].slaBreached
        /\ tickets'[t].status = tickets[t].status
        /\ tickets'[t].assignedTo = tickets[t].assignedTo
    BY <2>1, <2>2 DEF TicketRow
  <2>4. tickets'[t] # NoTicket
    BY <2>3, TicketsAssumption
  <2> QED BY <1>1, <1>2, <1>3, <1>4, <1>6, <2>3, <2>4 DEF t
<1> QED BY <1>5, <1>6

\* What the event of a breach makes of a history and of the batch.
LEMMA LoggedBreach ==
    ASSUME Types, OneSweep, NEW s \in Sweeps, LogBreach(s)
    PROVE  LET t == Head(batch[s])
           IN  /\ t \in Tickets /\ at[s] = "log" /\ batch[s] \in Seq(Tickets) /\ batch[s] # <<>>
               /\ history'[t] = IF Gone(t) THEN history[t] ELSE Append(history[t], "sla_breached")
               /\ history'[t] \in Seq(TicketEvents)
               /\ \A u \in Tickets \ {t} : history'[u] = history[u]
               /\ DOMAIN history' = Tickets
               /\ batch' = [batch EXCEPT ![s] = Tail(@)]
               /\ at' = [at EXCEPT ![s] = IF batch'[s] = <<>> THEN "idle" ELSE "stamp"]
               /\ since'[s] = IF batch'[s] = <<>> THEN {} ELSE since[s]
               /\ since' \in [Sweeps -> SUBSET Tickets]
               /\ sweeping' = IF batch'[s] = <<>> THEN FALSE ELSE sweeping
               /\ UNCHANGED <<tickets, stamps>>
<1> DEFINE t == Head(batch[s])
<1>1. batch[s] \in Seq(Tickets) /\ batch[s] # <<>> /\ at[s] = "log"
  BY DEF Types, OneSweep, LogBreach
<1>2. t \in Tickets /\ (Len(batch[s]) = 1 <=> Tail(batch[s]) = <<>>)
  BY <1>1, RestOf
<1>3. history[t] \in Seq(TicketEvents) /\ Append(history[t], "sla_breached") \in Seq(TicketEvents)
  <2>1. "sla_breached" \in TicketEvents
    BY DEF TicketEvents
  <2> QED BY <1>2, <2>1, AppendIs DEF Types
<1>4. /\ history' = IF Gone(t) THEN history
                    ELSE [history EXCEPT ![t] = Append(history[t], "sla_breached")]
      /\ NextOfBatch(s) /\ UNCHANGED <<tickets, stamps>>
  BY DEF LogBreach, Record
<1> HIDE DEF t
<1>5. /\ batch' = [batch EXCEPT ![s] = Tail(@)] /\ batch'[s] = Tail(batch[s])
      /\ at' = [at EXCEPT ![s] = IF batch'[s] = <<>> THEN "idle" ELSE "stamp"]
      /\ since'[s] = IF batch'[s] = <<>> THEN {} ELSE since[s]
      /\ since' \in [Sweeps -> SUBSET Tickets]
      /\ sweeping' = IF batch'[s] = <<>> THEN FALSE ELSE sweeping
  <2>1. batch' = [batch EXCEPT ![s] = Tail(@)] /\ batch'[s] = Tail(batch[s])
    BY <1>4 DEF NextOfBatch, Types
  <2>2. CASE Len(batch[s]) = 1
    BY <1>2, <1>4, <2>1, <2>2 DEF NextOfBatch, Types
  <2>3. CASE Len(batch[s]) # 1
    BY <1>2, <1>4, <2>1, <2>3 DEF NextOfBatch, Types
  <2> QED BY <2>2, <2>3
<1>6. /\ history'[t] = IF Gone(t) THEN history[t] ELSE Append(history[t], "sla_breached")
      /\ history'[t] \in Seq(TicketEvents) /\ DOMAIN history' = Tickets
      /\ \A u \in Tickets \ {t} : history'[u] = history[u]
  BY <1>2, <1>3, <1>4 DEF Types
<1> QED BY <1>1, <1>2, <1>4, <1>5, <1>6 DEF t

\* What a handler's read does.
LEMMA ReadEffect ==
    ASSUME Types, NEW r \in TicketRequests, ReadTicket(r)
    PROVE  LET t == req[r].ticket
           IN  /\ ~Creates(r) /\ ticketPc[r] = "idle" /\ UNCHANGED <<tickets, history, selected>>
               /\ \/ /\ ~Gone(t) /\ Refusal(req[r], tickets[t]) = "none"
                     /\ ticketPc'[r] = "saveSelect" /\ mine'[r] = Changed(req[r], tickets[t])
                     /\ ticketAnswer'[r] = ticketAnswer[r]
                  \/ /\ ticketPc'[r] = "done" /\ mine'[r] = mine[r]
                     /\ ticketAnswer'[r] \in {"notFound", "forbidden", "conflict"}
<1> DEFINE t == req[r].ticket
<1>1. \A q, x : Refusal(q, x) \in {"none", "notFound", "forbidden", "conflict"}
  BY DEF Refusal
<1>2. ~Creates(r) /\ ticketPc[r] = "idle" /\ UNCHANGED <<tickets, history, selected>>
  BY DEF ReadTicket, Serve, rows
<1>3. CASE Gone(t)
  <2>1. AnswerWith(r, "notFound") /\ UNCHANGED mine
    BY <1>3 DEF ReadTicket
  <2> QED BY <1>2, <2>1 DEF AnswerWith, MoveTo, Types
<1>4. CASE ~Gone(t) /\ Refusal(req[r], tickets[t]) # "none"
  <2>1. AnswerWith(r, Refusal(req[r], tickets[t])) /\ UNCHANGED mine
    BY <1>4 DEF ReadTicket
  <2> QED BY <1>1, <1>2, <1>4, <2>1 DEF AnswerWith, MoveTo, Types
<1>5. CASE ~Gone(t) /\ Refusal(req[r], tickets[t]) = "none"
  <2>1. /\ mine' = [mine EXCEPT ![r] = Changed(req[r], tickets[t])]
        /\ MoveTo(r, "saveSelect") /\ UNCHANGED ticketAnswer
    BY <1>5 DEF ReadTicket
  <2> QED BY <1>2, <1>5, <2>1 DEF MoveTo, Types
<1> QED BY <1>3, <1>4, <1>5

\* What a save writes.
LEMMA WriteEffect ==
    ASSUME Types, InHandNow, NEW r \in TicketRequests, WriteTicket(r)
    PROVE  LET t == req[r].ticket
               x == tickets'[t]
           IN  /\ t \in Tickets /\ ticketPc[r] = "saveWrite" /\ mine[r] \in TicketRow
               /\ UNCHANGED <<history, mine, selected>>
               /\ x \in TicketRow \cup {NoTicket}
               /\ Gone(t) /\ selected[r] = NoTicket => x = mine[r]
               /\ Gone(t) /\ selected[r] # NoTicket => x = NoTicket
               /\ ~Gone(t) /\ selected[r] = NoTicket => x = tickets[t]
               /\ ~Gone(t) /\ selected[r] # NoTicket =>
                     /\ x \in TicketRow /\ selected[r] \in TicketRow
                     /\ tickets[t] \in TicketRow
                     /\ x.status = IF mine[r].status # selected[r].status
                                   THEN mine[r].status ELSE tickets[t].status
                     /\ x.assignedTo = IF mine[r].assignedTo # selected[r].assignedTo
                                       THEN mine[r].assignedTo ELSE tickets[t].assignedTo
                     /\ x.slaBreached = IF mine[r].slaBreached # selected[r].slaBreached
                                        THEN mine[r].slaBreached ELSE tickets[t].slaBreached
               /\ IF selected[r] = NoTicket /\ ~Gone(t)
                  THEN ticketPc'[r] = "done" /\ ticketAnswer'[r] = "error"
                  ELSE ticketPc'[r] = "log" /\ ticketAnswer'[r] = ticketAnswer[r]
               /\ \A s \in Sweeps :
                     since'[s] = IF at[s] = "idle" THEN {} ELSE since[s] \cup {t}
<1> DEFINE t == req[r].ticket
<1>1. t \in Tickets /\ ticketPc[r] = "saveWrite" /\ mine[r] \in TicketRow
  BY BodyOf DEF InHandNow, Saving, Types, WriteTicket
<1>2. UNCHANGED <<history, mine, selected>>
  BY DEF WriteTicket
<1>3. tickets'[t] = CASE Gone(t) -> IF selected[r] = NoTicket THEN mine[r] ELSE NoTicket
                      [] ~Gone(t) /\ selected[r] = NoTicket -> tickets[t]
                      [] OTHER -> Merged(r, t)
  BY <1>1 DEF WriteTicket, Types
<1>4. tickets[t] \in TicketRow \cup {NoTicket} /\ selected[r] \in TicketRow \cup {NoTicket}
  BY <1>1 DEF Types
<1>5. /\ Gone(t) /\ selected[r] = NoTicket => tickets'[t] = mine[r]
      /\ Gone(t) /\ selected[r] # NoTicket => tickets'[t] = NoTicket
      /\ ~Gone(t) /\ selected[r] = NoTicket => tickets'[t] = tickets[t]
  BY <1>3
<1>6. ASSUME ~Gone(t), selected[r] # NoTicket
      PROVE  /\ tickets'[t] = Saved(tickets[t], selected[r], mine[r])
             /\ tickets[t] \in TicketRow /\ selected[r] \in TicketRow
  BY <1>3, <1>4, <1>6 DEF Merged, Gone
<1>7. IF selected[r] = NoTicket /\ ~Gone(t)
      THEN ticketPc'[r] = "done" /\ ticketAnswer'[r] = "error"
      ELSE ticketPc'[r] = "log" /\ ticketAnswer'[r] = ticketAnswer[r]
  BY DEF WriteTicket, AnswerWith, MoveTo, Types
<1>8. \A s \in Sweeps : since'[s] = IF at[s] = "idle" THEN {} ELSE since[s] \cup {t}
  BY DEF WriteTicket
<1> DEFINE x == tickets'[t]
<1>9. ASSUME ~Gone(t), selected[r] # NoTicket
      PROVE  /\ x \in TicketRow
             /\ x.status = IF mine[r].status # selected[r].status
                           THEN mine[r].status ELSE tickets[t].status
             /\ x.assignedTo = IF mine[r].assignedTo # selected[r].assignedTo
                               THEN mine[r].assignedTo ELSE tickets[t].assignedTo
             /\ x.slaBreached = IF mine[r].slaBreached # selected[r].slaBreached
                                THEN mine[r].slaBreached ELSE tickets[t].slaBreached
  BY <1>1, <1>6, <1>9, SavedTicket
<1>10. x \in TicketRow \cup {NoTicket}
  <2>1. CASE ~Gone(t) /\ selected[r] # NoTicket
    BY <1>9, <2>1
  <2>2. CASE Gone(t) \/ selected[r] = NoTicket
    BY <1>1, <1>4, <1>5, <2>2
  <2> QED BY <2>1, <2>2
<1> HIDE DEF x, t
<1>11. ~Gone(t) /\ selected[r] # NoTicket =>
          /\ x \in TicketRow /\ selected[r] \in TicketRow /\ tickets[t] \in TicketRow
          /\ x.status = IF mine[r].status # selected[r].status
                        THEN mine[r].status ELSE tickets[t].status
          /\ x.assignedTo = IF mine[r].assignedTo # selected[r].assignedTo
                            THEN mine[r].assignedTo ELSE tickets[t].assignedTo
          /\ x.slaBreached = IF mine[r].slaBreached # selected[r].slaBreached
                             THEN mine[r].slaBreached ELSE tickets[t].slaBreached
  BY <1>6, <1>9
<1>12. /\ Gone(t) /\ selected[r] = NoTicket => x = mine[r]
       /\ Gone(t) /\ selected[r] # NoTicket => x = NoTicket
       /\ ~Gone(t) /\ selected[r] = NoTicket => x = tickets[t]
  BY <1>5 DEF x
<1> QED BY <1>1, <1>2, <1>7, <1>8, <1>10, <1>11, <1>12 DEF x, t

\* What logging an event does.
LEMMA LogEffect ==
    ASSUME Types, NEW r \in TicketRequests, LogEvent(r)
    PROVE  LET t == req[r].ticket
               e == IF Creates(r) THEN "created" ELSE Event[req[r].op]
           IN  /\ t \in Tickets /\ ticketPc[r] = "log" /\ ticketPc'[r] = "done"
               /\ UNCHANGED <<tickets, mine, selected, since>>
               /\ e \in TicketEvents /\ e # "sla_breached"
               /\ \A op \in DOMAIN From : e = Event[op] <=> op = req[r].op
               /\ history'[t] \in Seq(TicketEvents) /\ DOMAIN history' = Tickets
               /\ IF Gone(t)
                  THEN ticketAnswer'[r] = "error" /\ history'[t] = history[t]
                  ELSE ticketAnswer'[r] = "ok" /\ history'[t] = Append(history[t], e)
<1> DEFINE t == req[r].ticket
           e == IF Creates(r) THEN "created" ELSE Event[req[r].op]
<1>1. t \in Tickets /\ ticketPc[r] = "log" /\ UNCHANGED <<tickets, mine, selected, since>>
  BY BodyOf DEF LogEvent
<1>2. /\ e \in TicketEvents /\ e # "sla_breached"
      /\ \A op \in DOMAIN From : e = Event[op] <=> op = req[r].op
  <2>1. CASE Creates(r)
    <3>1. e = "created" /\ ~Moving(r)
      BY <2>1, BodyOf
    <3> QED BY <3>1, EventsDiffer DEF Moving, TicketEvents
  <2>2. CASE Moving(r)
    <3>1. e = Event[req[r].op]
      BY <2>2, BodyOf
    <3> QED BY <2>2, <3>1, EventsDiffer DEF Moving
  <2>3. CASE ~Creates(r) /\ ~Moving(r)
    <3>1. e = Event[req[r].op] /\ req[r].op \in {"assign", "claim"}
      BY <2>3, BodyOf
    <3>2. e \in {"assigned", "claimed"}
      BY <3>1, EventsDiffer
    <3> QED BY <2>3, <3>2, EventsDiffer DEF Moving, TicketEvents
  <2> QED BY <2>1, <2>2, <2>3
<1>3. history[t] \in Seq(TicketEvents) /\ Append(history[t], e) \in Seq(TicketEvents)
  BY <1>1, <1>2, AppendIs DEF Types
<1> HIDE DEF e
<1>4. /\ IF Gone(t) THEN AnswerWith(r, "error") /\ UNCHANGED history
         ELSE history' = [history EXCEPT ![t] = Append(@, e)] /\ AnswerWith(r, "ok")
  BY DEF LogEvent, Record, e
<1>5. /\ ticketPc'[r] = "done" /\ ticketAnswer'[r] = IF Gone(t) THEN "error" ELSE "ok"
      /\ history'[t] = IF Gone(t) THEN history[t] ELSE Append(history[t], e)
      /\ DOMAIN history' = Tickets
  BY <1>1, <1>4 DEF AnswerWith, MoveTo, Types
<1> QED BY <1>1, <1>2, <1>3, <1>5 DEF e

\* What creating a ticket does.
LEMMA CreateEffect ==
    ASSUME Types, NEW r \in TicketRequests, Create(r)
    PROVE  /\ Creates(r) /\ ticketPc[r] = "idle" /\ ticketPc'[r] = "log"
           /\ req[r].ticket \in Tickets /\ tickets'[req[r].ticket] = NewRow
           /\ UNCHANGED <<history, ticketAnswer, mine, selected, since>>
<1>1. /\ req[r].ticket \in Tickets /\ tickets' = [tickets EXCEPT ![req[r].ticket] = NewRow]
      /\ Creates(r) /\ ticketPc[r] = "idle" /\ ticketPc' = [ticketPc EXCEPT ![r] = "log"]
      /\ UNCHANGED <<history, ticketAnswer, mine, selected, since>>
  BY BodyOf DEF Create, Serve, MoveTo
<1> QED BY <1>1 DEF Types

\* What save's SELECT does.
LEMMA SelectEffect ==
    ASSUME Types, NEW r \in TicketRequests, SelectTicket(r)
    PROVE  /\ ticketPc[r] = "saveSelect" /\ ticketPc'[r] = "saveWrite"
           /\ selected'[r] = tickets[req[r].ticket]
           /\ UNCHANGED <<tickets, history, ticketAnswer, mine, since, rushed>>
  BY DEF SelectTicket, MoveTo, Types, rows, past

------------------------------------------------------------------------------
(***************************************************************************)
(* Every step keeps each part of the invariant.                            *)
(***************************************************************************)
\* The steps a lemma below has to look at.
LEMMA StepCases ==
    ASSUME [TicketsNext]_ticketVars
    PROVE  \/ \E r \in TicketRequests : Create(r) \/ ReadTicket(r) \/ SelectTicket(r)
                                        \/ WriteTicket(r) \/ LogEvent(r)
           \/ \E s \in Sweeps : Tick(s) \/ Stamp(s) \/ LogBreach(s)
           \/ \E t \in Tickets : PassDeadline(t)
           \/ Reset
           \/ Restart
           \/ UNCHANGED ticketVars
  BY DEF TicketsNext, Receive, GoOn, Sweep

LEMMA TypesKept ==
    ASSUME TicketInv, [TicketsNext]_ticketVars
    PROVE  Types'
<1> USE DEF TicketInv
<1>1. ASSUME NEW r \in TicketRequests, Handling(r), UNCHANGED <<overdue, stamps, batch, at>>,
             tickets' \in [Tickets -> TicketRow \cup {NoTicket}],
             history' \in [Tickets -> Seq(TicketEvents)],
             ticketPc' \in [TicketRequests -> TicketStages],
             ticketAnswer' \in [TicketRequests -> TicketAnswers],
             mine' \in [TicketRequests -> TicketRow \cup {NoTicket}],
             selected' \in [TicketRequests -> TicketRow \cup {NoTicket}],
             since' \in [Sweeps -> SUBSET Tickets]
      PROVE  Types'
  BY <1>1 DEF Types
<1>2. ASSUME NEW r \in TicketRequests, Create(r) PROVE Types'
  <2>1. tickets' = [tickets EXCEPT ![req[r].ticket] = NewRow]
    BY <1>2 DEF Create
  <2>2. tickets' \in [Tickets -> TicketRow \cup {NoTicket}]
    BY <2>1, NewRowIsOne DEF Types
  <2> QED BY <1>2, <2>2 DEF Create, MoveTo, TicketStages, Types, sweeper
<1>3. ASSUME NEW r \in TicketRequests, ReadTicket(r) PROVE Types'
  <2> DEFINE t == req[r].ticket
  <2>1. UNCHANGED <<rows, overdue, stamps, selected, sweeper, since>>
    BY <1>3 DEF ReadTicket
  <2>2. CASE Gone(t)
    <3>1. AnswerWith(r, "notFound") /\ UNCHANGED mine
      BY <1>3, <2>2 DEF ReadTicket
    <3> QED BY <2>1, <3>1 DEF AnswerWith, MoveTo, Types, TicketStages, TicketAnswers, rows, sweeper
  <2>3. CASE ~Gone(t) /\ Refusal(req[r], tickets[t]) # "none"
    <3>1. AnswerWith(r, Refusal(req[r], tickets[t])) /\ UNCHANGED mine
      BY <1>3, <2>3 DEF ReadTicket
    <3>2. Refusal(req[r], tickets[t]) \in TicketAnswers
      BY DEF Refusal, TicketAnswers
    <3> QED BY <2>1, <3>1, <3>2 DEF AnswerWith, MoveTo, Types, TicketStages, rows, sweeper
  <2>4. CASE ~Gone(t) /\ Refusal(req[r], tickets[t]) = "none"
    <3>1. /\ mine' = [mine EXCEPT ![r] = Changed(req[r], tickets[t])]
          /\ MoveTo(r, "saveSelect") /\ UNCHANGED ticketAnswer
      BY <1>3, <2>4 DEF ReadTicket
    <3>2. tickets[t] \in TicketRow /\ ~Creates(r)
      BY <1>3, <2>4, BodyOf DEF ReadTicket, Gone, Types
    <3>3. Changed(req[r], tickets[t]) \in TicketRow
      BY <3>2, ChangedTicket
    <3> QED BY <2>1, <3>1, <3>3 DEF MoveTo, Types, TicketStages, rows, sweeper
  <2> QED BY <2>2, <2>3, <2>4
<1>4. ASSUME NEW r \in TicketRequests, SelectTicket(r) PROVE Types'
  <2>1. tickets[req[r].ticket] \in TicketRow \cup {NoTicket}
    BY BodyOf DEF Types
  <2> QED BY <1>4, <2>1 DEF SelectTicket, MoveTo, TicketStages, Types, rows, sweeper
<1>5. ASSUME NEW r \in TicketRequests, WriteTicket(r) PROVE Types'
  <2> DEFINE t == req[r].ticket
  <2>1. t \in Tickets /\ tickets'[t] \in TicketRow \cup {NoTicket}
    BY <1>5, WriteEffect
  <2>2. tickets' \in [Tickets -> TicketRow \cup {NoTicket}]
    BY <1>5, <2>1 DEF WriteTicket, Types
  <2>3. since' \in [Sweeps -> SUBSET Tickets]
    BY <1>5, <2>1 DEF WriteTicket, Types
  <2>4. /\ ticketPc' \in [TicketRequests -> TicketStages]
        /\ ticketAnswer' \in [TicketRequests -> TicketAnswers]
    BY <1>5 DEF WriteTicket, AnswerWith, MoveTo, Types, TicketStages, TicketAnswers
  <2> QED BY <1>5, <2>2, <2>3, <2>4 DEF WriteTicket, Types, sweeper
<1>6. ASSUME NEW r \in TicketRequests, LogEvent(r) PROVE Types'
  <2> DEFINE t == req[r].ticket
  <2>1. t \in Tickets /\ history'[t] \in Seq(TicketEvents) /\ DOMAIN history' = Tickets
    BY <1>6, LogEffect
  <2>2. history' \in [Tickets -> Seq(TicketEvents)]
    <3>1. \/ UNCHANGED history
          \/ \E e : history' = [history EXCEPT ![t] = e]
      BY <1>6 DEF LogEvent, Record
    <3> QED BY <2>1, <3>1 DEF Types
  <2>3. /\ ticketPc' \in [TicketRequests -> TicketStages]
        /\ ticketAnswer' \in [TicketRequests -> TicketAnswers]
    BY <1>6 DEF LogEvent, AnswerWith, MoveTo, Types, TicketStages, TicketAnswers
  <2> QED BY <1>6, <2>2, <2>3 DEF LogEvent, Types, sweeper
<1>7. ASSUME NEW s \in Sweeps, Tick(s) PROVE Types'
  <2>1. PICK list \in Overdue : list # <<>> /\ batch' = [batch EXCEPT ![s] = FirstBatch(list)]
    BY <1>7 DEF Tick
  <2>2. FirstBatch(list) \in Seq(Tickets)
    BY <2>1, BatchOf
  <2> QED BY <1>7, <2>1, <2>2 DEF Tick, Types, rows, handlers
<1>8. ASSUME NEW s \in Sweeps, Stamp(s) PROVE Types'
  <2> DEFINE t == Head(batch[s])
  <2>1. t \in Tickets /\ tickets'[t] \in TicketRow \cup {NoTicket}
    BY <1>8, StampedTicket
  <2>2. tickets' \in [Tickets -> TicketRow \cup {NoTicket}]
    BY <1>8, <2>1 DEF Stamp, Types
  <2> QED BY <1>8, <2>2 DEF Stamp, Types, handlers
<1>9. ASSUME NEW s \in Sweeps, LogBreach(s) PROVE Types'
  <2> DEFINE t == Head(batch[s])
  <2>1. /\ t \in Tickets /\ history'[t] \in Seq(TicketEvents)
        /\ batch[s] \in Seq(Tickets) /\ batch[s] # <<>>
        /\ batch' = [batch EXCEPT ![s] = Tail(@)]
        /\ at' = [at EXCEPT ![s] = IF batch'[s] = <<>> THEN "idle" ELSE "stamp"]
        /\ since' \in [Sweeps -> SUBSET Tickets]
    BY <1>9, LoggedBreach
  <2>2. history' \in [Tickets -> Seq(TicketEvents)]
    <3>1. \/ UNCHANGED history
          \/ \E e : history' = [history EXCEPT ![t] = e]
      BY <1>9 DEF LogBreach, Record
    <3> QED BY <2>1, <3>1 DEF Types
  <2>3. Tail(batch[s]) \in Seq(Tickets)
    BY <2>1, RestOf
  <2> QED BY <1>9, <2>1, <2>2, <2>3 DEF LogBreach, Types, handlers
<1>10. ASSUME NEW t \in Tickets, PassDeadline(t) PROVE Types'
  BY <1>10 DEF PassDeadline, Types, rows, handlers, sweeper
<1>11. ASSUME Reset PROVE Types'
  <2>1. history' \in [Tickets -> Seq(TicketEvents)]
    BY <1>11, EmptyHistory DEF Reset
  <2> QED BY <1>11, <2>1 DEF Reset, Types, handlers, sweeper
<1>12. ASSUME Restart PROVE Types'
  <2>1. batch' \in [Sweeps -> Seq(Tickets)]
    BY <1>12, EmptySeq DEF Restart
  <2> QED BY <1>12, <2>1 DEF Restart, Types, TicketStages, rows
<1>13. ASSUME UNCHANGED ticketVars PROVE Types'
  BY <1>13 DEF ticketVars, Types, rows, handlers, sweeper
<1> QED
  BY <1>2, <1>3, <1>4, <1>5, <1>6, <1>7, <1>8, <1>9, <1>10, <1>11, <1>12, <1>13, StepCases

\* One sweep runs, and has work left.
LEMMA OneSweepKept ==
    ASSUME TicketInv, [TicketsNext]_ticketVars
    PROVE  OneSweep'
<1> USE DEF TicketInv
<1>1. ASSUME UNCHANGED <<at, batch, sweeping>> PROVE OneSweep'
  BY <1>1 DEF OneSweep
<1>2. ASSUME NEW r \in TicketRequests, Handling(r) PROVE OneSweep'
  BY <1>1, <1>2, TicketHandlerFrame
<1>3. ASSUME NEW s \in Sweeps, Tick(s) PROVE OneSweep'
  <2>1. PICK list \in Overdue : list # <<>> /\ batch' = [batch EXCEPT ![s] = FirstBatch(list)]
    BY <1>3 DEF Tick
  <2>2. FirstBatch(list) # <<>>
    BY <2>1, BatchOf
  <2>3. \A u \in Sweeps : at[u] = "idle" /\ batch[u] = <<>>
    BY <1>3 DEF Tick, MayTick, OneSweep
  <2> QED BY <1>3, <2>1, <2>2, <2>3 DEF Tick, Types, OneSweep
<1>4. ASSUME NEW s \in Sweeps, Stamp(s) PROVE OneSweep'
  BY <1>4 DEF Stamp, OneSweep, Types
<1>5. ASSUME NEW s \in Sweeps, LogBreach(s) PROVE OneSweep'
  <2>1. /\ at[s] = "log" /\ batch' = [batch EXCEPT ![s] = Tail(@)]
        /\ at' = [at EXCEPT ![s] = IF batch'[s] = <<>> THEN "idle" ELSE "stamp"]
        /\ sweeping' = IF batch'[s] = <<>> THEN FALSE ELSE sweeping
    BY <1>5, LoggedBreach
  <2>2. \A u \in Sweeps \ {s} : at[u] = "idle" /\ at'[u] = "idle" /\ batch'[u] = <<>>
    <3>1. ASSUME NEW u \in Sweeps \ {s} PROVE at[u] = "idle" /\ batch[u] = <<>>
      BY <2>1 DEF OneSweep
    <3>2. ASSUME NEW u \in Sweeps \ {s} PROVE at'[u] = at[u] /\ batch'[u] = batch[u]
      BY <2>1 DEF Types
    <3> QED BY <3>1, <3>2
  <2>3. sweeping = TRUE /\ at'[s] = IF batch'[s] = <<>> THEN "idle" ELSE "stamp"
    <3>1. sweeping = (\E u \in Sweeps : at[u] # "idle") /\ at[s] # "idle"
      BY <2>1 DEF OneSweep
    <3>2. at'[s] = IF batch'[s] = <<>> THEN "idle" ELSE "stamp"
      BY <2>1 DEF Types
    <3> QED BY <3>1, <3>2
  <2>4. \A u \in Sweeps : (at'[u] = "idle") = (batch'[u] = <<>>)
    BY <2>2, <2>3
  <2>5. sweeping' = (at'[s] # "idle")
    <3>1. CASE batch'[s] = <<>>
      BY <2>1, <2>3, <3>1
    <3>2. CASE batch'[s] # <<>>
      <4>1. sweeping' = sweeping /\ at'[s] = "stamp"
        BY <2>1, <2>3, <3>2
      <4>2. at'[s] # "idle"
        BY <4>1
      <4> QED BY <2>3, <4>1, <4>2
    <3> QED BY <3>1, <3>2
  <2>6. (at'[s] # "idle") = \E u \in Sweeps : at'[u] # "idle"
    BY <2>2
  <2>7. \A u, v \in Sweeps : at'[u] # "idle" /\ at'[v] # "idle" => u = v
    BY <2>2
  <2> QED BY <2>4, <2>5, <2>6, <2>7 DEF OneSweep
<1>6. ASSUME NEW t \in Tickets, PassDeadline(t) PROVE OneSweep'
  BY <1>1, <1>6 DEF PassDeadline, sweeper
<1>7. ASSUME Reset PROVE OneSweep'
  BY <1>1, <1>7 DEF Reset, sweeper
<1>8. ASSUME Restart PROVE OneSweep'
  BY <1>8 DEF Restart, OneSweep
<1>9. ASSUME UNCHANGED ticketVars PROVE OneSweep'
  BY <1>1, <1>9 DEF ticketVars, sweeper
<1> QED
  BY <1>2, <1>3, <1>4, <1>5, <1>6, <1>7, <1>8, <1>9 DEF TicketsNext, Handling, Sweep

\* A deadline passing, and nothing happening, change nothing these parts speak of.
Quiet == UNCHANGED <<tickets, history, stamps, ticketPc, ticketAnswer, mine, selected, sweeping,
                     batch, at, rushed, held, unlogged, since>>

LEMMA QuietSteps ==
    ASSUME (\E t \in Tickets : PassDeadline(t)) \/ UNCHANGED ticketVars
    PROVE  Quiet
  BY DEF PassDeadline, ticketVars, Quiet, rows, handlers, sweeper, past

\* The kinds of steps the lemmas below distinguish.
LEMMA Steps ==
    ASSUME [TicketsNext]_ticketVars
    PROVE  \/ \E r \in TicketRequests : Handling(r)
           \/ \E s \in Sweeps : Sweep(s)
           \/ Reset
           \/ Restart
           \/ Quiet
  BY QuietSteps DEF TicketsNext, Handling

LEMMA ResetEffect ==
    ASSUME Reset
    PROVE  /\ \A t \in Tickets : tickets'[t] = NoTicket /\ history'[t] = <<>>
           /\ \A t \in Tickets : t \notin held' => t \notin held /\ InProgress(t) = {}
           /\ \A r \in TicketRequests : req[r].ticket \notin held' => ~UnderWay(r)
           /\ UNCHANGED <<ticketPc, ticketAnswer, mine, selected, sweeping, batch, at, rushed,
                          unlogged, since>>
<1>1. \A t \in Tickets : t \notin held' => t \notin held /\ InProgress(t) = {}
  BY DEF Reset
<1>2. \A r \in TicketRequests : req[r].ticket \notin held' => ~UnderWay(r)
  BY <1>1, BodyOf DEF InProgress, UnderWay
<1> QED BY <1>1, <1>2 DEF Reset, handlers, sweeper

LEMMA RestartEffect ==
    ASSUME Types, OneSweep, Restart
    PROVE  /\ \A r \in TicketRequests :
                 /\ ticketPc'[r] = IF ticketPc[r] = "idle" THEN "idle" ELSE "done"
                 /\ ticketPc[r] = "log" => req[r].ticket \in unlogged'
           /\ \A s \in Sweeps : /\ at'[s] = "idle" /\ batch'[s] = <<>>
                                /\ at[s] = "log" => Head(batch[s]) \in unlogged'
           /\ unlogged \subseteq unlogged'
           /\ UNCHANGED <<tickets, history, ticketAnswer, mine, selected, rushed, held>>
  BY DEF Restart, rows

LEMMA InHandKept ==
    ASSUME TicketInv, [TicketsNext]_ticketVars
    PROVE  InHandNow'
<1> USE DEF TicketInv, InHandNow, Saving
<1>1. ASSUME NEW r \in TicketRequests, Handling(r) PROVE InHandNow'
  <2>1. \A q \in TicketRequests \ {r} : ticketPc'[q] = ticketPc[q] /\ mine'[q] = mine[q]
    BY <1>1, TicketHandlerFrame
  <2> SUFFICES ticketPc'[r] \in {"saveSelect", "saveWrite"} => ~Creates(r) /\ mine'[r] # NoTicket
    BY <2>1
  <2>2. CASE Create(r)
    BY <2>2, CreateEffect
  <2>3. CASE ReadTicket(r)
    <3>1. ASSUME ~Gone(req[r].ticket), mine'[r] = Changed(req[r], tickets[req[r].ticket])
          PROVE  mine'[r] # NoTicket
      <4>1. tickets[req[r].ticket] \in TicketRow /\ ~Creates(r)
        BY <2>3, <3>1, BodyOf, ReadEffect DEF Types, Gone
      <4> QED BY <3>1, <4>1, ChangedTicket, TicketsAssumption
    <3> QED BY <2>3, <3>1, ReadEffect
  <2>4. CASE SelectTicket(r)
    BY <2>4, SelectEffect
  <2>5. CASE WriteTicket(r)
    BY <2>5, WriteEffect
  <2>6. CASE LogEvent(r)
    BY <2>6, LogEffect
  <2> QED BY <1>1, <2>2, <2>3, <2>4, <2>5, <2>6 DEF Handling, Receive, GoOn
<1>2. ASSUME NEW s \in Sweeps, Sweep(s) PROVE InHandNow'
  BY <1>2, SweepFrame
<1>3. ASSUME Reset PROVE InHandNow'
  BY <1>3, ResetEffect
<1>4. ASSUME Restart PROVE InHandNow'
  BY <1>4, RestartEffect
<1>5. ASSUME Quiet PROVE InHandNow'
  BY <1>5 DEF Quiet
<1> QED BY <1>1, <1>2, <1>3, <1>4, <1>5, Steps

\* A sweep makes no ticket and deletes none.
LEMMA SweepRows ==
    ASSUME Types, OneSweep, NEW s \in Sweeps, Sweep(s), NEW t \in Tickets
    PROVE  /\ Gone(t) <=> tickets'[t] = NoTicket
           /\ tickets'[t] \in TicketRow \cup {NoTicket}
           /\ ~Gone(t) => /\ tickets'[t].status = tickets[t].status
                          /\ tickets'[t].assignedTo = tickets[t].assignedTo
                          /\ tickets[t].slaBreached => tickets'[t].slaBreached
           /\ tickets'[t] # tickets[t] => at[s] = "stamp" /\ t = Head(batch[s]) /\ at'[s] = "log"
<1>1. tickets[t] \in TicketRow \cup {NoTicket}
  BY DEF Types
<1>2. CASE Tick(s)
  BY <1>1, <1>2 DEF Tick, rows, Gone
<1>3. CASE Stamp(s)
  <2>1. CASE t = Head(batch[s])
    BY <1>3, <2>1, StampedTicket DEF Types
  <2>2. CASE t # Head(batch[s])
    <3>1. tickets'[t] = tickets[t]
      BY <1>3, <2>2, StampedTicket
    <3> QED BY <1>1, <3>1 DEF Gone
  <2> QED BY <2>1, <2>2
<1>4. CASE LogBreach(s)
  BY <1>1, <1>4 DEF LogBreach, Gone
<1> QED BY <1>2, <1>3, <1>4 DEF Sweep

LEMMA ThereKept ==
    ASSUME TicketInv, [TicketsNext]_ticketVars
    PROVE  ThereUnlessReset'
<1> USE DEF TicketInv, UnderWay, Gone
<1>1. ASSUME NEW r \in TicketRequests, Handling(r) PROVE ThereUnlessReset'
  <2> DEFINE t == req[r].ticket
  <2>1. /\ \A q \in TicketRequests \ {r} :
              ticketPc'[q] = ticketPc[q] /\ selected'[q] = selected[q]
        /\ \A u \in Tickets \ {t} : tickets'[u] = tickets[u]
        /\ held' = held /\ t \in Tickets
    BY <1>1, TicketHandlerFrame, BodyOf
  <2> SUFFICES /\ t \notin held /\ tickets[t] # NoTicket => tickets'[t] # NoTicket
               /\ ticketPc'[r] \notin {"idle", "done"} /\ t \notin held =>
                     /\ tickets'[t] # NoTicket
                     /\ ticketPc'[r] = "saveWrite" => selected'[r] # NoTicket
    <3> SUFFICES ASSUME NEW q \in TicketRequests, ticketPc'[q] \notin {"idle", "done"},
                        req[q].ticket \notin held
                 PROVE  /\ tickets'[req[q].ticket] # NoTicket
                        /\ ticketPc'[q] = "saveWrite" => selected'[q] # NoTicket
      BY <2>1 DEF ThereUnlessReset
    <3>1. CASE q = r
      BY <3>1
    <3>2. CASE q # r
      <4>1. /\ tickets[req[q].ticket] # NoTicket
            /\ ticketPc'[q] = "saveWrite" => selected'[q] # NoTicket
        BY <2>1, <3>2 DEF ThereUnlessReset
      <4>2. CASE req[q].ticket = t
        BY <4>1, <4>2
      <4>3. CASE req[q].ticket # t
        BY <2>1, <4>1, <4>3, BodyOf
      <4> QED BY <4>1, <4>2, <4>3
    <3> QED BY <3>1, <3>2
  <2>2. CASE Create(r)
    BY <2>2, CreateEffect, NewRowIsOne
  <2>3. CASE ReadTicket(r)
    BY <2>3, ReadEffect
  <2>4. CASE SelectTicket(r)
    BY <2>4, SelectEffect DEF ThereUnlessReset
  <2>5. CASE WriteTicket(r)
    <3>1. t \notin held => tickets[t] # NoTicket /\ selected[r] # NoTicket
      BY <2>5, WriteEffect DEF ThereUnlessReset
    <3>2. t \notin held => tickets'[t] \in TicketRow
      BY <2>5, <3>1, WriteEffect
    <3> QED BY <2>5, <3>2, WriteEffect, TicketsAssumption
  <2>6. CASE LogEvent(r)
    BY <2>6, LogEffect
  <2> QED BY <1>1, <2>2, <2>3, <2>4, <2>5, <2>6 DEF Handling, Receive, GoOn
<1>2. ASSUME NEW s \in Sweeps, Sweep(s) PROVE ThereUnlessReset'
  BY <1>2, SweepFrame, SweepRows, BodyOf DEF ThereUnlessReset
<1>3. ASSUME Reset PROVE ThereUnlessReset'
  BY <1>3, ResetEffect DEF ThereUnlessReset
<1>4. ASSUME Restart PROVE ThereUnlessReset'
  BY <1>4, RestartEffect DEF ThereUnlessReset
<1>5. ASSUME Quiet PROVE ThereUnlessReset'
  BY <1>5 DEF Quiet, ThereUnlessReset
<1> QED BY <1>1, <1>2, <1>3, <1>4, <1>5, Steps

LEMMA UnbornKept ==
    ASSUME TicketInv, [TicketsNext]_ticketVars
    PROVE  Unborn'
<1> USE DEF TicketInv
<1> SUFFICES ASSUME NEW r \in TicketRequests, Creates(r), ticketPc'[r] = "idle"
             PROVE  /\ tickets'[req[r].ticket] = NoTicket /\ history'[req[r].ticket] = <<>>
                    /\ \A q \in TicketRequests : For(q, req[r].ticket) =>
                          ticketPc'[q] \in {"idle", "done"} /\ ticketAnswer'[q] # "ok"
                    /\ \A s \in Sweeps : \A i \in DOMAIN batch'[s] : batch'[s][i] # req[r].ticket
  BY DEF Unborn, UnderWay, Gone
<1> DEFINE t == req[r].ticket
<1>1. t \in Tickets
  BY BodyOf
<1>2. ticketPc[r] = "idle"
  BY <1>1, Steps, TicketHandlerFrame, SweepFrame, ResetEffect, RestartEffect DEF Quiet
<1>3. /\ Gone(t) /\ history[t] = <<>>
      /\ \A q \in TicketRequests : For(q, t) =>
            ticketPc[q] \in {"idle", "done"} /\ ticketAnswer[q] # "ok"
      /\ \A s \in Sweeps : \A i \in DOMAIN batch[s] : batch[s][i] # t
  BY <1>2 DEF Unborn, UnderWay
<1>4. ASSUME NEW q \in TicketRequests, Handling(q)
      PROVE  /\ tickets'[t] = NoTicket /\ history'[t] = <<>>
             /\ For(q, t) => ticketPc'[q] \in {"idle", "done"} /\ ticketAnswer'[q] # "ok"
  <2>1. CASE req[q].ticket # t
    BY <1>1, <1>3, <1>4, <2>1, TicketHandlerFrame DEF For, Gone
  <2>2. CASE req[q].ticket = t
    <3>1. ticketPc[q] \in {"idle", "done"} /\ q # r
      BY <1>2, <1>3, <1>4, <2>2, TicketHandlerFrame DEF For
    <3>2. ~Creates(q)
      BY <2>2, <3>1, BodyOf DEF For
    <3>3. ReadTicket(q)
      BY <1>4, <3>1, <3>2, CreateEffect, SelectEffect, WriteEffect, LogEffect
         DEF Handling, Receive, GoOn
    <3> QED BY <1>3, <2>2, <3>3, ReadEffect DEF Gone
  <2> QED BY <2>1, <2>2
<1>5. CASE \E q \in TicketRequests : Handling(q)
  BY <1>3, <1>4, <1>5, TicketHandlerFrame
<1>6. ASSUME NEW s \in Sweeps, Sweep(s)
      PROVE  /\ tickets'[t] = NoTicket /\ history'[t] = <<>>
             /\ \A i \in DOMAIN batch'[s] : batch'[s][i] # t
  <2>1. tickets'[t] = NoTicket
    BY <1>1, <1>3, <1>6, SweepRows
  <2>2. CASE Tick(s)
    <3>1. PICK list \in Overdue : list # <<>> /\ batch' = [batch EXCEPT ![s] = FirstBatch(list)]
      BY <2>2 DEF Tick
    <3>2. batch'[s] = FirstBatch(list) /\ \A i \in DOMAIN FirstBatch(list) : Matches(FirstBatch(list)[i])
      BY <3>1, BatchOf DEF Types
    <3>3. ~Matches(t)
      BY <1>3 DEF Matches
    <3> QED BY <1>3, <2>1, <2>2, <3>2, <3>3 DEF Tick, rows
  <2>3. CASE Stamp(s)
    BY <1>3, <2>1, <2>3 DEF Stamp
  <2>4. CASE LogBreach(s)
    <3>1. batch'[s] = Tail(batch[s]) /\ batch[s] \in Seq(Tickets) /\ batch[s] # <<>>
      BY <2>4, LoggedBreach DEF Types
    <3>2. \A i \in DOMAIN Tail(batch[s]) : Tail(batch[s])[i] # t
      BY <1>3, <3>1, RestOf
    <3>3. Head(batch[s]) # t
      BY <1>3, <3>1, RestOf
    <3>4. history'[t] = history[t]
      <4>1. \A u \in Tickets \ {Head(batch[s])} : history'[u] = history[u]
        BY <2>4, LoggedBreach
      <4> QED BY <1>1, <3>3, <4>1
    <3>5. batch'[s] = Tail(batch[s])
      BY <3>1
    <3> QED BY <1>3, <2>1, <3>2, <3>4, <3>5
  <2> QED BY <1>6, <2>2, <2>3, <2>4 DEF Sweep
<1>7. CASE \E s \in Sweeps : Sweep(s)
  BY <1>3, <1>6, <1>7, SweepFrame
<1>8. CASE Reset
  BY <1>1, <1>3, <1>8, ResetEffect
<1>9. CASE Restart
  <2>1. \A s \in Sweeps : DOMAIN batch'[s] = {}
    BY <1>9, RestartEffect
  <2> QED BY <1>1, <1>3, <1>9, <2>1, RestartEffect DEF Gone
<1>10. CASE Quiet
  BY <1>3, <1>10 DEF Quiet, Gone
<1> QED BY <1>5, <1>7, <1>8, <1>9, <1>10, Steps

LEMMA SoleKept ==
    ASSUME TicketInv, [TicketsNext]_ticketVars
    PROVE  Sole'
<1> USE DEF TicketInv, Sole, UnderWay
<1>1. ASSUME NEW r \in TicketRequests, Handling(r) PROVE Sole'
  <2> DEFINE t == req[r].ticket
  <2>1. /\ \A q \in TicketRequests \ {r} : ticketPc'[q] = ticketPc[q]
        /\ rushed \subseteq rushed' /\ ticketPc[r] # "done"
        /\ ticketPc[r] = "idle" => InProgress(t) = {} \/ t \in rushed'
    BY <1>1, TicketHandlerFrame
  <2>2. ASSUME NEW q \in TicketRequests \ {r}, req[q].ticket = t,
               ticketPc[q] \notin {"idle", "done"}, ticketPc'[r] \notin {"idle", "done"}
        PROVE  t \in rushed'
    <3>1. CASE ticketPc[r] = "idle"
      BY <2>1, <2>2, <3>1 DEF InProgress
    <3>2. CASE ticketPc[r] # "idle"
      BY <2>1, <2>2, <3>2
    <3> QED BY <3>1, <3>2
  <2> QED BY <2>1, <2>2
<1>2. ASSUME NEW s \in Sweeps, Sweep(s) PROVE Sole'
  BY <1>2, SweepFrame
<1>3. ASSUME Reset PROVE Sole'
  BY <1>3, ResetEffect
<1>4. ASSUME Restart PROVE Sole'
  BY <1>4, RestartEffect
<1>5. ASSUME Quiet PROVE Sole'
  BY <1>5 DEF Quiet
<1> QED BY <1>1, <1>2, <1>3, <1>4, <1>5, Steps

\* Freshness of one ticket of one batch.
Fresh(s, t) ==
    \/ Gone(t) \/ t \in since[s]
    \/ ~tickets[t].slaBreached /\ tickets[t].status \in {"open", "in_progress"}

FreshNext(s, t) ==
    \/ tickets'[t] = NoTicket \/ t \in since'[s]
    \/ ~tickets'[t].slaBreached /\ tickets'[t].status \in {"open", "in_progress"}

LEMMA FreshKept ==
    ASSUME TicketInv, [TicketsNext]_ticketVars
    PROVE  BatchIsFresh'
<1> USE DEF TicketInv
<1>0. \A s \in Sweeps :
          /\ \A i, j \in DOMAIN batch[s] : i # j => batch[s][i] # batch[s][j]
          /\ \A i \in DOMAIN batch[s] : batch[s][i] \in Tickets
          /\ \A i \in DOMAIN batch[s] : (at[s] = "log" => i > 1) => Fresh(s, batch[s][i])
          /\ batch[s] # <<>> => at[s] # "idle"
  <2>1. \A s \in Sweeps : \A i \in DOMAIN batch[s] : batch[s][i] \in Tickets
    BY ElementOfSeq, LenProperties DEF Types
  <2> QED BY <2>1 DEF BatchIsFresh, Fresh, OneSweep
<1>1. ASSUME \A s \in Sweeps :
                /\ \A i, j \in DOMAIN batch'[s] : i # j => batch'[s][i] # batch'[s][j]
                /\ \A i \in DOMAIN batch'[s] :
                      (at'[s] = "log" => i > 1) => FreshNext(s, batch'[s][i])
      PROVE  BatchIsFresh'
  BY <1>1 DEF BatchIsFresh, FreshNext, Gone
<1>2. ASSUME NEW r \in TicketRequests, Handling(r) PROVE BatchIsFresh'
  <2> DEFINE t == req[r].ticket
  <2>1. at' = at /\ batch' = batch /\ \A u \in Tickets \ {t} : tickets'[u] = tickets[u]
    BY <1>2, TicketHandlerFrame
  <2>2. ASSUME NEW s \in Sweeps, NEW i \in DOMAIN batch[s], Fresh(s, batch[s][i])
        PROVE  FreshNext(s, batch[s][i])
    <3> DEFINE u == batch[s][i]
    <3>1. u \in Tickets /\ at[s] # "idle"
      <4>1. batch[s] # <<>>
        OBVIOUS
      <4> QED BY <1>0, <4>1
    <3>2. CASE Create(r)
      <4>1. u # t
        BY <3>2, CreateEffect DEF Unborn
      <4>2. since' = since
        BY <3>2, CreateEffect
      <4> QED BY <2>1, <2>2, <3>1, <4>1, <4>2 DEF Fresh, FreshNext, Gone
    <3>3. CASE WriteTicket(r)
      <4>1. since'[s] = since[s] \cup {t}
        BY <3>1, <3>3, WriteEffect
      <4> QED BY <2>1, <2>2, <3>1, <4>1 DEF Fresh, FreshNext, Gone
    <3>4. CASE ReadTicket(r) \/ SelectTicket(r) \/ LogEvent(r)
      <4>1. UNCHANGED <<tickets, since>>
        BY <3>4 DEF ReadTicket, SelectTicket, LogEvent, rows
      <4> QED BY <2>2, <2>1, <4>1 DEF Fresh, FreshNext, Gone
    <3> QED BY <1>2, <3>2, <3>3, <3>4 DEF Handling, Receive, GoOn
  <2> QED BY <1>0, <1>1, <2>1, <2>2
<1>3. ASSUME NEW s \in Sweeps, Sweep(s) PROVE BatchIsFresh'
  <2>1. \A u \in Sweeps \ {s} : at'[u] = at[u] /\ batch'[u] = batch[u] /\ since'[u] = since[u]
    BY <1>3, SweepFrame
  <2>2. CASE Tick(s)
    <3>1. PICK list \in Overdue : list # <<>> /\ batch' = [batch EXCEPT ![s] = FirstBatch(list)]
      BY <2>2 DEF Tick
    <3> DEFINE b == FirstBatch(list)
    <3>2. /\ \A i, j \in DOMAIN b : i # j => b[i] # b[j]
          /\ \A i \in DOMAIN b : Matches(b[i])
      BY <3>1, BatchOf
    <3>3. batch'[s] = b /\ tickets' = tickets /\ since' = since
      BY <2>2, <3>1 DEF Types, Tick, rows
    <3> HIDE DEF b
    <3>4. \A u \in Tickets, q \in Sweeps : Fresh(q, u) => FreshNext(q, u)
      BY <3>3 DEF Fresh, FreshNext, Gone
    <3>5. \A i \in DOMAIN b : FreshNext(s, b[i])
      BY <3>2, <3>3 DEF Fresh, FreshNext, Gone, Matches
    <3>6. \A q \in Sweeps \ {s} : \A i \in DOMAIN batch[q] :
              (at[q] = "log" => i > 1) => FreshNext(q, batch[q][i])
      BY <1>0, <3>4
    <3> QED BY <1>0, <1>1, <2>1, <3>2, <3>3, <3>5, <3>6
  <2>3. CASE Stamp(s)
    <3> DEFINE t == Head(batch[s])
    <3>1. /\ t = batch[s][1] /\ batch[s] # <<>> /\ at[s] = "stamp" /\ at' = [at EXCEPT ![s] = "log"]
          /\ \A u \in Tickets \ {t} : tickets'[u] = tickets[u]
          /\ batch' = batch /\ since' = since
      BY <2>3, StampedTicket
    <3>2. batch[s] \in Seq(Tickets) /\ 1 \in DOMAIN batch[s] /\ at'[s] = "log"
      BY <3>1, RestOf DEF Types
    <3>3. \A u \in Sweeps \ {s} : batch[u] = <<>> /\ DOMAIN batch[u] = {}
      BY <3>1 DEF OneSweep
    <3>4. ASSUME NEW i \in DOMAIN batch[s], i > 1 PROVE FreshNext(s, batch[s][i])
      <4>1. i # 1
        BY <3>4, <3>2, LenProperties
      <4>2. batch[s][i] # t /\ batch[s][i] \in Tickets /\ Fresh(s, batch[s][i])
        BY <1>0, <3>1, <3>2, <4>1
      <4> QED BY <3>1, <4>2 DEF Fresh, FreshNext, Gone
    <3> QED BY <1>0, <1>1, <3>1, <3>2, <3>3, <3>4
  <2>4. CASE LogBreach(s)
    <3>1. /\ at[s] = "log" /\ batch[s] \in Seq(Tickets) /\ batch[s] # <<>>
          /\ batch'[s] = Tail(batch[s]) /\ tickets' = tickets
          /\ since'[s] = IF batch'[s] = <<>> THEN {} ELSE since[s]
      BY <2>4, LoggedBreach DEF Types
    <3>2. \A i \in DOMAIN Tail(batch[s]) :
              i + 1 \in DOMAIN batch[s] /\ Tail(batch[s])[i] = batch[s][i + 1] /\ i + 1 > 1
      BY <3>1, RestOf
    <3>3. \A u \in Sweeps \ {s} : batch[u] = <<>> /\ DOMAIN batch[u] = {}
      BY <3>1 DEF OneSweep
    <3>4. ASSUME NEW i \in DOMAIN batch'[s] PROVE FreshNext(s, batch'[s][i])
      <4>1. batch'[s] # <<>>
        OBVIOUS
      <4>2. since'[s] = since[s]
        BY <3>1, <4>1
      <4>3. Fresh(s, batch'[s][i])
        BY <1>0, <3>1, <3>2
      <4> QED BY <3>1, <4>2, <4>3 DEF Fresh, FreshNext, Gone
    <3>5. ASSUME NEW i \in DOMAIN batch'[s], NEW j \in DOMAIN batch'[s], i # j
          PROVE  batch'[s][i] # batch'[s][j]
      <4>1. i \in Nat /\ j \in Nat
        BY <3>1, RestOf, LenProperties
      <4>2. i + 1 # j + 1
        BY <3>5, <4>1
      <4> QED BY <1>0, <3>1, <3>2, <4>2
    <3> QED BY <1>1, <2>1, <3>3, <3>4, <3>5
  <2> QED BY <1>3, <2>2, <2>3, <2>4 DEF Sweep
<1>4. ASSUME Reset PROVE BatchIsFresh'
  <2>1. \A s \in Sweeps, t \in Tickets : FreshNext(s, t)
    BY <1>4, ResetEffect DEF Fresh, FreshNext, Gone
  <2> QED BY <1>0, <1>1, <1>4, <2>1, ResetEffect
<1>5. ASSUME Restart PROVE BatchIsFresh'
  <2>1. \A s \in Sweeps : DOMAIN batch'[s] = {}
    BY <1>5, RestartEffect
  <2> QED BY <1>1, <2>1
<1>6. ASSUME Quiet PROVE BatchIsFresh'
  BY <1>0, <1>1, <1>6 DEF Quiet, Fresh, FreshNext, Gone
<1> QED BY <1>2, <1>3, <1>4, <1>5, <1>6, Steps

\* What is known of a breach stays known while the ticket is there.
LEMMA KnownStays ==
    ASSUME TicketInv, [TicketsNext]_ticketVars, NEW t \in Tickets,
           t \notin held' \cup unlogged', tickets'[t] # NoTicket, BreachIsKnown(t)
    PROVE  BreachIsKnown(t)'
<1> USE DEF TicketInv
<1>0. history[t] \in Seq(TicketEvents)
  BY DEF Types
<1>1. ASSUME NEW e \in TicketEvents, Contains(history[t], "sla_breached")
      PROVE  Contains(Append(history[t], e), "sla_breached")
  <2>1. PICK i \in 1..Len(history[t]) : history[t][i] = "sla_breached"
    BY <1>1 DEF Contains
  <2>2. /\ Append(history[t], e)[i] = "sla_breached"
        /\ i \in 1..(Len(history[t]) + 1) /\ Len(Append(history[t], e)) = Len(history[t]) + 1
    BY <1>0, <2>1, AppendIs
  <2> QED BY <2>2 DEF Contains
<1>2. ASSUME NEW r \in TicketRequests, Handling(r) PROVE BreachIsKnown(t)'
  <2>1. at' = at /\ batch' = batch
    BY <1>2, TicketHandlerFrame
  <2>2. Contains(history[t], "sla_breached") => Contains(history'[t], "sla_breached")
    <3>1. CASE LogEvent(r) /\ t = req[r].ticket
      BY <1>1, <3>1, LogEffect
    <3>2. CASE t # req[r].ticket
      BY <1>2, <3>2, TicketHandlerFrame
    <3>3. CASE ~LogEvent(r)
      BY <1>2, <3>3 DEF Handling, Receive, GoOn, Create, ReadTicket, SelectTicket, WriteTicket, rows
    <3> QED BY <3>1, <3>2, <3>3
  <2> QED BY <2>1, <2>2 DEF BreachIsKnown, Breaching
<1>3. ASSUME NEW s \in Sweeps, Sweep(s) PROVE BreachIsKnown(t)'
  <2>1. \A u \in Sweeps \ {s} : at'[u] = at[u] /\ batch'[u] = batch[u]
    BY <1>3, SweepFrame
  <2>2. CASE at[s] # "log"
    <3>1. history' = history /\ \A u \in Sweeps : at[u] = "log" => at'[u] = "log" /\ batch'[u] = batch[u]
      BY <1>3, <2>1, <2>2 DEF Sweep, Tick, Stamp, LogBreach, rows
    <3> QED BY <3>1 DEF BreachIsKnown, Breaching
  <2>3. CASE at[s] = "log"
    <3>1. LogBreach(s)
      BY <1>3, <2>3 DEF Sweep, Tick, Stamp
    <3>2. "sla_breached" \in TicketEvents
      BY DEF TicketEvents
    <3>3. CASE t = Head(batch[s])
      <4>1. history'[t] = Append(history[t], "sla_breached")
        BY <3>1, <3>3, LoggedBreach DEF Gone
      <4>2. /\ Append(history[t], "sla_breached")[Len(history[t]) + 1] = "sla_breached"
            /\ Len(Append(history[t], "sla_breached")) = Len(history[t]) + 1
            /\ Len(history[t]) \in Nat
        BY <1>0, <3>2, AppendIs
      <4>3. Len(history[t]) + 1 \in 1..(Len(history[t]) + 1)
        BY <4>2
      <4> QED BY <4>1, <4>2, <4>3 DEF BreachIsKnown, Contains
    <3>4. CASE t # Head(batch[s])
      <4>1. history'[t] = history[t]
        BY <3>1, <3>4, LoggedBreach
      <4> QED BY <2>1, <3>4, <4>1 DEF BreachIsKnown, Breaching
    <3> QED BY <3>3, <3>4
  <2> QED BY <2>2, <2>3
<1>4. CASE Reset
  BY <1>4, ResetEffect
<1>5. CASE Restart
  <2>1. ~Breaching(t)
    BY <1>5, RestartEffect DEF Breaching
  <2> QED BY <1>5, <2>1, RestartEffect DEF BreachIsKnown
<1>6. CASE Quiet
  BY <1>6 DEF Quiet, BreachIsKnown, Breaching
<1> QED BY <1>2, <1>3, <1>4, <1>5, <1>6, Steps

LEMMA BreachesKept ==
    ASSUME TicketInv, [TicketsNext]_ticketVars
    PROVE  BreachesAreKnown'
<1> USE DEF TicketInv
<1>0. held \subseteq held' /\ unlogged \subseteq unlogged'
  <2>1. Reset => held \subseteq held'
    BY DEF Reset
  <2> QED BY <2>1, Steps, TicketHandlerFrame, SweepFrame, ResetEffect, RestartEffect DEF Quiet
<1>1. InHandNow' /\ ThereUnlessReset' /\ Types'
  BY InHandKept, ThereKept, TypesKept
<1>2. ASSUME NEW t \in Tickets \ (held' \cup unlogged'), tickets'[t] # NoTicket,
             tickets'[t].slaBreached
      PROVE  BreachIsKnown(t)'
  <2>1. CASE tickets[t] # NoTicket /\ tickets[t].slaBreached
    <3>1. BreachIsKnown(t)
      BY <1>0, <1>2, <2>1 DEF BreachesAreKnown, Gone
    <3> QED BY <1>2, <3>1, KnownStays
  <2>2. CASE \E r \in TicketRequests : Saving(r) /\ mine[r].slaBreached /\ req[r].ticket = t
    <3>1. BreachIsKnown(t)
      BY <1>0, <1>2, <2>2 DEF BreachesAreKnown
    <3> QED BY <1>2, <3>1, KnownStays
  <2>3. CASE /\ tickets[t] = NoTicket \/ ~tickets[t].slaBreached
             /\ ~\E r \in TicketRequests : Saving(r) /\ mine[r].slaBreached /\ req[r].ticket = t
    <3>0. tickets'[t] # tickets[t]
      BY <1>2, <2>3
    <3>1. ASSUME NEW r \in TicketRequests, Handling(r) PROVE FALSE
      <4>1. req[r].ticket = t
        BY <1>2, <3>0, <3>1, TicketHandlerFrame
      <4>2. CASE Create(r)
        BY <1>2, <4>1, <4>2, CreateEffect, NewRowIsOne
      <4>3. CASE WriteTicket(r)
        <5>1. ticketPc[r] = "saveWrite" /\ ~mine[r].slaBreached
          BY <2>3, <4>1, <4>3, WriteEffect DEF Saving
        <5>2. CASE Gone(t)
          BY <1>2, <4>1, <4>3, <5>1, <5>2, WriteEffect
        <5>3. CASE ~Gone(t)
          <6>1. ~tickets[t].slaBreached
            BY <2>3, <5>3 DEF Gone
          <6>2. selected[r] # NoTicket
            BY <3>0, <4>1, <4>3, <5>3, WriteEffect
          <6> QED BY <1>2, <4>1, <4>3, <5>1, <5>3, <6>1, <6>2, WriteEffect
        <5> QED BY <5>2, <5>3
      <4>4. CASE ReadTicket(r) \/ SelectTicket(r) \/ LogEvent(r)
        BY <3>0, <4>4 DEF ReadTicket, SelectTicket, LogEvent, rows
      <4> QED BY <3>1, <4>2, <4>3, <4>4 DEF Handling, Receive, GoOn
    <3>2. ASSUME NEW s \in Sweeps, Sweep(s) PROVE BreachIsKnown(t)'
      <4>1. at[s] = "stamp" /\ t = Head(batch[s]) /\ at'[s] = "log"
        BY <3>0, <3>2, SweepRows
      <4>2. Stamp(s)
        BY <3>2, <4>1 DEF Sweep, Tick, LogBreach
      <4>3. batch' = batch
        BY <4>2 DEF Stamp
      <4> QED BY <4>1, <4>3 DEF BreachIsKnown, Breaching
    <3>3. ~Reset
      BY <1>2, ResetEffect
    <3>4. ~Restart
      BY <3>0, RestartEffect
    <3>5. ~Quiet
      BY <3>0 DEF Quiet
    <3> QED BY <3>1, <3>2, <3>3, <3>4, <3>5, Steps
  <2> QED BY <2>1, <2>2, <2>3
<1>3. ASSUME NEW r \in TicketRequests, Saving(r)', mine'[r].slaBreached,
             req[r].ticket \notin held' \cup unlogged'
      PROVE  BreachIsKnown(req[r].ticket)'
  <2> DEFINE t == req[r].ticket
  <2>1. t \in Tickets /\ tickets'[t] # NoTicket
    BY <1>1, <1>3, BodyOf DEF ThereUnlessReset, Saving, UnderWay, Gone
  <2>2. SUFFICES BreachIsKnown(t)
    BY <1>3, <2>1, <2>2, KnownStays
  <2>3. CASE Saving(r) /\ mine'[r] = mine[r]
    BY <1>0, <1>3, <2>3 DEF BreachesAreKnown
  <2>4. CASE ReadTicket(r)
    <3>1. /\ ~Gone(t) /\ ~Creates(r) /\ mine'[r] = Changed(req[r], tickets[t])
          /\ tickets[t] \in TicketRow
      BY <1>3, <2>1, <2>4, ReadEffect DEF Saving, Types, Gone
    <3>2. tickets[t].slaBreached
      BY <1>3, <3>1, ChangedTicket
    <3> QED BY <1>0, <1>3, <2>1, <3>1, <3>2 DEF BreachesAreKnown
  <2>5. ~ReadTicket(r) => Saving(r) /\ mine'[r] = mine[r]
    <3>1. ASSUME NEW q \in TicketRequests \ {r}, Handling(q) PROVE Saving(r) /\ mine'[r] = mine[r]
      BY <1>3, <3>1, TicketHandlerFrame DEF Saving
    <3>2. ASSUME Handling(r), ~ReadTicket(r) PROVE Saving(r) /\ mine'[r] = mine[r]
      BY <1>3, <3>2, CreateEffect, SelectEffect, WriteEffect, LogEffect
         DEF Saving, Handling, Receive, GoOn
    <3> QED BY <1>3, <3>1, <3>2, Steps, SweepFrame, ResetEffect, RestartEffect DEF Quiet, Saving
  <2> QED BY <2>3, <2>4, <2>5
<1> QED BY <1>2, <1>3 DEF BreachesAreKnown, Gone

LEMMA SeesAloneKept ==
    ASSUME TicketInv, [TicketsNext]_ticketVars
    PROVE  SeesAlone'
<1> USE DEF TicketInv
<1> SUFFICES ASSUME NEW r \in TicketRequests, ticketPc'[r] = "saveWrite",
                    req[r].ticket \notin rushed'
             PROVE  IF selected'[r] = NoTicket THEN tickets'[req[r].ticket] = NoTicket
                    ELSE \/ tickets'[req[r].ticket] = NoTicket
                         \/ /\ tickets'[req[r].ticket].status = selected'[r].status
                            /\ tickets'[req[r].ticket].assignedTo = selected'[r].assignedTo
  BY DEF SeesAlone, Gone
<1> DEFINE t == req[r].ticket
<1>1. t \in Tickets
  BY BodyOf
<1>2. CASE SelectTicket(r)
  BY <1>2, SelectEffect
<1>3. ASSUME ticketPc[r] = "saveWrite", selected'[r] = selected[r], rushed \subseteq rushed',
             \/ tickets'[t] = tickets[t] \/ tickets'[t] = NoTicket
             \/ /\ ~Gone(t) /\ tickets'[t].status = tickets[t].status
                /\ tickets'[t].assignedTo = tickets[t].assignedTo
      PROVE  IF selected'[r] = NoTicket THEN tickets'[t] = NoTicket
             ELSE \/ tickets'[t] = NoTicket
                  \/ /\ tickets'[t].status = selected'[r].status
                     /\ tickets'[t].assignedTo = selected'[r].assignedTo
  <2>1. IF selected[r] = NoTicket THEN Gone(t)
        ELSE Gone(t) \/ /\ tickets[t].status = selected[r].status
                        /\ tickets[t].assignedTo = selected[r].assignedTo
    BY <1>3 DEF SeesAlone
  <2> QED BY <1>3, <2>1 DEF Gone
<1>4. ASSUME Handling(r), ~SelectTicket(r) PROVE FALSE
  BY <1>4, CreateEffect, ReadEffect, WriteEffect, LogEffect DEF Handling, Receive, GoOn
<1>5. ASSUME NEW q \in TicketRequests \ {r}, Handling(q)
      PROVE  /\ ticketPc[r] = "saveWrite" /\ selected'[r] = selected[r]
             /\ rushed \subseteq rushed' /\ tickets'[t] = tickets[t]
  <2>1. /\ ticketPc[r] = "saveWrite" /\ selected'[r] = selected[r] /\ rushed \subseteq rushed'
    BY <1>5, TicketHandlerFrame
  <2>2. CASE req[q].ticket # t
    BY <1>1, <1>5, <2>1, <2>2, TicketHandlerFrame
  <2>3. CASE req[q].ticket = t
    <3>1. ticketPc[q] \in {"idle", "done"}
      BY <1>5, <2>1, <2>3 DEF Sole, UnderWay
    <3>2. ticketPc[q] # "idle"
      <4>1. r \in InProgress(t)
        BY <2>1 DEF InProgress
      <4> QED BY <1>5, <2>3, <4>1, TicketHandlerFrame
    <3> QED BY <1>5, <3>1, <3>2, TicketHandlerFrame
  <2> QED BY <2>1, <2>2, <2>3
<1>6. ASSUME NEW s \in Sweeps, Sweep(s)
      PROVE  /\ ticketPc[r] = "saveWrite" /\ selected'[r] = selected[r] /\ rushed \subseteq rushed'
             /\ \/ tickets'[t] = NoTicket
                \/ /\ ~Gone(t) /\ tickets'[t].status = tickets[t].status
                   /\ tickets'[t].assignedTo = tickets[t].assignedTo
  BY <1>1, <1>6, SweepFrame, SweepRows
<1>7. CASE Reset
  BY <1>1, <1>7, ResetEffect
<1>8. CASE Restart
  BY <1>8, RestartEffect
<1>9. CASE Quiet
  BY <1>3, <1>9 DEF Quiet
<1> QED BY <1>2, <1>3, <1>4, <1>5, <1>6, <1>7, <1>8, <1>9, Steps

\* A ticket with one request in progress at most: when r handles it nobody else does.
LEMMA Alone ==
    ASSUME TicketInv, NEW r \in TicketRequests, Handling(r), req[r].ticket \notin rushed',
           NEW q \in TicketRequests \ {r}, req[q].ticket = req[r].ticket
    PROVE  ~UnderWay(q) /\ ticketPc'[q] = ticketPc[q]
<1>1. ticketPc'[q] = ticketPc[q] /\ rushed \subseteq rushed' /\ ticketPc[r] # "done"
  BY TicketHandlerFrame DEF TicketInv
<1>2. CASE ticketPc[r] = "idle"
  <2>1. InProgress(req[r].ticket) = {}
    BY <1>2, TicketHandlerFrame DEF TicketInv
  <2> QED BY <1>1, <2>1 DEF InProgress, UnderWay
<1>3. CASE ticketPc[r] # "idle"
  BY <1>1, <1>3 DEF TicketInv, Sole, UnderWay
<1> QED BY <1>2, <1>3

\* What is kept of a ticket whose past is whole and whose requests do not meet.
Calm(t) == t \notin held \cup unlogged \cup rushed
Walked(t) ==
    ~Gone(t) => LegalHistory(history[t]) /\ (~Logging(t) => tickets[t].status = StatusOf(history[t]))
NextStep(r) ==
    LET t == req[r].ticket IN
    /\ Saving(r) =>
          /\ Moving(r) => tickets[t].status \in From[req[r].op]
          /\ mine[r].status = IF Moving(r) THEN To[req[r].op] ELSE tickets[t].status
    /\ ticketPc[r] = "log" =>
          IF Moving(r) THEN StatusOf(history[t]) \in From[req[r].op]
                            /\ tickets[t].status = To[req[r].op]
                       ELSE tickets[t].status = StatusOf(history[t])

\* The handler's steps on its own ticket.
LEMMA WalkByHandler ==
    ASSUME TicketInv, NEW r \in TicketRequests, Handling(r), Calm(req[r].ticket)'
    PROVE  Walked(req[r].ticket)' /\ NextStep(r)'
<1> USE DEF TicketInv
<1> DEFINE t == req[r].ticket
<1>1. t \in Tickets /\ Calm(t) /\ t \notin rushed'
  BY TicketHandlerFrame, BodyOf DEF Calm
<1>2. Walked(t) /\ NextStep(r)
  BY <1>1 DEF HistoryIsAWalk, NextIsLegal, Walked, NextStep, Calm
<1>3. \A q \in TicketRequests \ {r} : req[q].ticket = t =>
          ticketPc[q] \in {"idle", "done"} /\ ticketPc'[q] = ticketPc[q]
  BY <1>1, Alone DEF UnderWay
<1>4. CASE Create(r)
  <2>1. /\ tickets'[t] = NewRow /\ history'[t] = <<>> /\ ticketPc'[r] = "log" /\ ~Moving(r)
    BY <1>4, CreateEffect, BodyOf DEF Unborn
  <2> QED BY <2>1, EmptyHistory, NewRowIsOne
          DEF Walked, NextStep, Logging, Saving
<1>5. CASE ReadTicket(r)
  <2>1. /\ UNCHANGED <<tickets, history>> /\ ticketPc[r] = "idle" /\ ticketPc'[r] # "log"
        /\ ~Creates(r)
    BY <1>5, ReadEffect
  <2>2. ~Logging(t) /\ ~Logging(t)'
    BY <1>3, <2>1 DEF Logging
  <2>3. Walked(t)'
    BY <1>2, <2>1, <2>2 DEF Walked, Gone
  <2>4. CASE ticketPc'[r] = "done"
    BY <2>3, <2>4 DEF NextStep, Saving
  <2>5. CASE ticketPc'[r] # "done"
    <3>1. /\ ~Gone(t) /\ Refusal(req[r], tickets[t]) = "none" /\ ticketPc'[r] = "saveSelect"
          /\ mine'[r] = Changed(req[r], tickets[t]) /\ tickets[t] \in TicketRow
      BY <1>1, <1>5, <2>5, ReadEffect DEF Types, Gone
    <3>2. Moving(r) => tickets[t].status \in From[req[r].op]
      <4>1. Moving(r) => req[r].op # "assign" /\ req[r].op # "claim"
        BY EventsDiffer DEF Moving
      <4> QED BY <3>1, <4>1 DEF Refusal
    <3>3. mine'[r].status = IF Moving(r) THEN To[req[r].op] ELSE tickets[t].status
      BY <2>1, <3>1, ChangedTicket
    <3> QED BY <2>1, <2>3, <3>1, <3>2, <3>3 DEF NextStep, Saving
  <2> QED BY <2>4, <2>5
<1>6. CASE SelectTicket(r)
  <2>1. /\ UNCHANGED <<tickets, history, mine>> /\ ticketPc[r] = "saveSelect"
        /\ ticketPc'[r] = "saveWrite"
    BY <1>6, SelectEffect
  <2>2. ~Logging(t) /\ ~Logging(t)'
    BY <1>3, <2>1 DEF Logging
  <2> QED BY <1>2, <2>1, <2>2 DEF Walked, NextStep, Gone, Saving
<1>7. CASE WriteTicket(r)
  <2>1. ticketPc[r] = "saveWrite" /\ history' = history /\ mine' = mine
    BY <1>7, WriteEffect
  <2>2. ~Gone(t) /\ selected[r] # NoTicket
    BY <1>1, <2>1 DEF ThereUnlessReset, Calm, UnderWay
  <2>3. ticketPc'[r] = "log"
    BY <1>7, <2>2, WriteEffect
  <2>4. tickets[t].status = selected[r].status
    BY <1>1, <2>1, <2>2 DEF SeesAlone, Calm
  <2>5. tickets'[t].status = mine[r].status
    BY <1>7, <2>2, <2>4, WriteEffect
  <2>6. ~Logging(t) /\ Logging(t)'
    BY <1>3, <2>1, <2>3 DEF Logging
  <2>7. LegalHistory(history[t]) /\ tickets[t].status = StatusOf(history[t])
    BY <1>2, <2>2, <2>6 DEF Walked
  <2>8. Walked(t)'
    BY <2>1, <2>6, <2>7 DEF Walked
  <2>9. NextStep(r)'
    BY <1>2, <2>1, <2>3, <2>5, <2>7 DEF NextStep, Saving
  <2> QED BY <2>8, <2>9
<1>8. CASE LogEvent(r)
  <2> DEFINE e == IF Creates(r) THEN "created" ELSE Event[req[r].op]
  <2>1. ticketPc[r] = "log" /\ ticketPc'[r] = "done" /\ tickets' = tickets
    BY <1>8, LogEffect
  <2>2. ~Gone(t)
    BY <1>1, <2>1 DEF ThereUnlessReset, Calm, UnderWay
  <2>3. /\ history'[t] = Append(history[t], e) /\ e \in TicketEvents
        /\ \A op \in DOMAIN From : e = Event[op] <=> op = req[r].op
    BY <1>8, <2>2, LogEffect
  <2> HIDE DEF e
  <2>4. history[t] \in Seq(TicketEvents) /\ LegalHistory(history[t])
    BY <1>1, <1>2, <2>2 DEF Types, Walked
  <2>5. IF Moving(r) THEN StatusOf(history[t]) \in From[req[r].op]
                          /\ tickets[t].status = To[req[r].op]
                     ELSE tickets[t].status = StatusOf(history[t])
    BY <1>2, <2>1 DEF NextStep
  <2>6. LegalHistory(history'[t])
    <3>1. \A op \in DOMAIN From : e = Event[op] => StatusOf(history[t]) \in From[op]
      BY <2>3, <2>5 DEF Moving
    <3> QED BY <2>3, <2>4, <3>1, LegalAppend
  <2>7. tickets[t].status = StatusOf(history'[t])
    <3>1. CASE Moving(r)
      BY <2>3, <2>4, <2>5, <3>1, StatusOfAppend DEF Moving
    <3>2. CASE ~Moving(r)
      BY <2>3, <2>4, <2>5, <3>2, StatusOfAppend DEF Moving
    <3> QED BY <3>1, <3>2
  <2> QED BY <2>1, <2>6, <2>7 DEF Walked, NextStep, Saving
<1> QED BY <1>4, <1>5, <1>6, <1>7, <1>8 DEF Handling, Receive, GoOn

\* A step of nobody who handles the ticket: its status stays, and its history keeps
\* telling it.
LEMMA OthersLeaveCalm ==
    ASSUME TicketInv, [TicketsNext]_ticketVars, NEW t \in Tickets, Calm(t)',
           \A r \in TicketRequests : req[r].ticket = t => ~Handling(r)
    PROVE  /\ Calm(t)
           /\ tickets'[t] # NoTicket =>
                 /\ ~Gone(t) /\ tickets'[t].status = tickets[t].status
                 /\ StatusOf(history'[t]) = StatusOf(history[t])
                 /\ LegalHistory(history[t]) => LegalHistory(history'[t])
                 /\ Logging(t) => Logging(t)'
           /\ \A r \in TicketRequests : req[r].ticket = t =>
                 mine'[r] = mine[r] /\ (ticketPc'[r] = ticketPc[r] \/ ticketPc'[r] \in {"idle", "done"})
<1> USE DEF TicketInv
<1>1. ASSUME NEW r \in TicketRequests, Handling(r)
      PROVE  /\ Calm(t) /\ tickets'[t] = tickets[t] /\ history'[t] = history[t]
             /\ \A q \in TicketRequests : req[q].ticket = t =>
                   mine'[q] = mine[q] /\ ticketPc'[q] = ticketPc[q]
  <2>1. req[r].ticket # t
    BY <1>1
  <2> QED BY <1>1, <2>1, TicketHandlerFrame DEF Calm
<1>2. ASSUME \E r \in TicketRequests : Handling(r)
      PROVE  /\ Calm(t) /\ tickets'[t] = tickets[t] /\ history'[t] = history[t]
             /\ \A q \in TicketRequests : req[q].ticket = t =>
                   mine'[q] = mine[q] /\ ticketPc'[q] = ticketPc[q]
  BY <1>1, <1>2
<1>3. CASE \E r \in TicketRequests : Handling(r)
  BY <1>2, <1>3 DEF Logging, Gone
<1>4. ASSUME NEW s \in Sweeps, Sweep(s)
      PROVE  /\ tickets'[t] # NoTicket => ~Gone(t) /\ tickets'[t].status = tickets[t].status
             /\ StatusOf(history'[t]) = StatusOf(history[t])
             /\ LegalHistory(history[t]) => LegalHistory(history'[t])
  <2>1. tickets'[t] # NoTicket => ~Gone(t) /\ tickets'[t].status = tickets[t].status
    BY <1>4, SweepRows
  <2>2. \/ history'[t] = history[t]
        \/ history'[t] = Append(history[t], "sla_breached")
    <3>1. CASE LogBreach(s)
      BY <3>1, LoggedBreach
    <3>2. CASE ~LogBreach(s)
      BY <1>4, <3>2 DEF Sweep, Tick, Stamp, rows
    <3> QED BY <3>1, <3>2
  <2>3. /\ "sla_breached" \in TicketEvents /\ history[t] \in Seq(TicketEvents)
        /\ \A op \in DOMAIN From : "sla_breached" # Event[op]
    BY EventsDiffer DEF TicketEvents, Types
  <2>4. /\ StatusOf(Append(history[t], "sla_breached")) = StatusOf(history[t])
        /\ LegalHistory(history[t]) => LegalHistory(Append(history[t], "sla_breached"))
    BY <2>3, StatusOfAppend, LegalAppend
  <2> QED BY <2>1, <2>2, <2>4
<1>5. CASE \E s \in Sweeps : Sweep(s)
  <2>1. UNCHANGED <<ticketPc, mine, rushed, held, unlogged>>
    BY <1>5, SweepFrame
  <2> QED BY <1>4, <1>5, <2>1 DEF Logging, Calm
<1>6. CASE Reset
  BY <1>6, ResetEffect DEF Calm
<1>7. CASE Restart
  BY <1>7, RestartEffect DEF Calm, Logging, Gone
<1>8. CASE Quiet
  BY <1>8 DEF Quiet, Calm, Logging, Gone
<1> QED BY <1>3, <1>5, <1>6, <1>7, <1>8, Steps

LEMMA WalkKept ==
    ASSUME TicketInv, [TicketsNext]_ticketVars
    PROVE  HistoryIsAWalk' /\ NextIsLegal'
<1> USE DEF TicketInv
<1>0. ThereUnlessReset'
  BY ThereKept
<1>1. ASSUME NEW t \in Tickets, Calm(t)'
      PROVE  /\ Walked(t)'
             /\ \A r \in TicketRequests : req[r].ticket = t => NextStep(r)'
  <2>1. CASE \E q \in TicketRequests : req[q].ticket = t /\ Handling(q)
    <3>1. PICK q \in TicketRequests : req[q].ticket = t /\ Handling(q)
      BY <2>1
    <3>2. Walked(t)' /\ NextStep(q)'
      BY <1>1, <3>1, WalkByHandler
    <3>3. \A r \in TicketRequests \ {q} : req[r].ticket = t => ticketPc'[r] \in {"idle", "done"}
      <4>1. t \notin rushed'
        BY <1>1 DEF Calm
      <4> QED BY <3>1, <4>1, Alone DEF UnderWay
    <3>4. \A r \in TicketRequests \ {q} : req[r].ticket = t => NextStep(r)'
      BY <3>3 DEF NextStep, Saving
    <3> QED BY <3>2, <3>4
  <2>2. CASE \A r \in TicketRequests : req[r].ticket = t => ~Handling(r)
    <3>1. /\ Calm(t)
          /\ tickets'[t] # NoTicket =>
                /\ ~Gone(t) /\ tickets'[t].status = tickets[t].status
                /\ StatusOf(history'[t]) = StatusOf(history[t])
                /\ LegalHistory(history[t]) => LegalHistory(history'[t])
                /\ Logging(t) => Logging(t)'
          /\ \A r \in TicketRequests : req[r].ticket = t =>
                mine'[r] = mine[r] /\ (ticketPc'[r] = ticketPc[r] \/ ticketPc'[r] \in {"idle", "done"})
      BY <1>1, <2>2, OthersLeaveCalm
    <3>2. /\ Walked(t)
          /\ \A r \in TicketRequests : req[r].ticket = t => NextStep(r)
      BY <3>1 DEF HistoryIsAWalk, NextIsLegal, Walked, NextStep, Calm
    <3>3. Walked(t)'
      BY <3>1, <3>2 DEF Walked, Gone
    <3>4. ASSUME NEW r \in TicketRequests, req[r].ticket = t PROVE NextStep(r)'
      <4>1. CASE ticketPc'[r] \in {"idle", "done"}
        BY <4>1 DEF NextStep, Saving
      <4>2. CASE ticketPc'[r] \notin {"idle", "done"}
        <5>1. tickets'[t] # NoTicket
          BY <1>0, <1>1, <3>4, <4>2 DEF ThereUnlessReset, UnderWay, Calm, Gone
        <5>2. ticketPc'[r] = ticketPc[r] /\ mine'[r] = mine[r] /\ NextStep(r)
          BY <3>1, <3>2, <3>4, <4>2
        <5> QED BY <3>1, <3>4, <5>1, <5>2 DEF NextStep, Saving
      <4> QED BY <4>1, <4>2
    <3> QED BY <3>3, <3>4
  <2> QED BY <2>1, <2>2
<1>2. HistoryIsAWalk'
  BY <1>1 DEF HistoryIsAWalk, Walked, Calm
<1>3. NextIsLegal'
  <2> SUFFICES ASSUME NEW r \in TicketRequests, Calm(req[r].ticket)' PROVE NextStep(r)'
    BY DEF NextIsLegal, NextStep, Calm
  <2> QED BY <1>1, BodyOf
<1> QED BY <1>2, <1>3

------------------------------------------------------------------------------
(***************************************************************************)
(* Claims.                                                                 *)
(***************************************************************************)
\* What is kept for a claim whose ticket is not rushed and not assigned.
Claimed(r) ==
    LET t == req[r].ticket IN
    /\ ticketPc[r] = "log" /\ ~Gone(t) => tickets[t].assignedTo = req[r].by
    /\ ticketAnswer[r] = "ok" =>
          /\ ~Gone(t) => tickets[t].assignedTo = req[r].by
          /\ \A q \in TicketRequests :
                Saving(q) /\ For(q, t) => mine[q].assignedTo = req[r].by

\* A handler's step on a claimed ticket.
LEMMA ClaimedByHandler ==
    ASSUME TicketInv, NEW r \in TicketRequests, Claims(r), NEW p \in TicketRequests,
           Handling(p), req[p].ticket = req[r].ticket, req[r].ticket \notin rushed',
           NoAssign(req[r].ticket)', Claimed(r)
    PROVE  Claimed(r)'
<1> USE DEF TicketInv
<1> DEFINE t == req[r].ticket
<1>1. /\ t \in Tickets /\ t \notin rushed /\ req[r].by # NoAgent /\ ~Creates(r) /\ ~Moving(r)
      /\ \A q \in TicketRequests \ {p} : /\ ticketPc'[q] = ticketPc[q] /\ mine'[q] = mine[q]
                                         /\ ticketAnswer'[q] = ticketAnswer[q]
      /\ ticketPc'[p] # "idle"
  BY BodyOf, TicketHandlerFrame
<1>2. \A q \in TicketRequests \ {p} : For(q, t) => ticketPc[q] \in {"idle", "done"}
  BY Alone DEF For, UnderWay
<1>3. CASE Create(p)
  <2>1. ticketPc[r] # "log" /\ ticketAnswer[r] # "ok"
    BY <1>3, CreateEffect DEF Unborn, For, UnderWay
  <2>2. r # p
    BY <1>1, <1>3, CreateEffect
  <2> QED BY <1>1, <2>1, <2>2 DEF Claimed
<1>4. CASE ReadTicket(p)
  <2>1. /\ UNCHANGED <<tickets, history>> /\ ticketPc'[p] # "log" /\ ~Creates(p)
    BY <1>4, ReadEffect
  <2>2. CASE ticketPc'[p] = "done"
    <3>1. mine'[p] = mine[p] /\ ticketAnswer'[p] # "ok"
      BY <1>4, <2>2, ReadEffect
    <3> QED BY <1>1, <2>1, <2>2, <3>1 DEF Claimed, Gone, Saving, For
  <2>3. CASE ticketPc'[p] # "done"
    <3>1. /\ ~Gone(t) /\ Refusal(req[p], tickets[t]) = "none" /\ ticketAnswer'[p] = ticketAnswer[p]
          /\ mine'[p] = Changed(req[p], tickets[t]) /\ tickets[t] \in TicketRow
      BY <1>1, <1>4, <2>3, ReadEffect DEF Types, Gone
    <3>2. req[p].op # "assign"
      BY <1>1 DEF NoAssign, For
    <3>3. ticketAnswer[r] = "ok" => mine'[p].assignedTo = req[r].by
      <4> SUFFICES ASSUME ticketAnswer[r] = "ok" PROVE mine'[p].assignedTo = req[r].by
        OBVIOUS
      <4>1. tickets[t].assignedTo = req[r].by
        BY <3>1 DEF Claimed
      <4>2. req[p].op # "claim"
        BY <1>1, <3>1, <4>1 DEF Refusal
      <4> QED BY <2>1, <3>1, <3>2, <4>1, <4>2, ChangedTicket
    <3> QED BY <1>1, <2>1, <3>1, <3>3 DEF Claimed, Gone, Saving, For
  <2> QED BY <2>2, <2>3
<1>5. CASE SelectTicket(p)
  BY <1>1, <1>5, SelectEffect DEF Claimed, Gone, Saving, For
<1>6. CASE WriteTicket(p)
  <2>1. ticketPc[p] = "saveWrite" /\ mine' = mine /\ ticketPc'[p] \in {"log", "done"}
    BY <1>6, WriteEffect
  <2>2. p = r => mine[r].assignedTo = req[r].by
    BY <2>1 DEF ClaimsStay, Saving
  <2>3. ticketAnswer[r] = "ok" => mine[p].assignedTo = req[r].by
    BY <2>1 DEF Claimed, Saving, For
  <2>4. ASSUME mine[p].assignedTo = req[r].by, tickets'[t] # NoTicket
        PROVE  tickets'[t].assignedTo = req[r].by
    <3>1. CASE Gone(t)
      <4>1. req[p].ticket = t /\ Gone(req[p].ticket)
        BY <3>1
      <4>2. tickets'[req[p].ticket] \in {mine[p], NoTicket}
        BY <1>6, <4>1, WriteEffect
      <4> QED BY <2>4, <4>1, <4>2
    <3>2. CASE ~Gone(t)
      <4>1. selected[p] # NoTicket /\ tickets[t].assignedTo = selected[p].assignedTo
        BY <1>1, <2>1, <3>2 DEF SeesAlone
      <4>2. tickets'[t].assignedTo =
                IF mine[p].assignedTo # selected[p].assignedTo
                THEN mine[p].assignedTo ELSE tickets[t].assignedTo
        <5>1. req[p].ticket = t /\ ~Gone(req[p].ticket)
          BY <3>2
        <5>2. tickets'[req[p].ticket].assignedTo =
                  IF mine[p].assignedTo # selected[p].assignedTo
                  THEN mine[p].assignedTo ELSE tickets[req[p].ticket].assignedTo
          BY <1>6, <4>1, <5>1, WriteEffect
        <5> QED BY <5>1, <5>2
      <4> QED BY <2>4, <4>1, <4>2
    <3> QED BY <3>1, <3>2
  <2>5. p = r \/ ticketAnswer'[r] = ticketAnswer[r]
    BY <1>1
  <2>6. p = r => ticketAnswer'[r] = ticketAnswer[r] \/ ticketAnswer'[r] = "error"
    BY <1>6, WriteEffect
  <2>7. p # r => ticketPc'[r] # "log"
    BY <1>1, <1>2 DEF For
  <2>8. p = r \/ ticketAnswer[r] = "ok" => (tickets'[t] # NoTicket => tickets'[t].assignedTo = req[r].by)
    BY <2>2, <2>3, <2>4
  <2>9. \A q \in TicketRequests : Saving(q)' => Saving(q) /\ mine'[q] = mine[q]
    BY <1>1, <2>1 DEF Saving
  <2> QED BY <2>5, <2>6, <2>7, <2>8, <2>9 DEF Claimed, Gone
<1>7. CASE LogEvent(p)
  <2>1. ticketPc[p] = "log" /\ ticketPc'[p] = "done" /\ tickets' = tickets /\ mine' = mine
    BY <1>7, LogEffect
  <2>2. \A q \in TicketRequests : For(q, t) => ~Saving(q)' /\ ticketPc'[q] # "log"
    BY <1>1, <1>2, <2>1 DEF Saving
  <2>3. r # p => ticketAnswer'[r] = ticketAnswer[r]
    BY <1>1
  <2>4. r = p \/ ticketAnswer[r] = "ok" => (~Gone(t) => tickets[t].assignedTo = req[r].by)
    BY <2>1 DEF Claimed
  <2> QED BY <2>1, <2>2, <2>3, <2>4 DEF Claimed, Gone, For
<1> QED BY <1>3, <1>4, <1>5, <1>6, <1>7 DEF Handling, Receive, GoOn

LEMMA ClaimsKept ==
    ASSUME TicketInv, [TicketsNext]_ticketVars
    PROVE  ClaimsStay'
<1> USE DEF TicketInv
<1>0. rushed \subseteq rushed'
  BY Steps, TicketHandlerFrame, SweepFrame, ResetEffect, RestartEffect DEF Quiet
<1>1. ASSUME NEW r \in TicketRequests, Claims(r), Saving(r)'
      PROVE  mine'[r].assignedTo = req[r].by
  <2>1. CASE ReadTicket(r)
    <3>1. /\ ~Gone(req[r].ticket) /\ mine'[r] = Changed(req[r], tickets[req[r].ticket])
          /\ tickets[req[r].ticket] \in TicketRow /\ ~Creates(r)
      BY <1>1, <2>1, BodyOf, ReadEffect DEF Types, Gone, Saving
    <3> QED BY <1>1, <3>1, ChangedTicket DEF Claims
  <2>2. ~ReadTicket(r) => Saving(r) /\ mine'[r] = mine[r]
    <3>1. ASSUME NEW q \in TicketRequests \ {r}, Handling(q) PROVE Saving(r) /\ mine'[r] = mine[r]
      BY <1>1, <3>1, TicketHandlerFrame DEF Saving
    <3>2. ASSUME Handling(r), ~ReadTicket(r) PROVE Saving(r) /\ mine'[r] = mine[r]
      BY <1>1, <3>2, CreateEffect, SelectEffect, WriteEffect, LogEffect
         DEF Saving, Handling, Receive, GoOn
    <3> QED BY <1>1, <3>1, <3>2, Steps, SweepFrame, ResetEffect, RestartEffect DEF Quiet, Saving
  <2> QED BY <1>1, <2>1, <2>2 DEF ClaimsStay
<1>2. ASSUME NEW r \in TicketRequests, Claims(r), req[r].ticket \notin rushed',
             NoAssign(req[r].ticket)'
      PROVE  Claimed(r)'
  <2> DEFINE t == req[r].ticket
  <2>0. t \in Tickets
    BY BodyOf
  <2>1. \A q \in TicketRequests : ticketPc[q] # "idle" => ticketPc'[q] # "idle"
    BY Steps, TicketHandlerFrame, SweepFrame, ResetEffect, RestartEffect DEF Quiet
  <2>2. NoAssign(t)
    BY <1>2, <2>1 DEF NoAssign
  <2>3. Claimed(r)
    BY <1>0, <1>2, <2>2 DEF ClaimsStay, Claimed
  <2>4. ASSUME NEW p \in TicketRequests, Handling(p) PROVE Claimed(r)'
    <3>1. CASE req[p].ticket = t
      BY <1>2, <2>3, <2>4, <3>1, ClaimedByHandler
    <3>2. CASE req[p].ticket # t
      <4>1. /\ tickets'[t] = tickets[t] /\ p # r
            /\ \A q \in TicketRequests : For(q, t) =>
                  /\ ticketPc'[q] = ticketPc[q] /\ mine'[q] = mine[q]
                  /\ ticketAnswer'[q] = ticketAnswer[q]
        BY <2>0, <2>4, <3>2, TicketHandlerFrame DEF For
      <4> QED BY <2>3, <4>1 DEF Claimed, Gone, Saving, For
    <3> QED BY <3>1, <3>2
  <2>5. ASSUME NEW s \in Sweeps, Sweep(s) PROVE Claimed(r)'
    <3>1. /\ UNCHANGED <<ticketPc, ticketAnswer, mine>>
          /\ \/ tickets'[t] = NoTicket
             \/ ~Gone(t) /\ tickets'[t].assignedTo = tickets[t].assignedTo
      <4>1. UNCHANGED <<ticketPc, ticketAnswer, mine>>
        BY <2>5, SweepFrame
      <4>2. /\ Gone(t) <=> tickets'[t] = NoTicket
            /\ ~Gone(t) => tickets'[t].assignedTo = tickets[t].assignedTo
        BY <2>0, <2>5, SweepRows
      <4> QED BY <4>1, <4>2
    <3> QED BY <2>3, <3>1 DEF Claimed, Gone, Saving
  <2>6. CASE Reset
    BY <2>0, <2>3, <2>6, ResetEffect DEF Claimed, Gone, Saving
  <2>7. CASE Restart
    BY <2>3, <2>7, RestartEffect DEF Claimed, Gone, Saving
  <2>8. CASE Quiet
    BY <2>3, <2>8 DEF Claimed, Gone, Saving, Quiet
  <2> QED BY <2>4, <2>5, <2>6, <2>7, <2>8, Steps
<1> QED BY <1>1, <1>2 DEF ClaimsStay, Claimed

------------------------------------------------------------------------------
(***************************************************************************)
(* The theorems.                                                           *)
(***************************************************************************)
LEMMA TicketStepInv == TicketInv /\ [TicketsNext]_ticketVars => TicketInv'
<1> SUFFICES ASSUME TicketInv, [TicketsNext]_ticketVars PROVE TicketInv'
  OBVIOUS
<1> QED
  BY TypesKept, OneSweepKept, InHandKept, ThereKept, UnbornKept, SoleKept, FreshKept,
     BreachesKept, SeesAloneKept, WalkKept, ClaimsKept DEF TicketInv

LEMMA TicketInvariance == TicketsSpec => []TicketInv
  BY TicketInitInv, TicketStepInv, PTL DEF TicketsSpec

\* TicketsTypeOK: every variable of the ticket module has its type, at any number of
\* tickets, requests, agents and sweeps.
THEOREM TicketsTypeCorrect == TicketsSpec => []TicketsTypeOK
<1>1. TicketInv => TicketsTypeOK
  BY DEF TicketInv, Types, OneSweep, TicketsTypeOK, TicketAnswers
<1> QED BY <1>1, TicketInvariance, PTL

\* WorkflowIsKept: whatever the sweep does between a handler's read, SELECT, write and
\* event, a ticket's history is a walk of the workflow that ends in its status and knows of
\* its breach, and a claim that was confirmed is in the row; except where requests for one
\* ticket overlap, a reset took a ticket under way, or a restart cut off an event.
THEOREM WorkflowKept == TicketsSpec => []WorkflowIsKept
<1>1. TicketInv => HistoryTellsStatus
  BY DEF TicketInv, BreachesAreKnown, BreachIsKnown, HistoryIsAWalk, HistoryTellsStatus
<1>2. TicketInv => ClaimIsKept
  BY DEF TicketInv, ClaimsStay, Claims, NoAssign, For, ClaimIsKept
<1>3. TicketInv => WorkflowIsKept
  BY <1>1, <1>2 DEF WorkflowIsKept
<1> QED BY <1>3, TicketInvariance, PTL

\* SweepIsExact: what a sweep stamps was overdue, open or in progress and unstamped when its
\* batch was read, and still is unless a handler saved it since; batches of any size.
THEOREM SweepExact == TicketsSpec => SweepIsExact
<1>1. ASSUME TicketInv, [TicketsNext]_ticketVars, NEW s \in Sweeps,
             at[s] = "stamp", ~Gone(Head(batch[s]))
      PROVE  \/ Head(batch[s]) \in since[s]
             \/ /\ ~tickets[Head(batch[s])].slaBreached
                /\ tickets[Head(batch[s])].status \in {"open", "in_progress"}
  <2>1. batch[s] \in Seq(Tickets) /\ batch[s] # <<>>
    BY <1>1 DEF TicketInv, Types, OneSweep
  <2>2. Head(batch[s]) = batch[s][1] /\ 1 \in DOMAIN batch[s]
    BY <2>1, RestOf
  <2> QED BY <1>1, <2>2 DEF TicketInv, BatchIsFresh
<1>2. TicketInv /\ [TicketsNext]_ticketVars =>
          [ \A s \in Sweeps :
            at[s] = "stamp" /\ at'[s] = "log" /\ ~Gone(Head(batch[s]))
                => \/ ~tickets[Head(batch[s])].slaBreached
                   \/ Head(batch[s]) \in since[s] ]_ticketVars
  BY <1>1
<1>3. TicketInv /\ [TicketsNext]_ticketVars =>
          [ \A s \in Sweeps :
            at[s] = "stamp" /\ at'[s] = "log" /\ ~Gone(Head(batch[s])) =>
                \/ tickets[Head(batch[s])].status \in {"open", "in_progress"}
                \/ Head(batch[s]) \in since[s] ]_ticketVars
  BY <1>1
<1>4. TicketsSpec => SweepNeverRestamps
  BY <1>2, TicketInvariance, PTL DEF TicketsSpec, SweepNeverRestamps
<1>5. TicketsSpec => StampsWhatItRead
  BY <1>3, TicketInvariance, PTL DEF TicketsSpec, StampsWhatItRead
<1> QED BY <1>4, <1>5 DEF SweepIsExact

\* NothingIsUndone: only a save that saw the stamp erases a breach, and only a handler that
\* was at work during a reset brings a deleted ticket back; the sweep never does.
THEOREM NothingUndone == TicketsSpec => NothingIsUndone
<1>1. ASSUME TicketInv, [TicketsNext]_ticketVars, NEW t \in Tickets, ~Gone(t),
             tickets'[t] # NoTicket, tickets[t].slaBreached, ~tickets'[t].slaBreached
      PROVE  \E r \in InProgress(t) :
                    /\ ticketPc[r] = "saveWrite" /\ ticketPc'[r] # "saveWrite"
                    /\ selected[r] # NoTicket /\ selected[r].slaBreached
  <2> USE DEF TicketInv
  <2>1. tickets'[t] # tickets[t]
    BY <1>1
  <2>2. ASSUME NEW r \in TicketRequests, Handling(r)
        PROVE  WriteTicket(r) /\ req[r].ticket = t
    <3>1. req[r].ticket = t
      BY <1>1, <2>1, <2>2, TicketHandlerFrame
    <3>2. ~Create(r)
      BY <1>1, <3>1, CreateEffect DEF Unborn
    <3>3. ~(ReadTicket(r) \/ SelectTicket(r) \/ LogEvent(r))
      BY <2>1 DEF ReadTicket, SelectTicket, LogEvent, rows
    <3> QED BY <2>2, <3>1, <3>2, <3>3 DEF Handling, Receive, GoOn
  <2>3. \A s \in Sweeps : ~Sweep(s)
    BY <1>1, SweepRows
  <2>4. ~Reset /\ ~Restart /\ ~Quiet
    BY <1>1, <2>1, ResetEffect, RestartEffect DEF Quiet
  <2>5. PICK r \in TicketRequests : WriteTicket(r) /\ req[r].ticket = t
    BY <1>1, <2>2, <2>3, <2>4, Steps
  <2>6. ticketPc[r] = "saveWrite" /\ ticketPc'[r] # "saveWrite" /\ r \in InProgress(t)
    BY <1>1, <2>5, WriteEffect DEF InProgress
  <2>7. selected[r] # NoTicket
    BY <1>1, <2>1, <2>5, WriteEffect
  <2>8. /\ mine[r] \in TicketRow /\ selected[r] \in TicketRow
        /\ tickets'[t].slaBreached = IF mine[r].slaBreached # selected[r].slaBreached
                                     THEN mine[r].slaBreached ELSE tickets[t].slaBreached
    BY <1>1, <2>5, <2>7, WriteEffect
  <2>9. mine[r].slaBreached \in BOOLEAN /\ selected[r].slaBreached \in BOOLEAN
    BY <2>8 DEF TicketRow
  <2>10. selected[r].slaBreached
    BY <1>1, <2>8, <2>9
  <2> QED BY <2>6, <2>7, <2>10
<1>2. ASSUME TicketInv, [TicketsNext]_ticketVars, NEW t \in Tickets, Gone(t),
             tickets'[t] # NoTicket
      PROVE  t \in held \/ t \notin Existing
  <2> USE DEF TicketInv
  <2>1. ASSUME NEW r \in TicketRequests, Handling(r) PROVE t \in held \/ t \notin Existing
    <3>1. req[r].ticket = t
      BY <1>2, <2>1, TicketHandlerFrame DEF Gone
    <3>2. CASE Create(r)
      BY <1>2, <3>1, <3>2, CreateEffect, BodyOf
    <3>3. CASE WriteTicket(r)
      BY <1>2, <3>1, <3>3, WriteEffect DEF ThereUnlessReset, UnderWay
    <3>4. ~(ReadTicket(r) \/ SelectTicket(r) \/ LogEvent(r))
      BY <1>2 DEF ReadTicket, SelectTicket, LogEvent, rows, Gone
    <3> QED BY <2>1, <3>2, <3>3, <3>4 DEF Handling, Receive, GoOn
  <2>2. \A s \in Sweeps : ~Sweep(s)
    BY <1>2, SweepRows
  <2>3. ~Reset /\ ~Restart /\ ~Quiet
    BY <1>2, ResetEffect, RestartEffect DEF Quiet, Gone
  <2> QED BY <1>2, <2>1, <2>2, <2>3, Steps
<1>3. TicketsSpec => ErasedBySightOnly
  <2>1. TicketInv /\ [TicketsNext]_ticketVars =>
      [ \A t \in Tickets :
            /\ ~Gone(t) /\ tickets'[t] # NoTicket
            /\ tickets[t].slaBreached /\ ~tickets'[t].slaBreached
            => \E r \in InProgress(t) :
                    /\ ticketPc[r] = "saveWrite" /\ ticketPc'[r] # "saveWrite"
                    /\ selected[r] # NoTicket /\ selected[r].slaBreached ]_ticketVars
    BY <1>1
  <2> QED BY <2>1, TicketInvariance, PTL DEF TicketsSpec, ErasedBySightOnly
<1>4. TicketsSpec => DeletedStaysDeleted
  <2>1. TicketInv /\ [TicketsNext]_ticketVars =>
      [ \A t \in Tickets :
            Gone(t) /\ tickets'[t] # NoTicket => t \in held \/ t \notin Existing ]_ticketVars
    BY <1>2
  <2> QED BY <2>1, TicketInvariance, PTL DEF TicketsSpec, DeletedStaysDeleted
<1> QED BY <1>3, <1>4 DEF NothingIsUndone
=============================================================================
