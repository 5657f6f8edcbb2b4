------------------------------ MODULE Reviews ------------------------------
(***************************************************************************)
(* Reviews of products: creating one behind the rate limit, the pages a    *)
(* client walks by cursor, the administrator's reply and the notification  *)
(* of the author (ReviewsService, RateLimitGuard, common/cursor.ts).       *)
(*                                                                         *)
(* created_at is the start of the inserting transaction in microseconds;   *)
(* a cursor has been through a JS Date and knows milliseconds only.        *)
(***************************************************************************)
EXTENDS Integers, SequencesExt

CONSTANTS
    ReviewRequests,       \* a review is named by the request that created it
    None,
    Clients, Products,
    ReviewBodies,
    Micros,         \* ticks of the clock in a millisecond
    Window,         \* WINDOW_MS
    MaxRequests,    \* MAX_REQUESTS
    Ids,            \* the uuids reviews get, in their order
    Seed,           \* creates that were served before: a function to their bodies
    MaxClock, MaxEvents     \* bounds: the clock; restarts and removed products

ReviewBody == [op : {"create", "walk", "reply"}, user : Clients, product : Products,
               limit : Nat \ {0}]
Review == [at : Nat, id : Ids, reply : ReviewRequests \cup {None}]
Cursor == [ms : Nat, id : Ids]

Seeded == DOMAIN Seed

ASSUME ReviewsAssumption ==
    /\ IsFiniteSet(ReviewRequests)
    /\ ReviewBodies \subseteq ReviewBody /\ ReviewBodies # {}
    /\ Seeded \subseteq ReviewRequests
    /\ \A s \in Seeded : Seed[s] \in ReviewBody /\ Seed[s].op = "create"
    /\ None \notin ReviewRequests \cup Review \cup Cursor \cup Nat
    /\ {Micros, Window, MaxRequests} \subseteq Nat \ {0}
    /\ Ids \subseteq Nat /\ MaxClock \in Nat /\ MaxEvents \in Nat

VARIABLES
    clock, restarts,
    products,           \* rows of products
    reviews,            \* committed rows, by request
    repliesTold,               \* review_reply notifications, by review
    hits,               \* RateLimitGuard.hits: who pushed a time, and the time
    reviewReq, reviewPc, reviewAnswer,
    stamp,              \* now() of the transaction of a create
    target, first,      \* of a reply: the review it read, and isFirstReply
    cursor, seen,       \* of a walk: where it is, and the reviews it was given
    before,             \* history: reviews its product had when a walk began
    admitted,           \* history: when the guard let a create pass
    promised,           \* history: when a refused user was first told to come back
    edit,               \* history: replies received after one was stored
    cut                 \* history: reviews whose first reply a crash cut off

rows == <<products, reviews, repliesTold>>
handler == <<reviewReq, reviewPc, reviewAnswer, stamp, target, first, cursor, seen>>
recalled == <<before, admitted, promised, edit, cut>>
reviewVars == <<clock, restarts, rows, hits, handler, recalled>>

Ms(t) == t \div Micros

\* A (user, product) pair is the key of the guard and of the unique constraint.
Key(b) == <<b.user, b.product>>
Pairs == Clients \X Products

ReviewsInit ==
    /\ clock = 0 /\ restarts = 0
    /\ products = Products
    /\ \E id \in Injection(Seeded, Ids) :
          reviews = [r \in ReviewRequests |->
              IF r \in Seeded THEN [at |-> 0, id |-> id[r], reply |-> None] ELSE None]
    /\ repliesTold = [r \in ReviewRequests |-> 0]
    /\ hits = [k \in Pairs |-> {}]
    /\ reviewReq = [r \in ReviewRequests |->
                      IF r \in Seeded THEN Seed[r] ELSE CHOOSE b \in ReviewBodies : TRUE]
    /\ reviewPc = [r \in ReviewRequests |-> IF r \in Seeded THEN "done" ELSE "idle"]
    /\ reviewAnswer = [r \in ReviewRequests |-> IF r \in Seeded THEN "created" ELSE "none"]
    /\ stamp = [r \in ReviewRequests |-> 0]
    /\ target = [r \in ReviewRequests |-> None]
    /\ first = [r \in ReviewRequests |-> FALSE]
    /\ cursor = [r \in ReviewRequests |-> None]
    /\ seen = [r \in ReviewRequests |-> <<>>]
    /\ before = [r \in ReviewRequests |-> {}]
    /\ admitted = [r \in ReviewRequests |-> None]
    /\ promised = [k \in Pairs |-> None]
    /\ edit = {} /\ cut = {}

MoveTo(r, to) == reviewPc' = [reviewPc EXCEPT ![r] = to] /\ UNCHANGED reviewAnswer
AnswerWith(r, a) == /\ reviewPc' = [reviewPc EXCEPT ![r] = "done"]
                    /\ reviewAnswer' = [reviewAnswer EXCEPT ![r] = a]

\* The review that create request c committed is of product p.
ReviewOf(c, p) == reviews[c] # None /\ reviewReq[c].product = p

Take(r, b) ==
    /\ reviewPc[r] = "idle"
    /\ reviewReq' = [reviewReq EXCEPT ![r] = b]
    /\ UNCHANGED <<clock, restarts, rows, stamp, first, cursor, seen, cut>>

------------------------------------------------------------------------------
(***************************************************************************)
(* POST /products/:productId/reviews.                                      *)
(***************************************************************************)
\* Mutant: a hit expires a millisecond late.
RecentToo(k) == {hit \in hits[k] : Ms(clock) - hit.at <= Window}

Recent(k) == {hit \in hits[k] : Ms(clock) - hit.at < Window}

IsFull(recent) == Cardinality(recent) >= MaxRequests

\* RateLimitGuard.canActivate, in one synchronous step.  What is left of a window of one
\* second, rounded up to seconds, is one second: Retry-After is a whole window.
Guard(r) ==
    \E b \in ReviewBodies :
        LET recent == Recent(Key(b))
            full == IsFull(recent)
        IN  /\ b.op = "create"
            /\ Take(r, b)
            /\ IF full
               THEN /\ AnswerWith(r, "tooMany")
                    /\ promised' = [promised EXCEPT ![Key(b)] =
                                      IF @ = None THEN Ms(clock) + Window ELSE @]
                    /\ UNCHANGED <<hits, admitted>>
               ELSE /\ MoveTo(r, "find")
                    /\ hits' = [hits EXCEPT ![Key(b)] =
                                  recent \cup {[by |-> r, at |-> Ms(clock)]}]
                    /\ promised' = [promised EXCEPT ![Key(b)] = None]
                    /\ admitted' = [admitted EXCEPT ![r] = Ms(clock)]
            /\ UNCHANGED <<target, before, edit>>

\* products.findOne, for a create and for every page.
FindProduct(r) ==
    /\ reviewPc[r] = "find"
    /\ CASE reviewReq[r].product \notin products -> AnswerWith(r, "notFound")
         [] reviewReq[r].op = "create" -> MoveTo(r, "begin")
         [] OTHER -> MoveTo(r, "page")
    /\ UNCHANGED <<clock, restarts, rows, hits, reviewReq, stamp, target, first,
                   cursor, seen, recalled>>

\* save opens its transaction, whose now() will be created_at.
Begin(r) ==
    /\ reviewPc[r] = "begin"
    /\ stamp' = [stamp EXCEPT ![r] = clock]
    /\ MoveTo(r, "insert")
    /\ UNCHANGED <<clock, restarts, rows, hits, reviewReq, target, first, cursor,
                   seen, recalled>>

\* INSERT and COMMIT.  One that waits for an uncommitted review of the same user fails
\* when that one commits, so it may as well come after it.  The id is a random uuid.
Insert(r) ==
    LET taken == \E c \in ReviewRequests :
                    reviews[c] # None /\ Key(reviewReq[c]) = Key(reviewReq[r])
    IN  /\ reviewPc[r] = "insert"
        /\ IF reviewReq[r].product \notin products \/ taken
           THEN /\ AnswerWith(r, IF reviewReq[r].product \notin products THEN "error"
                                                                     ELSE "conflict")
                /\ UNCHANGED reviews
           ELSE /\ \E id \in Ids :
                      /\ \A c \in ReviewRequests : reviews[c] # None => reviews[c].id # id
                      /\ reviews' = [reviews EXCEPT ![r] =
                                       [at |-> stamp[r], id |-> id, reply |-> None]]
                /\ AnswerWith(r, "created")
        /\ stamp' = [stamp EXCEPT ![r] = 0]
        /\ UNCHANGED <<clock, restarts, products, repliesTold, hits, reviewReq, target, first,
                       cursor, seen, recalled>>

------------------------------------------------------------------------------
(***************************************************************************)
(* GET /products/:productId/reviews, page after page as a client follows   *)
(* nextCursor to the end (tests/helpers/walk-review-cursor.ts).            *)
(***************************************************************************)
Walk(r) ==
    \E b \in ReviewBodies :
        /\ b.op = "walk"
        /\ Take(r, b)
        /\ before' = [before EXCEPT ![r] = {c \in ReviewRequests : ReviewOf(c, b.product)}]
        /\ MoveTo(r, "find")
        /\ UNCHANGED <<hits, target, admitted, promised, edit>>

\* ORDER BY created_at, id.
Precedes(a, b) ==
    \/ reviews[a].at < reviews[b].at
    \/ reviews[a].at = reviews[b].at /\ reviews[a].id < reviews[b].id

IdPast(c, after) == reviews[c].id > after.id

\* WHERE product_id = p AND (ms > c.ms) OR (ms = c.ms AND id > c.id): andWhere adds its
\* string without parentheses of its own, and AND binds closer than OR.
Selected(p, after) ==
    {c \in ReviewRequests :
        /\ reviews[c] # None
        /\ \/ reviewReq[c].product = p /\ (after = None \/ Ms(reviews[c].at) > after.ms)
           \/ after # None /\ Ms(reviews[c].at) = after.ms /\ IdPast(c, after)}

\* The rows in the query's order.
InOrder(found) == \A i, j \in DOMAIN found : i < j => Precedes(found[i], found[j])
Answers(p, after) == {found \in SetToSeqs(Selected(p, after)) : InOrder(found)}

\* Mutant: the cursor is taken from the row read ahead.
LastRead(found, limit) == found[limit + 1]
LastGiven(found, limit) == found[limit]

\* findPageForProduct's query and the answer; with a cursor the client asks again.
Page(r) ==
    \E found \in Answers(reviewReq[r].product, cursor[r]) :
        LET limit == reviewReq[r].limit
            last == reviews[LastGiven(found, limit)]
        IN  /\ reviewPc[r] = "page"
            /\ IF Len(found) > limit
               THEN /\ seen' = [seen EXCEPT ![r] = @ \o SubSeq(found, 1, limit)]
                    /\ cursor' = [cursor EXCEPT ![r] = [ms |-> Ms(last.at), id |-> last.id]]
                    /\ MoveTo(r, "find")
               ELSE /\ seen' = [seen EXCEPT ![r] = @ \o found]
                    /\ AnswerWith(r, "ok")
                    /\ cursor' = [cursor EXCEPT ![r] = None]
            /\ UNCHANGED <<clock, restarts, rows, hits, reviewReq, stamp, target,
                           first, recalled>>

------------------------------------------------------------------------------
(***************************************************************************)
(* POST /reviews/:id/reply.                                                *)
(***************************************************************************)
Reply(r) ==
    \E b \in ReviewBodies, c \in {c \in ReviewRequests : reviews[c] # None} :
        /\ b.op = "reply"
        /\ Take(r, b)
        /\ target' = [target EXCEPT ![r] = c]
        /\ edit' = IF reviews[c].reply # None THEN edit \cup {r} ELSE edit
        /\ MoveTo(r, "findReview")
        /\ UNCHANGED <<hits, before, admitted, promised>>

\* Mutant: every reply is a first one.
AlwaysFirst(review) == TRUE
IsFirstReply(review) == review.reply = None

FindReview(r) ==
    /\ reviewPc[r] = "findReview"
    /\ IF reviews[target[r]] = None
       THEN AnswerWith(r, "notFound") /\ UNCHANGED first
       ELSE /\ first' = [first EXCEPT ![r] = IsFirstReply(reviews[target[r]])]
            /\ MoveTo(r, "select")
    /\ UNCHANGED <<clock, restarts, rows, hits, reviewReq, stamp, target, cursor,
                   seen, recalled>>

\* save looks for the row: one that went with its product would be inserted again,
\* which the foreign key refuses.
SelectReview(r) ==
    /\ reviewPc[r] = "select"
    /\ IF reviews[target[r]] = None THEN AnswerWith(r, "error") ELSE MoveTo(r, "update")
    /\ UNCHANGED <<clock, restarts, rows, hits, reviewReq, stamp, target, first,
                   cursor, seen, recalled>>

\* save's UPDATE, which does not mind finding no row.
UpdateReview(r) ==
    /\ reviewPc[r] = "update"
    /\ reviews' = [c \in ReviewRequests |->
          IF c = target[r] /\ reviews[c] # None
          THEN [reviews[c] EXCEPT !.reply = r] ELSE reviews[c]]
    /\ IF first[r] THEN MoveTo(r, "notify") ELSE AnswerWith(r, "ok")
    /\ UNCHANGED <<clock, restarts, products, repliesTold, hits, reviewReq, stamp,
                   target, first, cursor, seen, recalled>>

Notify(r) ==
    /\ reviewPc[r] = "notify"
    /\ repliesTold' = [repliesTold EXCEPT ![target[r]] = @ + 1]
    /\ AnswerWith(r, "ok")
    /\ UNCHANGED <<clock, restarts, products, reviews, hits, reviewReq, stamp,
                   target, first, cursor, seen, recalled>>

Handle(r) ==
    \/ Guard(r) \/ FindProduct(r) \/ Begin(r) \/ Insert(r)
    \/ Walk(r) \/ Page(r)
    \/ Reply(r) \/ FindReview(r) \/ SelectReview(r) \/ UpdateReview(r) \/ Notify(r)

------------------------------------------------------------------------------
(***************************************************************************)
(* The environment.                                                        *)
(***************************************************************************)
EventLeft == restarts + Cardinality(Products \ products) < MaxEvents

Tick ==
    /\ clock < MaxClock
    /\ clock' = clock + 1
    /\ UNCHANGED <<restarts, rows, hits, handler, recalled>>

\* ProductsService.remove of a product nobody ordered: its reviews go with it.
RemoveProduct(p) ==
    /\ p \in products /\ EventLeft
    /\ products' = products \ {p}
    /\ reviews' = [c \in ReviewRequests |-> IF ReviewOf(c, p) THEN None ELSE reviews[c]]
    /\ UNCHANGED <<clock, restarts, repliesTold, hits, handler, recalled>>

\* The process restarts: requests are cut off and the guard's Map is empty.
Restart ==
    /\ EventLeft
    /\ restarts' = restarts + 1
    /\ hits' = [k \in Pairs |-> {}]
    /\ reviewPc' = [r \in ReviewRequests |-> IF reviewPc[r] = "idle" THEN "idle" ELSE "done"]
    /\ cut' = cut \cup {target[r] : r \in {r \in ReviewRequests : reviewPc[r] = "notify"}}
    /\ admitted' = [r \in ReviewRequests |-> None]
    /\ promised' = [k \in Pairs |-> None]
    /\ UNCHANGED <<clock, rows, reviewReq, reviewAnswer, stamp, target, first,
                   cursor, seen, before, edit>>

ReviewsNext ==
    \/ \E r \in ReviewRequests : Handle(r)
    \/ Tick
    \/ \E p \in Products : RemoveProduct(p)
    \/ Restart

ReviewsSpec == ReviewsInit /\ [][ReviewsNext]_reviewVars

------------------------------------------------------------------------------
(***************************************************************************)
(* Properties.                                                             *)
(***************************************************************************)
\* Every variable has its type.
ReviewsTypeOK ==
    /\ clock \in 0..MaxClock /\ restarts \in 0..MaxEvents
    /\ products \subseteq Products
    /\ \A r \in ReviewRequests :
          reviews[r] # None => reviews[r] \in Review /\ reviews[r].at <= clock
    /\ repliesTold \in [ReviewRequests -> Nat]
    /\ \A k \in Pairs : hits[k] \subseteq [by : ReviewRequests, at : 0..Ms(clock)]
    /\ reviewReq \in [ReviewRequests -> ReviewBody]
    /\ reviewPc \in [ReviewRequests ->
                        {"idle", "find", "begin", "insert", "page", "findReview",
                         "select", "update", "notify", "done"}]
    /\ reviewAnswer \in [ReviewRequests ->
                            {"none", "tooMany", "notFound", "created", "conflict",
                                "error", "ok"}]
    /\ first \in [ReviewRequests -> BOOLEAN]
    /\ \A r \in ReviewRequests : cursor[r] \in Cursor \cup {None}
    /\ seen \in [ReviewRequests -> Seq(ReviewRequests)]

\* In no window of the limiter does a user have more than MAX_REQUESTS creates of one
\* product let through, whatever was refused in between; a restart forgets.
RateBound ==
    \A r \in ReviewRequests :
        admitted[r] # None =>
            Cardinality({s \in ReviewRequests :
                /\ admitted[s] # None /\ Key(reviewReq[s]) = Key(reviewReq[r])
                /\ admitted[s] \in admitted[r]..(admitted[r] + Window - 1)}) <= MaxRequests

\* Retry-After is honest: a user who was refused and not let through since is not refused
\* again at the time first given, however often they came too early.
RetryAfterSuffices ==
    [][ \A r \in ReviewRequests :
            reviewAnswer'[r] = "tooMany" /\ reviewAnswer[r] = "none" =>
                LET k == Key(reviewReq'[r])
                IN  promised[k] # None => Ms(clock) < promised[k] ]_reviewVars

Times(c, s) == Cardinality({i \in DOMAIN s : s[i] = c})
Walks == {r \in ReviewRequests : reviewReq[r].op = "walk" /\ reviewAnswer[r] = "ok"}
SameMs(a, b) == Ms(reviews[a].at) = Ms(reviews[b].at)

\* "Keeps it exact", "stable even when two reviews land in the same instant": a walk
\* returns every review its product had from the start once, and none of another.
\* The code breaks this: it sorts by microseconds and resumes by milliseconds.
WalkIsExact ==
    \A r \in Walks :
        /\ \A c \in before[r] : reviews[c] # None => Times(c, seen[r]) = 1
        /\ \A i \in DOMAIN seen[r] : reviewReq[seen[r][i]].product = reviewReq[r].product

\* What does hold with inserts, removals and commits out of order in between: a review
\* alone in its millisecond is returned once.
ExactApart ==
    \A r \in Walks : \A c \in before[r] :
        /\ reviews[c] # None
        /\ \A d \in ReviewRequests :
              d # c /\ ReviewOf(d, reviewReq[r].product) => ~SameMs(c, d)
        => Times(c, seen[r]) = 1

\* A walk strays to another product only within a millisecond of its own reviews.
StraysWithinMs ==
    \A r \in Walks : \A i \in DOMAIN seen[r] :
        LET c == seen[r][i] IN
        /\ reviews[c] # None
        /\ \A d \in ToSet(seen[r]) : reviews[d] # None
        => \/ reviewReq[c].product = reviewReq[r].product
           \/ \E j \in 1..(i-1) : SameMs(c, seen[r][j])

\* A walk gets further with each page, so it ends: with rows of one millisecond in any
\* order of their ids, or committed behind the cursor, it never turns back.
CursorAdvances ==
    [][ \A r \in ReviewRequests :
            reviewPc[r] = "page" /\ reviewPc'[r] = "find" /\ cursor[r] # None =>
                LET old == cursor[r]  new == cursor'[r] IN
                \/ old.ms < new.ms
                \/ old.ms = new.ms /\ old.id < new.id ]_reviewVars

\* The author of a review that has a reply was told, is being told, or the process died
\* at that very point; a retry then finds the reply and stays silent.
AuthorIsTold ==
    \A c \in ReviewRequests :
        reviews[c] # None /\ reviews[c].reply # None =>
            \/ repliesTold[c] > 0
            \/ \E r \in ReviewRequests : target[r] = c /\ reviewPc[r] = "notify"
            \/ c \in cut

\* "Only the first reply notifies the author": true of replies one after the other; the
\* author is told more than once only by replies that were received before any was stored.
EditsAreSilent ==
    \A c \in ReviewRequests :
        repliesTold[c] <= Cardinality({r \in ReviewRequests \ edit : target[r] = c})

\* The limiter lets through no more than it should, and refuses no longer than it says.
LimiterIsHonest == []RateBound /\ RetryAfterSuffices

\* A walk by cursor returns each review apart from others once, and ends.
WalkIsSound == [](ExactApart /\ StraysWithinMs) /\ CursorAdvances

\* A first reply is told, and only first replies are.
FirstReplyIsTold == AuthorIsTold /\ EditsAreSilent
=============================================================================
