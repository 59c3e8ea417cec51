------------------------- MODULE LeaderboardServing -------------------------
(***************************************************************************)
(* How one whole leaderboard answer reaches its readers: the route and      *)
(* servePointsLeaderboard of frontend/src/lib/pointsLeaderboard.server.ts   *)
(* behind a CDN that obeys the route's cache headers.  A board is known     *)
(* only by its age, in ticks since its load ended; ages stop counting at    *)
(* Forgotten, past which no comparison of the code changes.                 *)
(***************************************************************************)
EXTENDS Integers, FiniteSets

CONSTANTS Clients,
          Fresh, StaleIfError,         \* ANSWER_FRESH_MS, ANSWER_STALE_IF_ERROR_MS
          EdgeFresh, EdgeSwr,          \* s-maxage and stale-while-revalidate of a fresh answer
          EdgeStale                    \* s-maxage of a stand-in answer

DurationsOK ==
    /\ {Fresh, StaleIfError, EdgeFresh, EdgeSwr, EdgeStale} \subseteq Nat \ {0}
    /\ Fresh <= StaleIfError

Forgotten == StaleIfError + EdgeStale + Fresh + EdgeFresh + EdgeSwr
Older(age) == IF age < Forgotten THEN age + 1 ELSE Forgotten
NoBoard == Forgotten + 1                     \* "there is none"
Ages == 0 .. NoBoard

VARIABLES last,      \* lastAnswer: ticks since it was stored (`at`) and the age of its board
          inFlight,  \* answerInFlight: a load is running
          waiting,   \* clients awaiting it, the CDN's own revalidation among them
          edge,      \* the CDN's entry: age of its board, ticks left fresh, ticks left stale
          outcome    \* what each client was last answered

vars == <<last, inFlight, waiting, edge, outcome>>

Revalidation == "revalidation"               \* the CDN refreshing a stale entry
Readers == Clients \union {Revalidation}

NoAnswer == [at |-> NoBoard, age |-> NoBoard]
EmptyEdge == [age |-> NoBoard, fresh |-> 0, swr |-> 0]
Nothing == [kind |-> "none", age |-> NoBoard]

AtRest ==
    /\ last = NoAnswer /\ inFlight = FALSE /\ waiting = {} /\ edge = EmptyEdge
    /\ outcome = [c \in Clients |-> Nothing]

Init == AtRest

Say(askers, answer) == [c \in Clients |-> IF c \in askers THEN answer ELSE outcome[c]]

\* The CDN keeps an answer as its cache-control header says; errors are "no-store".
Keep(age, fresh, swr) == [age |-> age, fresh |-> fresh, swr |-> swr]

Reusable == last.at < Fresh
StandIn == last.at < StaleIfError

\* A load that fails leaves the stored answer as it is, its time of storage included.
Restamped == IF StandIn THEN [last EXCEPT !.at = 0] ELSE last              \* mutant
AfterFailure == last

\* Everyone who awaited the load resumes when it settles.
FirstSharer == {CHOOSE c \in waiting : TRUE}                               \* mutant
Sharers == waiting

\* servePointsLeaderboard: reuse a fresh answer, else share the load in flight or start one.
Serve(c) ==
    IF Reusable
    THEN /\ outcome' = Say({c}, [kind |-> "board", age |-> last.age])
         /\ edge' = Keep(last.age, EdgeFresh, EdgeSwr)
         /\ UNCHANGED <<last, inFlight, waiting>>
    ELSE /\ inFlight' = TRUE
         /\ waiting' = waiting \union {c}
         /\ UNCHANGED <<last, edge, outcome>>

\* A reader whose answer the CDN does not hold reaches the route; so does the
\* CDN's revalidation of an entry past its freshness.
Request(c) == /\ c \notin waiting /\ edge.fresh = 0 /\ edge.swr = 0 /\ Serve(c)

FromEdge(c) ==
    /\ c \notin waiting /\ edge.fresh > 0
    /\ outcome' = Say({c}, [kind |-> "board", age |-> edge.age])
    /\ UNCHANGED <<last, inFlight, waiting, edge>>

FromEdgeStale(c) ==
    /\ c \notin waiting /\ edge.fresh = 0 /\ edge.swr > 0
    /\ outcome' = Say({c}, [kind |-> "board", age |-> edge.age])
    /\ UNCHANGED <<last, inFlight, waiting, edge>>

Revalidate ==
    /\ Revalidation \notin waiting /\ edge.fresh = 0 /\ edge.swr > 0
    /\ Serve(Revalidation)

\* A query string is refused before anything is loaded.
RefuseParameters(c) ==
    /\ c \notin waiting
    /\ outcome' = Say({c}, [kind |-> "400", age |-> NoBoard])
    /\ UNCHANGED <<last, inFlight, waiting, edge>>

\* The load ends with a whole answer: every sharer resumes and stores it.
LoadSucceeds ==
    /\ inFlight
    /\ last' = [at |-> 0, age |-> 0] /\ inFlight' = FALSE /\ waiting' = waiting \ Sharers
    /\ outcome' = Say(Sharers, [kind |-> "board", age |-> 0])
    /\ edge' = Keep(0, EdgeFresh, EdgeSwr)

\* A build with the leaderboard off answers "disabled", which is never stored as a board.
\* (IS_MAINNET is fixed at build time, so no board was stored before.)
LoadDisabled ==
    /\ inFlight /\ last = NoAnswer
    /\ inFlight' = FALSE /\ waiting' = waiting \ Sharers
    /\ outcome' = Say(Sharers, [kind |-> "disabled", age |-> NoBoard])
    /\ UNCHANGED <<last, edge>>

\* The load fails: the last whole answer stands in while it is young enough, marked
\* stale; otherwise 503 while the loader catches up and 502 for anything else.
LoadFails(status) ==
    /\ inFlight
    /\ inFlight' = FALSE /\ waiting' = waiting \ Sharers /\ last' = AfterFailure
    /\ IF StandIn
       THEN /\ outcome' = Say(Sharers, [kind |-> "stale", age |-> last.age])
            /\ edge' = Keep(last.age, EdgeStale, 0)
       ELSE /\ outcome' = Say(Sharers, [kind |-> status, age |-> NoBoard])
            /\ UNCHANGED edge

Tick ==
    /\ last' = IF last = NoAnswer THEN NoAnswer ELSE [at |-> Older(last.at), age |-> Older(last.age)]
    /\ edge' = IF edge.fresh + edge.swr = 0 THEN EmptyEdge
               ELSE [age   |-> Older(edge.age),
                     fresh |-> IF edge.fresh > 0 THEN edge.fresh - 1 ELSE 0,
                     swr   |-> IF edge.fresh > 0 THEN edge.swr ELSE edge.swr - 1]
    /\ outcome' = [c \in Clients |-> Nothing]
    /\ UNCHANGED <<inFlight, waiting>>

Next ==
    \/ \E c \in Clients : Request(c) \/ FromEdge(c) \/ FromEdgeStale(c) \/ RefuseParameters(c)
    \/ Revalidate
    \/ LoadSucceeds \/ LoadDisabled \/ \E status \in {"502", "503"} : LoadFails(status)
    \/ Tick

Spec == Init /\ [][Next]_vars

LoadEnds == LoadSucceeds \/ LoadDisabled \/ \E status \in {"502", "503"} : LoadFails(status)

\* Every load ends (all its requests carry timeouts) and time passes.
FairSpec == Spec /\ WF_vars(LoadEnds) /\ WF_vars(Tick)

(* ------------------------------ properties ------------------------------ *)

TypeOK ==
    /\ last \in [at : Ages, age : Ages] /\ inFlight \in BOOLEAN /\ waiting \subseteq Readers
    /\ edge \in [age : Ages, fresh : 0 .. EdgeFresh + EdgeStale, swr : 0 .. EdgeSwr]
    /\ \A c \in Clients : outcome[c].age \in Ages

\* However often an answer is reused, stands in for a failing loader or is kept by
\* the CDN, and in whatever order, no reader sees a board older than the two
\* budgets the code states: reused and then cached, or standing in and then cached.
Longest == LET reused == (Fresh - 1) + EdgeFresh + EdgeSwr
               standin == (StaleIfError - 1) + EdgeStale
           IN  IF reused > standin THEN reused ELSE standin
VisibleAgeBounded ==
    \A c \in Clients : outcome[c].kind \in {"board", "stale"} => outcome[c].age < Longest

\* Whoever awaits a load is answered: however it ends, nobody is left waiting.
EveryoneAnswered == waiting # {} ~> waiting = {}
=============================================================================
