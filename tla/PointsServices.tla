--------------------------- MODULE PointsServices ---------------------------
(***************************************************************************)
(* The points services of the frontend's server, each a process of its own  *)
(* over the same chain and RPC provider: the leaderboard's participant      *)
(* discovery, the mirror of Morpho collateral points, the ranking of the    *)
(* board and the serving of it.  They share no state (the leaderboard asks  *)
(* the mirror as one more requester), so a behaviour follows one of them;   *)
(* the chain's head, the backoff, the promise queue and the provider's      *)
(* faults are the same variables in each.                                   *)
(***************************************************************************)
EXTENDS Integers, Sequences, FiniteSets

CONSTANTS
    Services,                      \* those this instance follows
    Loads, Requests,               \* concurrent loads of the board, requests of the mirror
    Deployment, Tip, Budget, Backoff, MaxShort,
    Wallets, Named, Held, LogChunk, LogLimit, MaxSplits, MaxParticipants, MaxDrops,
    Owners, Asker, Board, From, Changes, RateOf, Chunk, ZeroGrid, MaxChunks, MaxLag, MaxGen,
    RankWallets, Venues, RankFloor, EarnsBy, MaxPoints, MaxRows, Settings,
    Clients, Fresh, StaleIfError, EdgeFresh, EdgeSwr, EdgeStale

VARIABLES
    service,
    head, backoff, queue, short, outage,                 \* shared
    disc, load, served,                                  \* LeaderboardDiscovery
    objs, current, inflight, req, answer, blunder,       \* MorphoHistory
    credit, blocked, setting,                            \* LeaderboardRanking
    last, inFlight, waiting, edge, outcome               \* LeaderboardServing

discovery == INSTANCE LeaderboardDiscovery
mirror    == INSTANCE MorphoHistory
ranking   == INSTANCE LeaderboardRanking WITH Wallets <- RankWallets
serving   == INSTANCE LeaderboardServing

ASSUME ServicesOK ==
    /\ Services \subseteq {"discovery", "mirror", "ranking", "serving"}
    /\ discovery!ConstantsOK /\ mirror!HistoryOK /\ ranking!RankingOK /\ serving!DurationsOK

chainVars     == <<head, backoff, queue, short, outage>>
discoveryVars == <<disc, load, served>>
mirrorVars    == <<objs, current, inflight, req, answer, blunder>>
rankingVars   == <<credit, blocked, setting>>
servingVars   == <<last, inFlight, waiting, edge, outcome>>
vars == <<service, chainVars, discoveryVars, mirrorVars, rankingVars, servingVars>>

ChainAt(block) == head = block /\ backoff = 0 /\ queue = <<>> /\ short = 0 /\ outage = TRUE

Init ==
    /\ service \in Services
    /\ IF service = "discovery" THEN discovery!Init ELSE discovery!AtRest
    /\ IF service = "mirror" THEN mirror!Init ELSE mirror!AtRest
    /\ service \in {"ranking", "serving"} => ChainAt(Deployment - 1)
    /\ IF service = "ranking" THEN ranking!Init ELSE ranking!AtRest
    /\ serving!Init

DiscoveryStep ==
    /\ service = "discovery" /\ discovery!Next
    /\ UNCHANGED <<service, mirrorVars, rankingVars, servingVars>>
MirrorStep ==
    /\ service = "mirror" /\ mirror!Next
    /\ UNCHANGED <<service, discoveryVars, rankingVars, servingVars>>
RankingStep ==
    /\ service = "ranking" /\ ranking!Next
    /\ UNCHANGED <<service, chainVars, discoveryVars, mirrorVars, servingVars>>
ServingStep ==
    /\ service = "serving" /\ serving!Next
    /\ UNCHANGED <<service, chainVars, discoveryVars, mirrorVars, rankingVars>>

Next == DiscoveryStep \/ MirrorStep \/ RankingStep \/ ServingStep

Spec == Init /\ [][Next]_vars

\* Each service under its own fairness: requests and time go on, outages end, loads end.
FairOutageEnds ==
    /\ service \in {"discovery", "mirror"} /\ outage /\ outage' = FALSE
    /\ UNCHANGED <<service, head, backoff, queue, short, discoveryVars, mirrorVars, rankingVars, servingVars>>
OfDiscovery(A) == service = "discovery" /\ A /\ UNCHANGED <<service, outage, mirrorVars, rankingVars, servingVars>>
OfMirror(A)    == service = "mirror" /\ A /\ UNCHANGED <<service, outage, discoveryVars, rankingVars, servingVars>>
OfServing(A)   == service = "serving" /\ A /\ UNCHANGED <<service, chainVars, discoveryVars, mirrorVars, rankingVars>>

FairSpec ==
    /\ Init /\ [][Next \/ FairOutageEnds]_vars /\ WF_vars(FairOutageEnds)
    /\ WF_vars(OfDiscovery(discovery!Finalize)) /\ WF_vars(OfDiscovery(discovery!Tick))
    /\ WF_vars(OfMirror(mirror!Finalize)) /\ WF_vars(OfMirror(mirror!Tick))
    /\ WF_vars(OfServing(serving!LoadEnds)) /\ WF_vars(OfServing(serving!Tick))
    /\ \A r \in Loads : WF_vars(OfDiscovery(discovery!Progress(r)))
    /\ \A r \in Requests : WF_vars(OfMirror(mirror!Progress(r)))

(* ------------------------------ properties ------------------------------ *)

\* Unless an answer was silently shortened, a board also carries every wallet that has
\* exited: a cap, a refusal, a split or an outage never loses one (blockLogs, logsIn).
NoOneMissed == discovery!NoOneMissed

\* Both scans implement a progressive index: what the discovery, the epochs and the collateral
\* events say they have scanned they have, and no build undoes the progress of another.
ScansAreProgressive == discovery!ImplementsIndex /\ mirror!ImplementsIndex

\* No answer of the mirror credits more than was earned, although the provider may have
\* left logs of a position or of a rate cut out of an answer (extendCollateral, extendEpochs).
NeverOverAwards == mirror!NeverOverAwards

\* A provider that only fails, lags or answers late never makes an answer of the mirror wrong.
ExactWhenHonest == mirror!ExactWhenHonest

\* Within one history the mirror's snapshots never go back, whichever node answered the
\* head and in whatever order builds queue (snapshotAt, buildSnapshot).
SnapshotsAdvance == mirror!SnapshotsAdvance

\* A proof that fails on an old discovery, or a check made on an old snapshot, never costs the
\* discovery or the history that has replaced it (loadPointsLeaderboard, dropHistory).
NewerSurvives == discovery!NewerSurvives /\ mirror!NewerSurvives

\* The board adds up: every credited point is on exactly one line, so the ranks, Forest
\* Road's line, the venues and the wallets left out make the whole (rankLeaderboard).
NothingLost == ranking!NothingLost

\* The two deployments agree: whatever the loader serves passes the relay's validation, and
\* a board whose rows were dropped or whose points were changed does not (validBoard).
RelayAgrees == ranking!RelayAgrees

\* However an answer is reused, stands in for a failing loader or is kept by the CDN of its
\* own route, no reader of /api/points/leaderboard sees a board older than the budgets of the
\* code together (servePointsLeaderboard). The caches of the relay that reads it are not here.
VisibleAgeBounded == serving!VisibleAgeBounded

\* Every reader whose request awaits a load is answered when the load settles, however it does.
EveryoneAnswered == serving!EveryoneAnswered

\* A cold process converges to the newest finalized block although each request is too short
\* to index the chain and a wrong answer spoils a scan (REQUEST_BUDGET_MS, REBUILD_BACKOFF_MS).
Converges == <>(/\ service = "discovery" => discovery!Converged
                /\ service = "mirror" => mirror!Converged)
=============================================================================
