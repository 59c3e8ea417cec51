---------------------------- MODULE PointsPages ----------------------------
(***************************************************************************)
(* The points page in the browser: the leaderboard (PointsLeaderboard.tsx), *)
(* the ledger's figures and the Morpho card (PointsDashboard.tsx), and the  *)
(* Pendle card (PendlePointsCard.tsx) with the answer it gets through       *)
(* pendlePoints.server.ts.  A behaviour follows one of the four, with its   *)
(* query cache, while wallets, networks and blocks change under it.         *)
(*                                                                         *)
(* An answer may be of any block up to now, which stands for every cache    *)
(* between the chain and the browser.  An amount is in the unit the points  *)
(* site rounds to.  What the leaderboard's server answers is taken as its   *)
(* ranking: LeaderboardRanking models how it comes to it.                   *)
(***************************************************************************)
EXTENDS Integers, Sequences, FiniteSets, SequencesExt, FiniteSetsExt

CONSTANTS Members, Visitors,     \* wallets that earn points, and those that look at the page
          Movers,                \* those of whom something changes
          CapitalClasses, MayFail, \* of first-loss capital, and the reads of the ledger that may fail
          Grain, OnePoint,       \* what is earned at a time, and the least that is ranked
          ListCap, RowStep,      \* rows the server lists, and those "Show more" adds
          DefaultRetries,
          MaxBlocks, MaxAsked    \* bounds: blocks, requests

VARIABLES card, mainnet,         \* the query followed, and the build it runs in
          visitor, rightNetwork, \* the wallet
          blocks,                \* the chain, with what the points site credits at each block
          cache,                 \* the answers by query key
          rowsShown,             \* of the leaderboard
          asked

pointsVars == <<card, mainnet, visitor, rightNetwork, blocks, cache, rowsShown, asked>>

Nobody == 0
Everyone == 0

MembersOK ==
    /\ IsFiniteSet(Members) /\ Members \subseteq Nat \ {Nobody} /\ Visitors \union Movers \subseteq Members
    /\ IsFiniteSet(CapitalClasses)
    /\ {Grain, OnePoint, ListCap} \subseteq Nat
    /\ RowStep \in Nat \ {0}

Cards == {"board", "ledger", "pendle", "morpho"}
Failures == {"unreached", "refused", "catchingUp"}
Off == [enabled |-> FALSE]
NotAsked == [data |-> <<>>, failure |-> "none", failures |-> 0, flying |-> FALSE]

(* -------------------- what the chain and the sources hold -------------------- *)

Genesis ==
    [points |-> [w \in Members |-> [source \in {"onchain", "pendle", "morpho"} |-> IF w = 1 THEN Grain ELSE 2 * Grain]],
     status |-> [w \in Members |-> "none"],
     dropped |-> {}, frozen |-> {}, pendle |-> TRUE, morpho |-> TRUE]

Excluded == {"protocol-exempt", "jurisdiction-blocked"}
Earning(w, n) == blocks[n].status[w] = "none"
Credited(w, source, n) == IF Earning(w, n) THEN blocks[n].points[w][source] ELSE 0
Capital(w, class) == 10 * w + class

\* The next block: somebody earned, a status changed, an update of the ledger was dropped, a class
\* was frozen, a venue was switched on or off.
Later(b) ==
    {[b EXCEPT !.points[w][source] = @ + Grain] : w \in Movers, source \in {"onchain", "pendle", "morpho"}}
    \union {[b EXCEPT !.status[w] = standing] : w \in Movers, standing \in Excluded \union {"none"}}
    \union {[b EXCEPT !.dropped = @ \union {w}] : w \in Movers}
    \union {[b EXCEPT !.frozen = @ \union {<<w, class>>}] : w \in Movers, class \in CapitalClasses}
    \union {[b EXCEPT !.pendle = ~@], [b EXCEPT !.morpho = ~@]}

Mine ==
    /\ Len(blocks) < MaxBlocks
    /\ \E b \in Later(Last(blocks)) : blocks' = Append(blocks, b)
    /\ UNCHANGED <<card, mainnet, visitor, rightNetwork, cache, rowsShown, asked>>

(* ------------------------------- the answers ------------------------------- *)

\* Excluded wallets are not ranked, and Morpho's points wait for the reconciliation of the ledger.
Total(w, n) ==
    blocks[n].points[w].onchain + (IF blocks[n].pendle THEN blocks[n].points[w].pendle ELSE 0)
    + (IF blocks[n].morpho /\ w \notin blocks[n].dropped THEN blocks[n].points[w].morpho ELSE 0)
Ranked(n) == {w \in Members : Earning(w, n) /\ Total(w, n) >= OnePoint}
RankOf(w, n) == 1 + Cardinality({v \in Ranked(n) : Total(v, n) > Total(w, n)})
Above(v, w, n) == Total(v, n) > Total(w, n) \/ (Total(v, n) = Total(w, n) /\ v < w)
InOrder(n) ==
    CHOOSE s \in [1 .. Cardinality(Ranked(n)) -> Ranked(n)] : \A i, j \in DOMAIN s : i < j => Above(s[i], s[j], n)
Board(n) ==
    LET all == InOrder(n)
        row(w) == [wallet |-> w, rank |-> RankOf(w, n), points |-> Total(w, n)]
    IN  [enabled |-> TRUE, block |-> n, truncated |-> Len(all) > ListCap,
         rows |-> [i \in 1 .. Min({ListCap, Len(all)}) |-> row(all[i])]]

MorphoAnswer(w, n) ==
    IF ~mainnet \/ ~blocks[n].morpho THEN Off
    ELSE [enabled |-> TRUE, block |-> n, reconcileRequired |-> Earning(w, n) /\ w \in blocks[n].dropped,
          excluded |-> blocks[n].status[w], points |-> Credited(w, "morpho", n)]

PendleBody(w, n) ==
    IF ~blocks[n].pendle THEN Off
    ELSE LET p == Credited(w, "pendle", n)
         IN  [enabled |-> TRUE, wallet |-> w, block |-> n, excluded |-> blocks[n].status[w], points |-> p,
              markets |-> <<[yt |-> p, sy |-> 0, lp |-> 0, points |-> p]>>]

\* The points site may answer for another wallet, miss a market or its parts in the total, or leave
\* an excluded wallet its points.
PendleBodies(w, n) ==
    LET body == PendleBody(w, n)
        wrong == {PendleBody(v, n) : v \in Members}
                 \union {[body EXCEPT !.markets = <<>>], [body EXCEPT !.markets[1].yt = 0],
                         [body EXCEPT !.excluded = "protocol-exempt"]}
    IN  IF body.enabled THEN {body} \union (IF body.points > 0 THEN wrong ELSE {PendleBody(v, n) : v \in Members})
        ELSE {body}

Near(x, y, slack) == x - y <= slack /\ y - x <= slack

\* parsePendlePoints: the answer is for this wallet and adds up, and an excluded one shows nothing.
ParsePendlePoints(body, w) ==
    \/ ~body.enabled
    \/ /\ body.wallet = w
       /\ Near(MapThenSumSet(LAMBDA i : body.markets[i].points, DOMAIN body.markets), body.points, 4 * Len(body.markets) + 1)
       /\ \A i \in DOMAIN body.markets :
             LET m == body.markets[i] IN Near(m.yt + m.sy + m.lp, m.points, 4)
       /\ body.excluded \in Excluded => body.points = 0

LoadPendlePoints(w) ==
    IF ~mainnet THEN {Off}
    ELSE {body \in UNION {PendleBodies(w, n) : n \in DOMAIN blocks} : ParsePendlePoints(body, w)}

\* Each read of the ledger succeeds or fails for itself; one of MayFail at most fails here.
LedgerReads == {<<"points", 0>>} \union ({"capital", "freeze"} \X CapitalClasses)
LedgerValue(w, n, read) ==
    CASE read[1] = "points"  -> blocks[n].points[w].onchain
      [] read[1] = "capital" -> Capital(w, read[2])
      [] read[1] = "freeze"  -> <<w, read[2]>> \in blocks[n].frozen
LedgerAnswer(w, n, lost) ==
    [block |-> n, reads |-> [read \in LedgerReads |-> IF read \in lost THEN <<>> ELSE <<LedgerValue(w, n, read)>>]]
LedgerAnswers(w) ==
    {LedgerAnswer(w, n, lost) : n \in DOMAIN blocks, lost \in {{}} \union {{read} : read \in MayFail}}

AnswersTo(key) ==
    CASE card = "board"  -> {Board(n) : n \in DOMAIN blocks}
      [] card = "morpho" -> {MorphoAnswer(key, n) : n \in DOMAIN blocks}
      [] card = "pendle" -> LoadPendlePoints(key)
      [] card = "ledger" -> LedgerAnswers(key)

(* -------------------------------- the queries -------------------------------- *)

QueryKey == IF card = "board" THEN Everyone ELSE visitor
Mounted(key) == key = QueryKey /\ (card # "board" => visitor # Nobody /\ rightNetwork)

RetriesOf(failure) ==
    IF card # "board" THEN DefaultRetries
    ELSE IF failure \in {"refused", "catchingUp"} THEN 0 ELSE 1

PointsInit ==
    /\ card \in Cards
    /\ mainnet \in IF card \in {"pendle", "morpho"} THEN BOOLEAN ELSE {TRUE}   \* the venues' answers differ
    /\ visitor = Nobody
    /\ rightNetwork = TRUE
    /\ blocks = <<Genesis>>
    /\ cache = [key \in IF card = "board" THEN {Everyone} ELSE Visitors |-> NotAsked]
    /\ rowsShown = RowStep
    /\ asked = 0

\* On mount, on the interval and on focus.  An error stands while old data is asked for again.
Ask(key) ==
    /\ Mounted(key)
    /\ ~cache[key].flying
    /\ asked < MaxAsked
    /\ cache' = [cache EXCEPT ![key].flying = TRUE, ![key].failures = 0,
                              ![key].failure = IF cache[key].data = <<>> THEN "none" ELSE @]
    /\ asked' = asked + 1
    /\ UNCHANGED <<card, mainnet, visitor, rightNetwork, blocks, rowsShown>>

\* The answer belongs to the key it was asked under, whoever is looking by then.
Answered(key) ==
    /\ cache[key].flying
    /\ \E answer \in AnswersTo(key) : cache' = [cache EXCEPT ![key] = [NotAsked EXCEPT !.data = <<answer>>]]
    /\ UNCHANGED <<card, mainnet, visitor, rightNetwork, blocks, rowsShown, asked>>

Fails(key) ==
    /\ cache[key].flying
    /\ \E failure \in IF card = "board" THEN Failures ELSE {"refused"} :
          cache' = IF cache[key].failures < RetriesOf(failure)
                   THEN [cache EXCEPT ![key].failures = @ + 1]
                   ELSE [cache EXCEPT ![key].failure = failure, ![key].flying = FALSE]
    /\ UNCHANGED <<card, mainnet, visitor, rightNetwork, blocks, rowsShown, asked>>

\* An answer nobody looks at is dropped after a while.
Collect(key) ==
    /\ ~Mounted(key)
    /\ ~cache[key].flying
    /\ cache[key] # NotAsked
    /\ cache' = [cache EXCEPT ![key] = NotAsked]
    /\ UNCHANGED <<card, mainnet, visitor, rightNetwork, blocks, rowsShown, asked>>

SwitchWallet ==
    /\ visitor' \in (Visitors \union {Nobody}) \ {visitor}
    /\ UNCHANGED <<card, mainnet, rightNetwork, blocks, cache, rowsShown, asked>>

SwitchNetwork ==
    /\ card # "board"
    /\ rightNetwork' = ~rightNetwork
    /\ UNCHANGED <<card, mainnet, visitor, blocks, cache, rowsShown, asked>>

(* -------------------------------- the screens -------------------------------- *)

Entry == cache[QueryKey]
IsError == Entry.failure # "none"
Data == Entry.data[1]

BoardScreen ==
    IF Entry.data # <<>> THEN IF Data.enabled THEN "board" ELSE "hidden"
    ELSE IF IsError THEN Entry.failure ELSE "loading"

IndexOfMine == SelectInSeq(Data.rows, LAMBDA row : row.wallet = visitor)

\* What the board says of the visitor's own wallet.
OwnLine ==
    IF IndexOfMine > 0 THEN "ranks"
    ELSE IF Data.truncated THEN "not in the top" ELSE "no points"

VisibleRows == SubSeq(Data.rows, 1, Min({rowsShown, Len(Data.rows)}))

ShowMyRow ==
    /\ card = "board" /\ visitor # Nobody /\ BoardScreen = "board"
    /\ IndexOfMine > rowsShown
    /\ rowsShown' = ((IndexOfMine + RowStep - 1) \div RowStep) * RowStep
    /\ UNCHANGED <<card, mainnet, visitor, rightNetwork, blocks, cache, asked>>

ShowMore ==
    /\ card = "board" /\ BoardScreen = "board"
    /\ rowsShown < Len(Data.rows)
    /\ rowsShown' = rowsShown + RowStep
    /\ UNCHANGED <<card, mainnet, visitor, rightNetwork, blocks, cache, asked>>

\* The Pendle card: hidden until it is answered, and as long as the source is off.
PendleScreen ==
    IF ~IsError /\ (Entry.data = <<>> \/ ~Data.enabled) THEN "hidden"
    ELSE IF IsError THEN "unavailable"
    ELSE IF Data.excluded # "none" THEN Data.excluded ELSE "figure"

\* The Morpho card: the same, and points wait for a reconciliation.
MorphoScreen ==
    IF ~IsError /\ (Entry.data = <<>> \/ ~Data.enabled) THEN "hidden"
    ELSE IF IsError THEN "unavailable"
    ELSE IF Data.reconcileRequired THEN "held back"
    ELSE IF Data.excluded # "none" THEN Data.excluded ELSE "figure"

Connected == visitor # Nobody
LedgerScreen ==
    IF ~Connected THEN "connect"
    ELSE IF ~rightNetwork THEN "switch"
    ELSE IF IsError THEN "unavailable" ELSE "figures"

\* What a read returned, or nothing: a failed read is shown as a dash.
Result(read) == IF Entry.data = <<>> THEN <<>> ELSE Data.reads[read]

\* The capital over the classes, once every class could be read.
CuratorBalance ==
    IF \A class \in CapitalClasses : Result(<<"capital", class>>) # <<>>
    THEN <<SumFunction([class \in CapitalClasses |-> Result(<<"capital", class>>)[1]])>>
    ELSE <<>>

\* A freeze that could not be read is shown as active.
ShowsFrozen(class) == Result(<<"freeze", class>>) = <<TRUE>>

PointsNext ==
    \/ Mine \/ SwitchWallet \/ SwitchNetwork \/ ShowMyRow \/ ShowMore
    \/ \E key \in DOMAIN cache : Ask(key) \/ Answered(key) \/ Fails(key) \/ Collect(key)

(* -------------------------------- properties -------------------------------- *)

\* The board says of the visitor what holds at its block, also when it lists only the top of the
\* ranking, and the rows it shows are that wallet's and in order (PointsLeaderboard).
BoardIsTrue ==
    card = "board" /\ BoardScreen = "board" =>
        LET n == Data.block
        IN  /\ \A i \in DOMAIN VisibleRows :
                  LET row == VisibleRows[i]
                  IN  row.wallet \in Ranked(n) /\ row.points = Total(row.wallet, n) /\ row.rank = RankOf(row.wallet, n)
            /\ Connected =>
                  CASE OwnLine = "ranks"          -> Data.rows[IndexOfMine].rank = RankOf(visitor, n)
                    [] OwnLine = "no points"      -> visitor \notin Ranked(n)
                    [] OwnLine = "not in the top" -> Cardinality(Ranked(n)) > Len(Data.rows)

\* A card that shows points of a venue shows those of the visitor's wallet at the block it states,
\* and a status only if the wallet had it there; it is silent only unasked or switched off
\* (PendlePointsCard and parsePendlePoints, MorphoCollateralCard).
VenueIsTrue(source, screen) ==
    card = source /\ Mounted(visitor) =>
        CASE screen = "figure"    -> Earning(visitor, Data.block) /\ Data.points = Credited(visitor, source, Data.block)
          [] screen \in Excluded  -> blocks[Data.block].status[visitor] = screen
          [] screen = "held back" -> visitor \in blocks[Data.block].dropped
          [] screen = "hidden"    -> Entry.data = <<>> \/ ~mainnet \/ \E n \in DOMAIN blocks : ~blocks[n][source]
          [] OTHER -> TRUE

\* A figure of the ledger is the visitor's at a block there was, a failed read is no zero, and the
\* first-loss capital leaves out no class (PointsDashboard).
LedgerIsTrue ==
    card = "ledger" /\ LedgerScreen = "figures" =>
        /\ Result(<<"points", 0>>) # <<>> =>
              \E n \in DOMAIN blocks : Result(<<"points", 0>>)[1] = blocks[n].points[visitor].onchain
        /\ CuratorBalance \in {<<>>, <<SumFunction([class \in CapitalClasses |-> Capital(visitor, class)])>>}
        /\ \A class \in CapitalClasses : ShowsFrozen(class) => \E n \in DOMAIN blocks : <<visitor, class>> \in blocks[n].frozen

FiguresAreTrue ==
    /\ BoardIsTrue
    /\ VenueIsTrue("pendle", PendleScreen)
    /\ VenueIsTrue("morpho", MorphoScreen)
    /\ LedgerIsTrue
=============================================================================
