------------------------- MODULE LeaderboardRanking -------------------------
(***************************************************************************)
(* What the leaderboard says: rankLeaderboard and forestRoadWallets         *)
(* (frontend/src/lib/pointsLeaderboard.server.ts), the Pendle list it adds  *)
(* (pendlePoints.server.ts) and the validation of the relay                 *)
(* (app/api/points/live-leaderboard).  Points accrue, statuses and the      *)
(* configuration change; the board is a function of them.                   *)
(***************************************************************************)
EXTENDS Integers, Sequences, FiniteSets, SequencesExt

CONSTANTS Wallets,       \* naturals: the order of lowercase addresses
          Venues,        \* addresses reported as venues, each its own line
          RankFloor,     \* one whole point
          EarnsBy,       \* [Wallets -> SUBSET Parts]: where a wallet ever holds tokens
          MaxPoints,     \* bound on a wallet's points
          MaxRows,       \* LEADERBOARD_MAX_ROWS
          Settings       \* configured lists: sequences of wallets and malformed entries

RankingOK ==
    /\ Wallets \subseteq Nat /\ IsFiniteSet(Wallets) /\ Venues \subseteq Wallets
    /\ {RankFloor, MaxPoints, MaxRows} \subseteq Nat

Parts == {"onchain", "pendle", "morpho"}
Malformed == -1                                \* an entry that is no EIP-55 address

VARIABLES credit,   \* [Parts -> [Wallets -> points]]
          blocked,  \* jurisdiction-blocked wallets
          setting   \* POINTS_LEADERBOARD_FOREST_ROAD_WALLETS, split at commas

vars == <<credit, blocked, setting>>

Points(w) == credit["onchain"][w] + credit["pendle"][w] + credit["morpho"][w]

Untouched == credit = [p \in Parts |-> [w \in Wallets |-> 0]] /\ blocked = {}
AtRest == Untouched /\ setting = <<>>

\* The list is server configuration, fixed for the life of the process.
Init == Untouched /\ setting \in Settings

Earn(p, w) ==
    /\ p \in EarnsBy[w] /\ Points(w) < MaxPoints
    /\ credit' = [credit EXCEPT ![p][w] = @ + 1]
    /\ UNCHANGED <<blocked, setting>>

SetBlocked(w) ==
    /\ blocked' = IF w \in blocked THEN blocked \ {w} ELSE blocked \union {w}
    /\ UNCHANGED <<credit, setting>>

Next ==
    \/ \E p \in Parts, w \in Wallets : Earn(p, w)
    \/ \E w \in Wallets : SetBlocked(w)

Spec == Init /\ [][Next]_vars

(* ------------------------------ the board ------------------------------ *)

\* forestRoadWallets: an empty, malformed or repeated list fails the whole board.
Refused == \/ setting = <<>>
           \/ \E i \in DOMAIN setting : setting[i] = Malformed
           \/ \E i, j \in DOMAIN setting : i < j /\ setting[i] = setting[j]
Own == {setting[i] : i \in DOMAIN setting}

\* The line a wallet's points are counted on, in the order the code asks.
Line(w) ==
    IF Points(w) = 0 THEN "none"
    ELSE IF w \in Venues THEN "venue"
    ELSE IF w \in blocked THEN "blocked"
    ELSE IF w \in Own THEN "forestRoad"
    ELSE IF Points(w) < RankFloor THEN "belowFloor"
    ELSE "ranked"

On(line) == {w \in Wallets : Line(w) = line}

Above(a, b) == Points(a) > Points(b) \/ (Points(a) = Points(b) /\ a < b)
Order == SetToSortSeq(On("ranked"), Above)

\* Equal totals share a rank: 1, 2, 2, 4.
Ranks(rows) ==
    LET rank[i \in 1 .. Len(rows)] ==
            IF i > 1 /\ Points(rows[i - 1]) = Points(rows[i]) THEN rank[i - 1] ELSE i
    IN  rank

Row(w, rank) == [rank |-> rank, wallet |-> w, points |-> Points(w), onchain |-> credit["onchain"][w],
                 pendle |-> credit["pendle"][w], morpho |-> credit["morpho"][w]]

Total(S) == SumFunctionOnSet([w \in Wallets |-> Points(w)], S)

RankedPointsShown ==                                                       \* mutant
    LET all == Order
    IN  Total({all[i] : i \in {k \in DOMAIN all : k <= MaxRows}})
RankedPoints == Total(On("ranked"))

BoardShown ==
    LET all == Order
        n   == IF Len(all) > MaxRows THEN MaxRows ELSE Len(all)
    IN  [rows |-> [i \in 1 .. n |-> Row(all[i], Ranks(all)[i])],
         ranked |-> Len(all), rankedPoints |-> RankedPoints, truncated |-> Len(all) > n,
         forestRoad |-> [wallets |-> Cardinality(On("forestRoad")), points |-> Total(On("forestRoad"))],
         venues |-> [v \in Venues |-> Points(v)],
         blocked |-> Cardinality(On("blocked")), belowFloor |-> Cardinality(On("belowFloor"))]

(* ---------------------- the relay's validation ---------------------- *)

\* validBoard: every row adds up, no wallet twice, points fall, ranks follow the ties.
ValidRows(rows) ==
    \A i \in DOMAIN rows :
        /\ rows[i].rank >= 1
        /\ rows[i].points = rows[i].onchain + rows[i].pendle + rows[i].morpho
        /\ \A j \in 1 .. i - 1 : rows[j].wallet # rows[i].wallet
        /\ i > 1 => /\ rows[i].points <= rows[i - 1].points
                    /\ rows[i].rank = IF rows[i].points = rows[i - 1].points THEN rows[i - 1].rank ELSE i

SumRows(rows) == FoldLeft(LAMBDA sum, row : sum + row.points, 0, rows)
ValidUnsummed(board) == ValidRows(board.rows)                              \* mutant
ValidBoard(board) ==
    ValidRows(board.rows) /\ (board.truncated \/ SumRows(board.rows) = board.rankedPoints)

(* ------------------------------ properties ------------------------------ *)

\* The board adds up: every credited point is on exactly one line, so the ranks,
\* Forest Road's line, the venues and the wallets left out make the whole.
NothingLost ==
    ~Refused =>
        Total(Wallets) = BoardShown.rankedPoints + BoardShown.forestRoad.points
                         + Total(On("venue")) + Total(On("blocked")) + Total(On("belowFloor"))

\* The two services agree: whatever the loader serves passes the relay, and a board
\* whose rows were reordered or dropped, or whose points were changed, does not.
WithoutRow(board, i) == [board EXCEPT !.rows = SubSeq(board.rows, 1, i - 1) \o SubSeq(board.rows, i + 1, Len(board.rows))]
Inflated(board, i) == [board EXCEPT !.rows[i].points = @ + 1, !.rows[i].onchain = @ + 1]
RelayAgrees ==
    ~Refused =>
        /\ ValidBoard(BoardShown)
        /\ ~BoardShown.truncated => \A i \in DOMAIN BoardShown.rows :
             ~ValidBoard(WithoutRow(BoardShown, i)) /\ ~ValidBoard(Inflated(BoardShown, i))
=============================================================================
