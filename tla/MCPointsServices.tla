-------------------------- MODULE MCPointsServices --------------------------
(* Discovery: wallet a enters at block 1 and leaves at 3, b and c enter at 2, *)
(* which is crowded and can only be read from its receipts. Mirror: a         *)
(* supplies at 2, withdraws at 3 and supplies again at 4, b supplies at 3,    *)
(* the rate is cut at 3; chunks are [2,3] and [4,5], so a's withdrawal and    *)
(* second supply, if both are left out, are missed at the end of a chunk.     *)
(* Served: every chunk of four blocks that holds block 2, the only crowded    *)
(* one, is read with two splits; a provider that refuses the whole chunk      *)
(* needs three, one more than it may.                                         *)
EXTENDS PointsServices, TLC

CONSTANTS a, b, c, board, r1, r2

MCNamed == (1 :> {a}) @@ (2 :> {b, c}) @@ (3 :> {a, c}) @@ (4 :> {})
MCHeld  == (1 :> {a}) @@ (2 :> {a, b, c}) @@ (3 :> {b, c}) @@ (4 :> {b, c})
MCNamedServed == [k \in 1 .. 5 |-> IF k = 2 THEN {a} ELSE {}]
MCHeldServed  == [k \in 1 .. 5 |-> IF k < 2 THEN {} ELSE {a}]
Change(block, owner, delta) == [block |-> block, owner |-> owner, delta |-> delta]
MCChanges == {Change(2, a, 1), Change(3, a, -1), Change(3, b, 1), Change(4, a, 1)}
MCRateOf == (1 :> 2) @@ (3 :> 1)
MCEarnsBy == <<{"onchain", "pendle"}, {"onchain", "morpho"}, {"pendle"}, {"onchain"}>>
MCSettings == {<<>>, <<1>>, <<1, 1>>, <<2, -1>>, <<3, 2>>, <<4>>}
MCAskerEach == (r1 :> {board}) @@ (r2 :> {a})
MCAskerOne == r1 :> {board}
=============================================================================
