----------------------------- MODULE MCAppPages -----------------------------
(***************************************************************************)
(* Small instances of the frontend's pages: one or two wallets, one write   *)
(* at a time, nodes on another network or branch, two months of the Solana  *)
(* vault, books of the Morpho market at, near and away from the buffer.     *)
(***************************************************************************)
EXTENDS AppPages, TLC

MCPages == FlowPages \union {"liquidity", "solana", "curator", "seed", "quote", "yield", "interest", "book",
                         "release", "program", "points"}

MCApp == [up |-> TRUE, chain |-> 1, tip |-> 3, branch |-> "x"]
MCOneNode == {MCApp}
MCBuyNodes == {MCApp, [MCApp EXCEPT !.chain = 2], [MCApp EXCEPT !.branch = "y"]}

Standing(approved, posting) == [approved |-> approved, posting |-> posting]
MCOpenings == {<<Standing(FALSE, "behind"), Standing(FALSE, "none")>>,
               <<Standing(FALSE, "none"), Standing(TRUE, "posted")>>,
               <<Standing(TRUE, "none"), Standing(FALSE, "posted")>>}

Book(s, ss, b, bs, f) == [supply |-> s, supplyShares |-> ss, borrow |-> b, borrowShares |-> bs, fee |-> f]
MCBooks == [market : {Book(90, 85, 60, 57, 0), Book(60, 60, 44, 43, 40)},
            position : [borrowShares : {0, 40}, collateral : {12, 28}],
            price : {3}, rate : {0, 3, 8}]

MCAppointments == {[allowlistAuthority |-> "k", treasuryAuthority |-> "l", emergencyAuthority |-> "l"]}

MCSourceOf == [f \in Forms |-> "home"]

MCMayFail == {<<"points", 0>>, <<"capital", 1>>}

CONSTANTS a, b
MCOwners == {a, b}
MCSymmetry == Permutations(MCOwners)
=============================================================================
