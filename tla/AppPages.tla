------------------------------ MODULE AppPages ------------------------------
(***************************************************************************)
(* The pages of the frontend that write or compute, the Solana program one  *)
(* of them calls, and how the site is built and released.  A behaviour      *)
(* follows one of them.  The cards of the app, the Buy card, the Ethereum   *)
(* curator's page and the Morpho market page run on the same write flow and *)
(* the same wallet.  The others share no state with them or with another,   *)
(* so what a page keeps for itself is in the same variables for each.       *)
(***************************************************************************)
EXTENDS Integers, Sequences, FiniteSets

CONSTANTS
    Pages,                                                        \* those this instance follows
    AppNode, Expected, DriftLimit, ExactTip, Fork,                \* RpcAlignment
    OneWallet, TwoWallets, OneSlot, MaxTxs, MaxMoves, CardMoves,  \* WriteFlow
    BuyNodes, OneNode,
    Cooldowns,                                                    \* AppCards
    Amounts, Outs, Slips, DefaultSlip, Expirations, Unlimited,    \* BuyPanel
    CuratorClasses, Openings,                                     \* EthereumCurator
    MaxQuotes,                                                    \* MorphoMarketPage
    Prices, MaxJobs, MaxSends, MaxMishaps,                        \* TreasuryLiquidity
    Owners, Keys, Founder, Appointments, Agreements, Month, Slice, Rates, Terms, MaxEpochs, MaxAhead,
    MaxPrincipal, MaxPool, MaxTime, MaxOrders,                    \* SolanaVault
    Curators, MaxWrites, MaxSwitches,                             \* CuratorPanel
    Tabs, MaxProposals, MaxNonce,                                 \* TreasurySeed
    Books,                                                        \* MorphoQuote
    Holders, Deployment, MaxHead, BlockChunk, MaxFaults,          \* YieldHistory
    Forms, SourceOf, Retain, MaxSlot, MaxTries,                   \* CuratorInterest
    ClassIds, LaterClasses, DigitalAssets, Bps, FeeBps, LoanRates, Ltvs, Principals,
    ClientCap, MaxFacilities, MaxTicks,                           \* BookFigures
    Nonce, SlippedKeys, MaxSlips, MaxCommits, MaxBuilds,          \* FrontendRelease
    Versions, MaxHistory, MaxUpgrades, MaxEfforts,                \* ProgramRelease
    Members, Visitors, Movers, CapitalClasses, MayFail, Grain, OnePoint, ListCap, RowStep,
    DefaultRetries, MaxBlocks, MaxAsked                           \* PointsPages

VARIABLES
    page,
    account, node, gate, polls, status, runs, txs, moves,           \* WriteFlow
    v1, v2, v3, v4, v5, v6, v7, v8, v9, v10, v11, v12, v13, v14     \* what the page keeps for itself

cards == INSTANCE AppCards WITH
    Accounts <- TwoWallets, KeptOps <- {}, Nodes <- OneNode, Slots <- OneSlot, MaxMoves <- CardMoves,
    mode <- v1, ack <- v2, chain <- v3, seen <- v4
buy == INSTANCE BuyPanel WITH
    Accounts <- OneWallet, KeptOps <- {"buy"}, Nodes <- BuyNodes, Slots <- OneSlot,
    field <- v1, slip <- v2, quote <- v3, prep <- v4, locked <- v5, fresh <- v6, market <- v7,
    seen <- v8, terms <- v9, agreed <- v10
ethereum == INSTANCE EthereumCurator WITH
    Accounts <- OneWallet, KeptOps <- {}, Nodes <- OneNode, Slots <- OneSlot, Classes <- CuratorClasses,
    module <- v1, known <- v2, selection <- v3
morpho == INSTANCE MorphoMarketPage WITH
    Accounts <- TwoWallets, KeptOps <- {"approve", "repay", "borrow"}, Nodes <- OneNode, Slots <- OneSlot,
    form <- v1, world <- v2, snap <- v3, quotes <- v4, expired <- v5, submission <- v6,
    prepared <- v7
liquidity == INSTANCE TreasuryLiquidity WITH
    panel <- v1, connected <- v2, mem <- v3, stored <- v4, view <- v5, loading <- v6, shown <- v7,
    jobs <- v8, pool <- v9, sent <- v10, lost <- v11, mishaps <- v12
solana == INSTANCE SolanaVault WITH
    now <- v1, config <- v2, pos <- v3, roles <- v4, vault <- v5, pool <- v6, executed <- v7,
    emitted <- v8, credit <- v9, due <- v10, orders <- v11
curator == INSTANCE CuratorPanel WITH
    wallet <- v1, timer <- v2, read <- v3, cluster <- v4, config <- v5, position <- v6,
    balance <- v7, shownFor <- v8, failure <- v9, history <- v10, notice <- v11, run <- v12,
    txs <- v13, switches <- v14
seed == INSTANCE TreasurySeed WITH
    record <- v1, tabs <- v2, clearing <- v3, queue <- v4, safeNonce <- v5, overtaken <- v6
quoted == INSTANCE MorphoQuote WITH
    snap <- v1, market <- v2, position <- v3, idle <- v4, age <- v5, acted <- v6
yield == INSTANCE YieldHistory WITH
    holder <- v1, generation <- v2, cursor <- v3, pending <- v4, inFlight <- v5, shown <- v6,
    reads <- v7, head <- v8, tick <- v9, faults <- v10
interest == INSTANCE CuratorInterest WITH
    slot <- v1, gates <- v2, stored <- v3, form <- v4, post <- v5, answered <- v6
book == INSTANCE BookFigures WITH
    Rates <- LoanRates,
    facilities <- v1, log <- v2, requests <- v3, ticks <- v4, history <- v5
release == INSTANCE FrontendRelease WITH
    manifest <- v1, archived <- v2, env <- v3, mainHead <- v4, built <- v5, live <- v6,
    served <- v7, slips <- v8
program == INSTANCE ProgramRelease WITH
    sourceAt <- v1, work <- v2, target <- v3, artifact <- v4, siteIdl <- v5, receipt <- v6,
    activation <- v7, chain <- v8, check <- v9, verified <- v10, snapshot <- v11, site <- v12,
    efforts <- v13
points == INSTANCE PointsPages WITH
    card <- v1, mainnet <- v2, visitor <- v3, rightNetwork <- v4, blocks <- v5, cache <- v6,
    rowsShown <- v7, asked <- v8

FlowPages == {"cards", "buy", "ethereum", "morpho"}

ASSUME PagesOK ==
    /\ Pages \subseteq FlowPages \union {"liquidity", "solana", "curator", "seed", "quote", "yield", "interest", "book",
                                     "release", "program", "points"}
    /\ buy!AmountsOK
    /\ ethereum!ClassesOK
    /\ solana!VaultOK
    /\ points!MembersOK

flowVars == <<account, node, gate, polls, status, runs, txs, moves>>
own == <<v1, v2, v3, v4, v5, v6, v7, v8, v9, v10, v11, v12, v13, v14>>
vars == <<page, flowVars, own>>

(* What the followed page does not use rests: the variables after the n-th of its own. *)
FlowRests == /\ account = 0 /\ node = 0 /\ gate = 0 /\ polls = 0
             /\ status = 0 /\ runs = 0 /\ txs = 0 /\ moves = 0
RestAfter13 == v14 = 0
RestAfter12 == v13 = 0 /\ RestAfter13
RestAfter11 == v12 = 0 /\ RestAfter12
RestAfter10 == v11 = 0 /\ RestAfter11
RestAfter8  == v9 = 0 /\ v10 = 0 /\ RestAfter10
RestAfter7  == v8 = 0 /\ RestAfter8
RestAfter6  == v7 = 0 /\ RestAfter7
RestAfter5  == v6 = 0 /\ RestAfter6
RestAfter4  == v5 = 0 /\ RestAfter5
RestAfter3  == v4 = 0 /\ RestAfter4

After13 == <<v14>>
After12 == <<v13, After13>>
After11 == <<v12, After12>>
After10 == <<v11, After11>>
After8  == <<v9, v10, After10>>
After7  == <<v8, After8>>
After6  == <<v7, After7>>
After5  == <<v6, After6>>
After4  == <<v5, After5>>
After3  == <<v4, After4>>

Follows(p) == p \in Pages /\ page = p

Init ==
    \/ Follows("cards")     /\ cards!FlowInit    /\ cards!CardsInit /\ RestAfter4
    \/ Follows("buy")       /\ buy!FlowInit      /\ buy!BuyInit /\ RestAfter10
    \/ Follows("ethereum")  /\ ethereum!FlowInit /\ ethereum!CuratorPageInit /\ RestAfter3
    \/ Follows("morpho")    /\ morpho!FlowInit   /\ morpho!MarketInit /\ RestAfter7
    \/ Follows("liquidity") /\ FlowRests         /\ liquidity!LiquidityInit /\ RestAfter12
    \/ Follows("solana")    /\ FlowRests         /\ solana!VaultInit /\ RestAfter11
    \/ Follows("curator")   /\ FlowRests         /\ curator!CuratorInit
    \/ Follows("seed")      /\ FlowRests         /\ seed!SeedInit /\ RestAfter6
    \/ Follows("quote")     /\ FlowRests         /\ quoted!QuoteInit /\ RestAfter6
    \/ Follows("yield")     /\ FlowRests         /\ yield!YieldInit /\ RestAfter10
    \/ Follows("interest")  /\ FlowRests         /\ interest!InterestInit /\ RestAfter6
    \/ Follows("book")      /\ FlowRests         /\ book!BookInit /\ RestAfter5
    \/ Follows("release")   /\ FlowRests         /\ release!ReleaseInit /\ RestAfter8
    \/ Follows("program")   /\ FlowRests         /\ program!ProgramInit /\ RestAfter13
    \/ Follows("points")    /\ FlowRests         /\ points!PointsInit /\ RestAfter8

On(p) == page = p /\ page' = p

Next ==
    \/ On("cards")     /\ cards!CardsNext          /\ UNCHANGED After4
    \/ On("buy")       /\ buy!BuyNext              /\ UNCHANGED After10
    \/ On("ethereum")  /\ ethereum!CuratorPageNext /\ UNCHANGED After3
    \/ On("morpho")    /\ morpho!MarketNext        /\ UNCHANGED After7
    \/ On("liquidity") /\ liquidity!LiquidityNext  /\ UNCHANGED <<flowVars, After12>>
    \/ On("solana")    /\ solana!VaultNext         /\ UNCHANGED <<flowVars, After11>>
    \/ On("curator")   /\ curator!CuratorNext      /\ UNCHANGED flowVars
    \/ On("seed")      /\ seed!SeedNext            /\ UNCHANGED <<flowVars, After6>>
    \/ On("quote")     /\ quoted!QuoteNext         /\ UNCHANGED <<flowVars, After6>>
    \/ On("yield")     /\ yield!YieldNext          /\ UNCHANGED <<flowVars, After10>>
    \/ On("interest")  /\ interest!InterestNext    /\ UNCHANGED <<flowVars, After6>>
    \/ On("book")      /\ book!BookNext            /\ UNCHANGED <<flowVars, After5>>
    \/ On("release")   /\ release!ReleaseNext      /\ UNCHANGED <<flowVars, After8>>
    \/ On("program")   /\ program!ProgramNext      /\ UNCHANGED <<flowVars, After13>>
    \/ On("points")    /\ points!PointsNext        /\ UNCHANGED <<flowVars, After8>>

Spec == Init /\ [][Next]_vars

(* ------------------------------ properties ------------------------------ *)

\* What a page says of a write is true of the account it shows: a success is of a transaction
\* of that account that was mined as sent (useWriteFlow), and on the Solana page it is said
\* with figures read after it landed (CuratorVaultPanel run).  What the points page says of a
\* wallet is of that wallet at a block of the chain, and a failure is never a zero.
StatusIsTrue ==
    /\ page \in FlowPages => cards!StatusIsTrue
    /\ page = "curator" => curator!NoticeIsTrue
    /\ page = "points" => points!FiguresAreTrue

\* A write whose outcome is open is not sent again: of the Buy card and the Morpho page one is
\* with the wallet or unresolved (keepPendingUntilReceipt), and of the treasury's seeds one is
\* executed or still can be, over tabs, reloads and lost replies (morphoTreasury.ts); not counted
\* is a seed executed between the two reads by which its record is cleared (OneSeed).
NeverTwice ==
    /\ page = "buy" => buy!OneKeptWrite
    /\ page = "morpho" => morpho!OneKeptWrite
    /\ page = "seed" => seed!OneSeed

\* The wallet signs what is on screen and was there when the button was pressed, whatever was
\* read since: the amount, minimum and allowance of a buy (BuyUsdfrPanel), the class of a
\* posting (EthereumCuratorPanel), the expiring quote of a Morpho action (MorphoMarketSurface).
\* What is released is what was reviewed: the site's contracts, network and commit
\* (frontend-env-from-manifest.mjs, next.config.ts), the Solana program's bytes and interface
\* (build-provenance.mjs, verify-devnet.ts).
SignedAsReviewed ==
    /\ page = "buy" => buy!SignedAsReviewed
    /\ page = "ethereum" => ethereum!NeverRetargeted
    /\ page = "morpho" => morpho!QuoteIsTheWrites
    /\ page = "release" => release!ReleasedAsApproved
    /\ page = "program" => program!ReleasedAsProved

\* The treasury's liquidity is placed in its reviewed stages and within their total, whatever
\* was lost, retried, reloaded, raced or begun beside a first operation (the three liquidity
\* operations).
StagedSteps == page = "liquidity" => liquidity!StagedSteps /\ liquidity!CapKeptUnlessLost

\* Both accounts of the Solana program hold what its positions are due, its totals are the
\* positions' (invariants I1 to I4 of the instructions), coupon is neither lost nor made by the
\* times at which positions are settled, and the page shows what the crank would pay (state.rs
\* and treasury.rs against curatorVaultMath.ts).
VaultExact == page = "solana" => solana!VaultBacked /\ solana!CouponConserved /\ solana!ClaimableIsPaid

\* Every instruction of the Solana program does what its signer may, through accounts its
\* clients send writable, whoever held the authorities before, and emits the one event from
\* which an indexer can follow both accounts (the instructions against curator-vault.types.ts).
StepsAsSigned == [][page = "solana" => solana!StepAsSigned]_vars

\* An action up to Max, executed any time before its quote expires, stays within the buffer
\* until then (morphoMarketActions.ts, morphoMarketProjection.ts).
MaxHolds == page = "quote" => quoted!MaxHolds

\* Every event is counted once and for the right wallet, class and registration: the income
\* history, the loan book's totals and the curators' registrations.
CountedOnce ==
    /\ page = "yield" => yield!CountedOnce
    /\ page = "interest" => interest!RegisteredOnce
    /\ page = "book" => book!HistoryAddsUp /\ book!FiguresAreCautious
=============================================================================
