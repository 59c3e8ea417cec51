---------------------------- MODULE MorphoQuote ----------------------------
(***************************************************************************)
(* A quote of the Morpho market page and what becomes of the action taken   *)
(* on it (lib/morphoMarketReader.ts readMorphoMarket, MorphoMarketSurface): *)
(* the snapshot is read from a block that may lag, the wallet may execute   *)
(* at any time until the quote expires, and interest runs all the while.    *)
(***************************************************************************)
EXTENDS MorphoMath

CONSTANTS Books        \* markets and positions tried, with the price and today's rate

VARIABLES snap,     \* the snapshot the page computed on
          market, position, idle,   \* the chain: last touched `idle` ticks ago
          age,      \* of the quote
          acted     \* the action the wallet executed, or "none"

quoteVars == <<snap, market, position, idle, age, acted>>

\* readWithinWindow: the market at the block, and projected past the quote's expiry.
Snapshot(book, untouched, lag) ==
    LET horizon == lag + QuoteLife + Margin
    IN  [market |-> AccrueMarket(book.market, book.rate, untouched), position |-> book.position,
         projected |-> AccrueMarket(book.market, book.rate, untouched + horizon),
         price |-> book.price, rate |-> book.rate, horizon |-> horizon]

QuoteInit ==
    /\ \E book \in Books, untouched, lag \in 0..1 :
         /\ snap = Snapshot(book, untouched, lag)
         /\ market = book.market /\ position = book.position /\ idle = untouched + lag
    /\ age = 0 /\ acted = "none"

Now(rate) == AccrueMarket(market, rate, idle)

Takes(action, after) ==
    /\ acted = "none" /\ age < QuoteLife
    /\ acted' = action /\ market' = after.market /\ position' = after.position /\ idle' = 0
    /\ UNCHANGED <<snap, age>>

\* Max, or less, of the page; Morpho's own limits hold besides.
BorrowsUpToMax ==
    \E amount \in 1..SafeBorrowMaximum(snap) :
        /\ amount <= PositionValues(Now(snap.rate), position, snap.price).liquidity
        /\ Takes("borrow", Borrow(Now(snap.rate), position, amount))
WithdrawsUpToMax ==
    \E amount \in 1..SafeCollateralMaximum(snap) :
        Takes("withdrawCollateral", WithdrawCollateral(Now(snap.rate), position, amount))

Debt(rate) == PositionValues(Now(rate), position, snap.price).borrowed
\* The allowance is `required`; the debt is what is taken.
RepaysAll ==
    /\ position.borrowShares > 0
    /\ Takes(IF Debt(snap.rate) <= Required(snap) THEN "repay" ELSE "refused",
             RepayAll(Now(snap.rate), position, Debt(snap.rate)))

Passes == /\ age < QuoteLife /\ age' = age + 1 /\ idle' = idle + 1
          /\ UNCHANGED <<snap, market, position, acted>>

QuoteNext == BorrowsUpToMax \/ WithdrawsUpToMax \/ RepaysAll \/ Passes

QuoteSpec == QuoteInit /\ [][QuoteNext]_quoteVars

(* ------------------------------ properties ------------------------------ *)

\* "Max leaves interest headroom until quote expiry, covering head age and read latency": a borrow
\* or withdrawal up to Max, executed at any time before the quote expires, is within the 80 %
\* buffer until then, and the balance Repay all asks for closes the debt.
MaxHolds ==
    /\ acted = "borrow" => \A rate \in {snap.rate, MaxRate} : WithinBuffer(Debt(rate), position.collateral * snap.price)
    /\ acted = "withdrawCollateral" => WithinBuffer(Debt(snap.rate), position.collateral * snap.price)
    /\ acted # "refused"
=============================================================================
