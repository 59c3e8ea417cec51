------------------------------ MODULE MorphoMath ------------------------------
(***************************************************************************)
(* The figures of the Morpho market page (frontend/src/lib/morphoMarket.ts, *)
(* morphoMarketActions.ts and morphoMarketProjection.ts) with their own     *)
(* rounding, on small units: Wad is 10^18, Virtual the virtual shares, a    *)
(* price is per unit of collateral, time goes in ticks.                     *)
(***************************************************************************)
EXTENDS Integers, FiniteSetsExt

Wad == 400
Virtual == 2
BufferLtv == 80               \* MARKET_BUFFER_LTV_BPS, in percent
MaxRate == 8                  \* MAX_MARKET_RATE, per tick
QuoteLife == 3                \* REPAY_INTEREST_SECONDS
Margin == 1                   \* read timeout, clock skew and execution margin

CeilDiv(n, d) == (n + d - 1) \div d
Larger(m, n) == IF m > n THEN m ELSE n
Smaller(m, n) == IF m < n THEN m ELSE n

\* Morpho's third-order compounding.
Compounded(rate, ticks) ==
    LET first == rate * ticks
        second == (first * first) \div (2 * Wad)
    IN  first + second + (second * first) \div (3 * Wad)

AccrueMarket(m, rate, ticks) ==
    LET interest == (m.borrow * Compounded(rate, ticks)) \div Wad
        supply == m.supply + interest
        fee == (interest * m.fee) \div Wad
    IN  [m EXCEPT !.supply = supply, !.borrow = @ + interest,
                  !.supplyShares = @ + (fee * (m.supplyShares + Virtual)) \div (supply - fee + 1)]

PositionValues(m, p, price) ==
    [borrowed   |-> CeilDiv(p.borrowShares * (m.borrow + 1), m.borrowShares + Virtual),
     collateral |-> p.collateral * price,
     liquidity  |-> Larger(m.supply - m.borrow, 0)]

WithinBuffer(borrowed, collateral) == borrowed * 100 <= collateral * BufferLtv

(* A snapshot: the market and the position at the block, and the market at the horizon. *)
Values(s) == PositionValues(s.market, s.position, s.price)

RequiredToday(s) ==                                                        \* mutant
    IF s.position.borrowShares = 0 THEN 0 ELSE Values(s).borrowed + 2
\* repaymentQuote.
Required(s) ==
    IF s.position.borrowShares = 0 THEN 0
    ELSE PositionValues(s.projected, s.position, s.price).borrowed + 2

\* postActionValues: the market and the position an action leaves.
Borrow(m, p, amount) ==
    LET shares == CeilDiv(amount * (m.borrowShares + Virtual), m.borrow + 1)
    IN  [market |-> [m EXCEPT !.borrow = @ + amount, !.borrowShares = @ + shares],
         position |-> [p EXCEPT !.borrowShares = @ + shares]]
WithdrawCollateral(m, p, amount) == [market |-> m, position |-> [p EXCEPT !.collateral = @ - amount]]
RepayAll(m, p, borrowed) ==
    [market |-> [m EXCEPT !.borrow = Larger(@ - borrowed, 0), !.borrowShares = @ - p.borrowShares],
     position |-> [p EXCEPT !.borrowShares = 0]]

ForwardDebt(s) == Larger(Values(s).borrowed, Required(s))

SafeCollateralMaximum(s) ==
    IF s.position.borrowShares = 0 THEN s.position.collateral
    ELSE Larger(s.position.collateral - CeilDiv(CeilDiv(ForwardDebt(s) * 100, BufferLtv), s.price), 0)

MaximumHorizonInterest(assets, ticks) == CeilDiv(assets * Compounded(MaxRate, ticks), Wad)

\* safeBorrowMaximum: where its bisection ends, the largest amount that stays in the buffer.
SafeBorrowMaximum(s) ==
    LET high == Smaller((Values(s).collateral * BufferLtv) \div 100 - ForwardDebt(s), Values(s).liquidity)
        Debt(amount) ==
            LET after == Borrow(s.market, s.position, amount)
                borrowed == PositionValues(after.market, after.position, s.price).borrowed
            IN  borrowed + ForwardDebt(s) - Values(s).borrowed + MaximumHorizonInterest(borrowed, s.horizon) + 2
    IN  Max({0} \union {amount \in 1..high : WithinBuffer(Debt(amount), Values(s).collateral)})
=============================================================================
