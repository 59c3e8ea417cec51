--------------------------- MODULE LiquidityMath ---------------------------
(***************************************************************************)
(* The amounts of the treasury's liquidity operations                       *)
(* (frontend/src/lib/uniswapV4Liquidity.ts, uniswapV4SusdfrLiquidity.ts and *)
(* uniswapV2SusdfrLiquidity.ts) on a small fixed-point grid: a square-root  *)
(* price is an integer over Q, a tick its price, amounts round up.          *)
(***************************************************************************)
EXTENDS Integers

Q == 4
Lower == 4                   \* both V4 ranges, SEED_TICK_LOWER to SEED_TICK_UPPER
Upper == 8
WallLower == 9
WallUpper == 12
InitialPrice == 6
PilotCap == 2                \* PILOT_USDC_CAP and SEED_USDC_CAP
TargetLiquidity == 24
TargetUsdcMax == 8
TargetOtherMax == 12
TotalUsdcCap == 6            \* TOTAL_USDC_CAP of the seed and the wall
V2Usdc == 5
V2UsdfrValue == 5
NoPlan == [liquidity |-> 0, maxUsdc |-> 0, maxOther |-> 0]

DivRoundingUp(m, n) == (m + n - 1) \div n
Amount0Delta(liquidity, a, b) == DivRoundingUp(DivRoundingUp(liquidity * Q * (b - a), b), a)
Amount1Delta(liquidity, a, b) == DivRoundingUp(liquidity * (b - a), Q)

\* quoteLiquidity: what liquidity over [lower, upper] takes at a price.
Within(price, lower, upper) == IF price < lower THEN lower ELSE IF price > upper THEN upper ELSE price
QuoteLiquidity(price, liquidity, lower, upper) ==
    LET p == Within(price, lower, upper)
    IN  [usdc |-> Amount0Delta(liquidity, p, upper), other |-> Amount1Delta(liquidity, lower, p)]

\* maxLiquidityForUsdc and maximumLiquidityForAmount0: where the bisection ends.
MaxLiquidity(cap, a, b) ==
    CHOOSE l \in 0..(cap * a * b) : Amount0Delta(l, a, b) <= cap /\ Amount0Delta(l + 1, a, b) > cap

\* Each of these is NoPlan where the source throws.
PilotPlan(price) ==
    IF price <= Lower \/ price >= Upper \/ MaxLiquidity(PilotCap, price, Upper) = 0 THEN NoPlan
    ELSE LET l == MaxLiquidity(PilotCap, price, Upper)
         IN  [liquidity |-> l, maxUsdc |-> PilotCap, maxOther |-> Amount1Delta(l, Lower, Upper)]

RemainderPlan(price, pilot) ==
    LET liquidity == TargetLiquidity - pilot.liquidity
        quote == QuoteLiquidity(price, liquidity, Lower, Upper)
        maxUsdc == TargetUsdcMax - pilot.usdc
        maxOther == TargetOtherMax - pilot.other
    IN  IF liquidity > 0 /\ quote.usdc <= maxUsdc /\ quote.other <= maxOther
        THEN [liquidity |-> liquidity, maxUsdc |-> maxUsdc, maxOther |-> maxOther] ELSE NoPlan

\* The seed opens the pool, so it needs a pool without a price (0).
SeedPlan(price) ==
    LET l == MaxLiquidity(PilotCap, InitialPrice, Upper)
    IN  IF price # 0 THEN NoPlan
        ELSE [liquidity |-> l, maxUsdc |-> PilotCap, maxOther |-> Amount1Delta(l, Lower, Upper)]

WallPlan(price, seed) ==
    LET left == TotalUsdcCap - seed.usdc
    IN  IF price = 0 \/ price > WallLower \/ seed.usdc \notin 1..PilotCap \/ seed.other = 0 THEN NoPlan
        ELSE [liquidity |-> MaxLiquidity(left, WallLower, WallUpper), maxUsdc |-> left, maxOther |-> 0]

\* buildV2LiquidityPlan: the conversion of the vault may round down by two at most.
PairPlan(shares, assets) ==
    IF shares > 0 /\ assets \in (V2UsdfrValue - 2)..V2UsdfrValue
    THEN [liquidity |-> shares, maxUsdc |-> V2Usdc, maxOther |-> shares] ELSE NoPlan
=============================================================================
