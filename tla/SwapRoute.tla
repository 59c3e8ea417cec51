----------------------------- MODULE SwapRoute -----------------------------
(***************************************************************************)
(* The exact-input USDC for USDfr swap of frontend/src/lib/uniswapV4Swap.ts *)
(* as the values the Buy card decides on.  The router's calldata is the     *)
(* record it decodes to; the fixed pool, tokens and action codes are left   *)
(* out.  Times are seconds from the block the buy was prepared at.          *)
(***************************************************************************)
EXTENDS Integers

BPS == 10000
SlippageLimits == 5..300
Deadline == 1200
NoPermit == [amount |-> 0, nonce |-> 0, expiration |-> 0]

\* minAmountOut, and parseSlippagePercent's bounds: no minimum without a valid limit.
MinAmountOut(out, slip) == IF slip \in SlippageLimits THEN (out * (BPS - slip)) \div BPS ELSE 0

NeedsPermit2Approval(allowance, amountIn) == allowance < amountIn
\* needsPermit: a standing allowance is used only if it covers the buy and outlasts it.
NeedsPermit(standing, amountIn) == standing.amount < amountIn \/ standing.expiration < Deadline
\* A standing allowance the router could pull this buy from, even if the buyer signs anew.
Standing(allowance, amountIn) == allowance.amount >= amountIn /\ allowance.expiration > 0

BuildPermitSingle(amount, nonce) == [amount |-> amount, nonce |-> nonce, expiration |-> Deadline]

\* buildBuyExecuteArgs: the permit comes first if there is one.
BuildBuyExecuteArgs(amountIn, minimum, permit) ==
    [permit |-> permit, swap |-> [amountIn |-> amountIn, minimum |-> minimum], deadline |-> Deadline]

\* assertPermitCoversBuy and assertBuyArgsMatch.
PermitCoversBuy(permit, amountIn) == permit.amount >= amountIn /\ permit.expiration = Deadline
BuyArgsMatch(args, amountIn, minimum, signing, nonce) ==
    /\ amountIn > 0 /\ minimum > 0
    /\ args.swap = [amountIn |-> amountIn, minimum |-> minimum] /\ args.deadline = Deadline
    /\ IF signing THEN /\ PermitCoversBuy(args.permit, amountIn)
                       /\ args.permit.amount = amountIn /\ args.permit.nonce = nonce
       ELSE args.permit = NoPermit
=============================================================================
