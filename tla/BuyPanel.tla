------------------------------ MODULE BuyPanel ------------------------------
(***************************************************************************)
(* The Buy card (frontend/src/components/app/BuyUsdfrPanel.tsx): a quote    *)
(* that keeps refreshing, a Permit2 allowance that may be used without a    *)
(* signature only after the buyer has seen it, and a swap whose minimum has *)
(* to be the one on screen while the wallet is open.  The balance is taken  *)
(* to cover the amount and the tab to be showing.                           *)
(***************************************************************************)
EXTENDS WriteFlow, SwapRoute, TLC

CONSTANTS Amounts, Outs, Slips,      \* amounts, quotes and slippage limits tried
          DefaultSlip,               \* DEFAULT_SLIPPAGE_BPS
          Expirations, Unlimited     \* seconds a standing allowance has left; its amount

AmountsOK == Amounts \subseteq Nat /\ Expirations \subseteq Nat /\ Unlimited \in Nat

VARIABLES field,    \* the amount typed, 0 for none
          slip,     \* the slippage limit
          quote,    \* the quote for the field's amount, and whether it is over 30 s old
          prep,     \* Prep, with what its continuation holds
          locked,   \* lockedQuote
          fresh,    \* freshRouterAllowance
          market,   \* on chain: canTransfer, USDC's allowance to Permit2, the router's in Permit2
          seen,     \* what the polled reads last showed of it
          terms,    \* what the buy handed to the write flow enforces, while it lasts
          agreed    \* what was on screen when Buy or Continue was pressed, while it lasts

buyVars == <<field, slip, quote, prep, locked, fresh, market, seen, terms, agreed>>

NoQuote == [out |-> 0, old |-> FALSE]
NoLock == [amountIn |-> 0, out |-> 0, minimum |-> 0]
NoAllowance == [amount |-> 0, expiration |-> 0, nonce |-> 0]
NoFresh == [amountIn |-> 0, allowance |-> NoAllowance, direct |-> FALSE]
NoReview == [amountIn |-> 0, minimum |-> 0, allowance |-> NoAllowance, direct |-> FALSE]
NoTerms == [amountIn |-> 0, minimum |-> 0, allowance |-> NoAllowance]
IdlePrep == [phase |-> "idle", op |-> "none", amountIn |-> 0, minimum |-> 0,
             review |-> NoReview, permit |-> NoPermit]
Prepare(phase) == [IdlePrep EXCEPT !.phase = phase]
Allowances == {NoAllowance} \union {[amount |-> Unlimited, expiration |-> e, nonce |-> 0] : e \in Expirations}

BuyInit ==
    /\ field = 0 /\ slip = DefaultSlip /\ quote = NoQuote
    /\ prep = IdlePrep /\ locked = NoLock /\ fresh = NoFresh
    /\ market \in [canReceive : {TRUE}, approved : {0, Unlimited}, router : Allowances]
    /\ seen = [loaded |-> FALSE, approved |-> 0, router |-> NoAllowance]
    /\ terms = NoTerms /\ agreed = NoTerms

(* ------------------------------ what shows ------------------------------ *)

PrepBusy == prep.phase \in {"preparing", "permit"}
BuyBusy == PrepBusy \/ Busy
LiveQuote == quote # NoQuote
Minimum == MinAmountOut(quote.out, slip)
Locked == (BuyBusy \/ prep.phase = "reviewReuse") /\ locked.amountIn = field
ShownMinimumLive == Minimum                                                \* mutant
ShownMinimum == IF Locked THEN locked.minimum ELSE Minimum
DisplayedAllowance ==
    IF fresh.amountIn = field /\ fresh.direct THEN fresh.allowance
    ELSE IF ~BuyBusy /\ field > 0 /\ ~NeedsPermit(seen.router, field) THEN seen.router
    ELSE NoAllowance
NeedsApproval == field > 0 /\ seen.loaded /\ NeedsPermit2Approval(seen.approved, field)

CanSubmit == /\ ChainOk /\ field > 0 /\ seen.loaded
             /\ LiveQuote /\ Minimum > 0 /\ ~BuyBusy

(* ----------------------------- reads, inputs ----------------------------- *)

Refetch ==
    /\ account # NoOne
    /\ seen' = [loaded |-> TRUE, approved |-> market.approved, router |-> market.router]
    /\ UNCHANGED <<flowVars, field, slip, quote, prep, locked, fresh, market, terms, agreed>>

\* The interval refetch, one at a time; a failed one leaves no quote to show.
Requote ==
    /\ field > 0
    /\ quote' \in {NoQuote} \union [out : Outs, old : {FALSE}]
    /\ UNCHANGED <<flowVars, field, slip, prep, locked, fresh, market, seen, terms, agreed>>

QuoteAges ==
    /\ LiveQuote /\ quote' = [quote EXCEPT !.old = TRUE]
    /\ UNCHANGED <<flowVars, field, slip, prep, locked, fresh, market, seen, terms, agreed>>

\* changeAmount: the quote for another amount may still be in the cache.
ChangeAmount ==
    /\ ~BuyBusy
    /\ \E amount \in Amounts \ {field} : field' = amount
    /\ quote' \in {NoQuote} \union [out : Outs, old : {TRUE}]
    /\ locked' = NoLock /\ fresh' = NoFresh
    /\ prep' = IF prep.phase \in {"notice", "error", "reviewReuse"} THEN IdlePrep ELSE prep
    /\ UNCHANGED <<flowVars, slip, market, seen, terms, agreed>>

\* Another limit changes neither the locked quote nor the review.
ChangeSlippage ==
    /\ ~BuyBusy
    /\ slip' \in Slips \ {slip}
    /\ UNCHANGED <<flowVars, field, quote, prep, locked, fresh, market, seen, terms, agreed>>

(* -------------------------------- the button -------------------------------- *)

\* approve and buy begin alike: the write flow is reset and the card prepares.
Begin(op, amountIn, minimum, review) ==
    /\ ResetFlow
    /\ fresh' = NoFresh
    /\ prep' = [Prepare("preparing") EXCEPT !.op = op, !.amountIn = amountIn,
                                            !.minimum = minimum, !.review = review]
    /\ UNCHANGED <<account, node, gate, polls, txs, moves, field, slip, market, seen, terms>>

Notice == /\ prep' = Prepare("notice")
          /\ quote' \in {NoQuote, quote} \union [out : Outs, old : {FALSE}]
          /\ UNCHANGED <<flowVars, field, slip, locked, fresh, market, seen, terms, agreed>>

PressApprove ==
    /\ CanSubmit /\ NeedsApproval
    /\ locked' = NoLock
    /\ Begin("approve", 0, 0, NoReview) /\ UNCHANGED <<quote, agreed>>

PressStale == CanSubmit /\ ~NeedsApproval /\ quote.old /\ Notice

PressBuy ==
    /\ CanSubmit /\ ~NeedsApproval /\ ~quote.old /\ prep.phase # "reviewReuse"
    /\ locked' = [amountIn |-> field, out |-> quote.out, minimum |-> Minimum]
    /\ agreed' = [amountIn |-> field, minimum |-> ShownMinimum, allowance |-> NoAllowance]
    /\ Begin("buy", field, Minimum, NoReview) /\ UNCHANGED quote

PressContinue ==
    /\ CanSubmit /\ ~NeedsApproval /\ ~quote.old /\ prep.phase = "reviewReuse"
    /\ IF locked.amountIn # field THEN Notice
       ELSE /\ agreed' = [amountIn |-> field, minimum |-> ShownMinimum,
                          allowance |-> IF prep.review.direct THEN DisplayedAllowance ELSE NoAllowance]
            /\ Begin("buy", locked.amountIn, locked.minimum, prep.review)
            /\ UNCHANGED <<quote, locked>>

(* ----------------------------- the preparation ----------------------------- *)

PrepError == prep' = Prepare("error") /\ UNCHANGED <<runs, status, txs, moves>>

PrepFails ==
    /\ PrepBusy /\ PrepError /\ agreed' = NoTerms
    /\ UNCHANGED <<account, node, gate, polls, field, slip, quote, locked, fresh, market, seen, terms>>

\* The blocked buyer learns it before anything is signed.
ApprovePrepared ==
    /\ prep.phase = "preparing" /\ prep.op = "approve"
    /\ IF market.canReceive THEN prep' = IdlePrep /\ Start("approve") ELSE PrepError
    /\ UNCHANGED <<account, node, gate, polls, field, slip, quote, locked, fresh, market, seen, terms, agreed>>

\* buildBuyExecuteArgs, read back before the write flow gets them.
HandOver(permit, allowance) ==
    LET args == BuildBuyExecuteArgs(prep.amountIn, prep.minimum, permit)
        signing == permit # NoPermit
    IN  IF BuyArgsMatch(args, prep.amountIn, prep.minimum, signing, permit.nonce)
        THEN /\ prep' = IdlePrep /\ Start("buy")
             /\ terms' = [amountIn |-> args.swap.amountIn, minimum |-> args.swap.minimum,
                          allowance |-> IF signing THEN NoAllowance ELSE allowance]
        ELSE PrepError /\ UNCHANGED terms

BuyPrepared ==
    /\ prep.phase = "preparing" /\ prep.op = "buy"
    /\ LET amountIn == prep.amountIn
           router == market.router
           direct == ~NeedsPermit(router, amountIn)
           review == [amountIn |-> amountIn, minimum |-> prep.minimum, allowance |-> router, direct |-> direct]
           freshly == [amountIn |-> amountIn, allowance |-> router, direct |-> direct]
       IN  CASE ~market.canReceive ->
                  PrepError /\ UNCHANGED <<fresh, terms>>
             [] market.canReceive /\ Standing(router, amountIn) /\ prep.review # review ->
                  /\ prep' = [Prepare("reviewReuse") EXCEPT !.review = review]
                  /\ fresh' = freshly
                  /\ UNCHANGED <<runs, status, txs, moves, terms>>
             [] OTHER ->
                  /\ fresh' = freshly
                  /\ IF direct THEN HandOver(NoPermit, router)
                     ELSE /\ prep' = [prep EXCEPT !.phase = "permit",
                                        !.permit = BuildPermitSingle(amountIn, router.nonce)]
                          /\ UNCHANGED <<runs, status, txs, moves, terms>>
    /\ UNCHANGED <<account, node, gate, polls, field, slip, quote, locked, market, seen, agreed>>

PermitSigned ==
    /\ prep.phase = "permit"
    /\ HandOver(prep.permit, NoAllowance)
    /\ UNCHANGED <<account, node, gate, polls, field, slip, quote, locked, fresh, market, seen, agreed>>

(* --------------------------- the flow and the world --------------------------- *)

\* A buy the flow still runs or waits for.
LiveBuy == \/ \E i \in Slots : runs[i].live /\ runs[i].op = "buy"
           \/ status.phase = "pending" /\ txs[status.tx].op = "buy"

BuyAdvance(i) ==
    /\ Advance(i)
    /\ IF PrepBusy \/ LiveBuy' THEN UNCHANGED <<terms, agreed>> ELSE terms' = NoTerms /\ agreed' = NoTerms
    /\ UNCHANGED <<field, slip, quote, prep, locked, fresh, market, seen>>

\* onSuccess clears the amount; invalidateQueries has refreshed every read.
BuyRefreshed(i) ==
    /\ Refreshed(i)
    /\ seen' = [loaded |-> TRUE, approved |-> market.approved, router |-> market.router]
    /\ IF Succeeds(i) /\ runs[i].op = "buy"
       THEN field' = 0 /\ quote' = NoQuote ELSE UNCHANGED <<field, quote>>
    /\ IF PrepBusy \/ LiveBuy' THEN UNCHANGED <<terms, agreed>> ELSE terms' = NoTerms /\ agreed' = NoTerms
    /\ UNCHANGED <<slip, prep, locked, fresh, market>>

\* A signed permit replaces the standing allowance and the swap uses it up; what a forgotten
\* buy did is part of what the next session finds.
BuyMine(k) ==
    /\ Mine(k)
    /\ market' = IF txs'[k].fate # "ok" \/ txs[k].forgotten THEN market
                 ELSE IF txs[k].op = "approve" THEN [market EXCEPT !.approved = Unlimited]
                 ELSE IF terms.allowance # NoAllowance THEN market
                 ELSE [market EXCEPT !.router = [NoAllowance EXCEPT !.nonce = market.router.nonce + 1]]
    /\ UNCHANGED <<field, slip, quote, prep, locked, fresh, seen, terms, agreed>>

\* Compliance decides, or another site of the same wallet changes its Permit2 allowance.
MarketMoves ==
    /\ \/ market' = [market EXCEPT !.canReceive = ~@]
       \/ \E a \in Allowances : a # market.router /\ market' = [market EXCEPT !.router = a]
    /\ Move
    /\ UNCHANGED <<account, node, gate, polls, status, runs, txs, field, slip, quote, prep,
                   locked, fresh, seen, terms, agreed>>

\* The preparation belongs to the account that started it.
BuySwitchAccount ==
    /\ SwitchAccount
    /\ prep' = IdlePrep /\ locked' = NoLock /\ fresh' = NoFresh
    /\ market' \in [canReceive : {TRUE}, approved : {Unlimited}, router : Allowances]
    /\ seen' = [loaded |-> FALSE, approved |-> 0, router |-> NoAllowance]
    /\ terms' = NoTerms /\ agreed' = NoTerms
    /\ UNCHANGED <<field, slip, quote>>

BuyNext ==
    \/ Refetch \/ Requote \/ QuoteAges \/ ChangeAmount \/ ChangeSlippage
    \/ PressApprove \/ PressStale \/ PressBuy \/ PressContinue
    \/ PrepFails \/ ApprovePrepared \/ BuyPrepared \/ PermitSigned
    \/ MarketMoves \/ BuySwitchAccount
    \/ \E i \in Slots : BuyAdvance(i) \/ BuyRefreshed(i)
    \/ \E k \in DOMAIN txs : BuyMine(k)
    \/ (Recheck \/ PollArrives \/ SwitchNode \/ StopWaiting) /\ UNCHANGED buyVars

BuySpec == BuyInit /\ FlowInit /\ [][BuyNext]_<<flowVars, buyVars>>

(* ------------------------------ properties ------------------------------ *)

\* While a buy is with the wallet or on its way, the amount, the minimum and the allowance it
\* spends are those on screen, and those the buyer saw when pressing the button, however the
\* quote, the slippage limit and the allowance moved since (BuyUsdfrPanel.tsx act, buy).
SignedAsReviewed ==
    LiveBuy =>
        /\ terms.amountIn = agreed.amountIn /\ agreed.amountIn = field
        /\ terms.minimum = agreed.minimum /\ agreed.minimum = ShownMinimum
        /\ \/ terms.allowance = NoAllowance
           \/ terms.allowance = agreed.allowance /\ terms.allowance = DisplayedAllowance
=============================================================================
