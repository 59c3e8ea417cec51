-------------------------- MODULE MorphoMarketPage --------------------------
(***************************************************************************)
(* The market page with a browser wallet                                    *)
(* (frontend/src/components/app/MorphoMarketSurface.tsx, the path of submit *)
(* that ends in flow.run): a verified snapshot with an expiring quote is    *)
(* read again on submission, checked again before the wallet opens and      *)
(* shown for as long as the wallet has it.  Two actions stand for the six:  *)
(* repaying, which needs an allowance, and borrowing, which needs the       *)
(* launch flag and the risk acknowledged.  Amounts are in MorphoQuote.      *)
(***************************************************************************)
EXTENDS WriteFlow

CONSTANTS MaxQuotes       \* bound: snapshots read

Actions == {"repay", "borrow"}

VARIABLES form,       \* the action, and riskAccepted
          world,      \* the launch flag, and the accounts whose allowance covers a repayment
          snap,       \* the last snapshot: whose, its quote, and what it showed
          quotes,     \* quotes issued; those up to `expired` have expired
          expired,
          submission, \* submit, while locked
          prepared    \* preparedQuote

marketVars == <<form, world, snap, quotes, expired, submission, prepared>>

NoSnap == [of |-> NoOne, quote |-> 0, open |-> FALSE, fits |-> FALSE]
NoSubmission == [pc |-> "none", by |-> NoOne, action |-> "none", approve |-> FALSE, quote |-> 0]

MarketInit ==
    /\ form = [action |-> "repay", risk |-> FALSE] /\ world = [open |-> TRUE, allowed |-> {}]
    /\ snap = NoSnap /\ quotes = 0 /\ expired = 0 /\ submission = NoSubmission /\ prepared = 0

PageBusy == submission.pc # "none" \/ Busy
\* A refresh gives a write in flight no new expiry.
DisplayedQuote == IF PageBusy /\ prepared # 0 THEN prepared ELSE snap.quote
QuoteCurrent(quote) == quote > expired

\* readMorphoMarket and loadLaunch, every 15 s; what the amount fits is in MorphoQuote.
ReadMarket ==
    /\ quotes < MaxQuotes /\ quotes' = quotes + 1
    /\ \E fits \in BOOLEAN : snap' = [of |-> account, quote |-> quotes', open |-> world.open, fits |-> fits]
    /\ UNCHANGED <<flowVars, form, world, expired, submission, prepared>>

Expire ==
    /\ expired' \in (expired + 1)..quotes
    /\ UNCHANGED <<flowVars, form, world, snap, quotes, submission, prepared>>

SwitchAction ==
    /\ ~PageBusy
    /\ \E action \in Actions \ {form.action} : form' = [action |-> action, risk |-> FALSE]
    /\ UNCHANGED <<flowVars, world, snap, quotes, expired, submission, prepared>>

AcknowledgeRisk ==
    /\ ~PageBusy /\ form' = [form EXCEPT !.risk = ~@]
    /\ UNCHANGED <<flowVars, world, snap, quotes, expired, submission, prepared>>

(* -------------------------------- submit -------------------------------- *)

\* disabledReason, busy and locked.
Submit ==
    /\ account # NoOne /\ RightNetwork /\ ~PageBusy
    /\ snap.of = account /\ QuoteCurrent(snap.quote) /\ snap.fits
    /\ form.action = "borrow" => snap.open /\ form.risk
    /\ submission' = [NoSubmission EXCEPT !.pc = "reading", !.by = account, !.action = form.action]
    /\ UNCHANGED <<flowVars, form, world, snap, quotes, expired, prepared>>

SubmitEnds == submission' = NoSubmission

SubmitFails ==
    /\ submission.pc \in {"reading", "checking"} /\ SubmitEnds
    /\ UNCHANGED <<flowVars, form, world, snap, quotes, expired, prepared>>

\* The launch flag and the market, read anew for the account that pressed.
SubmitReads ==
    /\ submission.pc = "reading" /\ quotes < MaxQuotes
    /\ quotes' = quotes + 1 /\ prepared' = quotes'
    /\ IF submission.action = "borrow" /\ ~world.open THEN SubmitEnds
       ELSE submission' = [submission EXCEPT !.pc = "checking", !.quote = quotes',
                             !.approve = submission.action = "repay" /\ submission.by \notin world.allowed]
    /\ UNCHANGED <<flowVars, form, world, snap, expired>>

SubmitRuns ==
    /\ submission.pc = "checking" /\ QuoteCurrent(submission.quote)
    /\ submission' = [submission EXCEPT !.pc = "running"]
    /\ StartFor(IF submission.approve THEN "approve" ELSE submission.action, submission.by)
    /\ UNCHANGED <<account, node, gate, polls, form, world, snap, quotes, expired, prepared>>

SubmitReturns ==
    /\ submission.pc = "running" /\ \A i \in Slots : runs[i].pc = "none"
    /\ SubmitEnds
    /\ UNCHANGED <<flowVars, form, world, snap, quotes, expired, prepared>>

\* assertBeforeWallet, the last thing before the wallet opens.
OpenWallet(i) ==
    /\ runs[i].pc = "estimate"
    /\ IF Current(runs[i]) /\ ~QuoteCurrent(submission.quote)
       THEN /\ Say(runs[i], Of(runs[i], "error")) /\ Done(i)
            /\ UNCHANGED <<account, node, gate, polls, txs, moves>>
       ELSE Estimate(i)
    /\ UNCHANGED marketVars

\* The market is read again before success is said.
MarketRefreshed(i) ==
    /\ Refreshed(i)
    /\ IF Succeeds(i) THEN snap' = NoSnap ELSE UNCHANGED snap
    /\ UNCHANGED <<form, world, quotes, expired, submission, prepared>>

MarketMine(k) ==
    /\ Mine(k)
    /\ world' = [world EXCEPT !.allowed = IF txs'[k].fate # "ok" THEN @
                                          ELSE IF txs[k].op = "approve" THEN @ \union {txs[k].by}
                                          ELSE @ \ {txs[k].by}]
    /\ UNCHANGED <<form, snap, quotes, expired, submission, prepared>>

Launch ==
    /\ world' = [world EXCEPT !.open = ~@]
    /\ Move /\ UNCHANGED <<account, node, gate, polls, status, runs, txs, form, snap, quotes, expired,
                           submission, prepared>>

MarketNext ==
    \/ ReadMarket \/ Expire \/ SwitchAction \/ AcknowledgeRisk \/ Launch
    \/ Submit \/ SubmitFails \/ SubmitReads \/ SubmitRuns \/ SubmitReturns
    \/ \E i \in Slots : OpenWallet(i) \/ MarketRefreshed(i)
    \/ \E k \in DOMAIN txs : MarketMine(k)
    \/ /\ \/ SwitchAccount
          \/ \E i \in Slots : \/ Throws(i) \/ Probe(i) \/ Simulate(i) \/ Reprobe(i) \/ WalletRefuses(i)
                              \/ WalletSends(i) \/ NoReceipt(i) \/ Receipt(i)
       /\ UNCHANGED marketVars

MarketSpec == FlowInit /\ MarketInit /\ [][MarketNext]_<<flowVars, marketVars>>

(* ------------------------------ properties ------------------------------ *)

\* "A background refresh must not give a pending wallet request a new expiry": while the wallet
\* has a write, the quote on screen is the one its amounts were computed from.
QuoteIsTheWrites ==
    status.phase \in {"signing", "pending"} /\ submission.pc = "running" => DisplayedQuote = submission.quote
=============================================================================
