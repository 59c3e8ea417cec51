-------------------------- MODULE RedemptionQueue --------------------------
(***************************************************************************)
(* The redemption queue (contracts/src/RedemptionQueue.sol) on top of the  *)
(* senior vault it alone may redeem from.  Holders queue shares; a keeper  *)
(* closes epochs in chunks: the first call past the heartbeat freezes a    *)
(* budget and an economic floor, each call quotes one FIFO batch, redeems  *)
(* it from the vault at once and credits the requests it filled.           *)
(*                                                                         *)
(* Time is relative: a request has an age (saturating at the largest       *)
(* cooldown) and the epoch the time it still has to run.  A call that      *)
(* reverts is a call that is not enabled.  Requests are numbered from 1.   *)
(***************************************************************************)
EXTENDS SeniorVault, Sums, Sequences, FiniteSetsExt

CONSTANTS
  Bps,               \* Config.BPS
  MinResidueValue,   \* MIN_RESIDUE_VALUE
  MaxMinValue,       \* MAX_MIN_REDEMPTION_VALUE
  DefaultCooldown,   \* Config.DEFAULT_REDEEM_COOLDOWN
  MaxCooldown,       \* Config.MAX_REDEEM_COOLDOWN
  Durations,         \* epoch durations governance may set
  Cooldowns,         \* cooldowns governance may set
  LiquidityShares,   \* epochLiquidityBps values governance may set
  MinValues,         \* floors governance may set
  IdleLevels,        \* levels of the treasury's idle stables
  Sizes,             \* share amounts a holder requests to redeem
  Chunks,            \* maxRequests values a keeper passes
  MaxRequests        \* bound on the number of requests ever made

ASSUME QueueAssumption ==
  /\ Bps \in Nat \ {0}
  /\ MinResidueValue \in Nat \ {0}
  /\ MaxMinValue \in Nat
  /\ DefaultCooldown \in Nat
  /\ MaxCooldown \in Nat
  /\ DefaultCooldown <= MaxCooldown
  /\ Durations \subseteq Nat
  /\ Cooldowns \subseteq Nat
  /\ LiquidityShares \subseteq Nat
  /\ MinValues \subseteq Nat
  /\ IdleLevels \subseteq Nat
  /\ Sizes \subseteq Nat \ {0}
  /\ Chunks \subseteq Nat \ {0}

VARIABLES
  requests,       \* every request ever made, in order
  head,           \* first request not fully filled
  queuedShares,   \* totalQueuedShares
  cash,           \* USDfr the queue holds
  settling,       \* a settlement is open between two calls
  budget,         \* settlementBudget: what it may still distribute
  distributed,    \* settlementDistributed
  minAtOpen,      \* settlementMinValue: the floor it opened under
  opened,         \* history: the budget it opened with
  epochLeft,      \* time to epochEndsAt
  epochDuration, liquidityBps, cooldown, minValue,
  idle            \* reserves.idleReserve()

configVars == <<epochDuration, liquidityBps, cooldown, minValue>>
settlementVars == <<settling, budget, distributed, minAtOpen, opened>>
bookVars == <<requests, head, queuedShares, cash>>
queueVars == <<bookVars, settlementVars, configVars, epochLeft, idle>>
vars == <<vaultVars, queueVars>>

----------------------------------------------------------------------------
(* The book *)

NumRequests == Len(requests)
Drained == head > NumRequests
Eligible(i) == requests[i].age >= cooldown
HeadReady == ~Drained /\ Eligible(head)

\* shares the first n requests still ask for, USDfr they have yet to claim
Asked(n) == SumTo([i \in 1..NumRequests |-> requests[i].shares], n)
Claimable(n) == SumTo([i \in 1..NumRequests |-> requests[i].claimable], n)

\* availableLiquidity()
Available == FloorDiv(idle * liquidityBps, Bps)

----------------------------------------------------------------------------
(* Selecting one batch at one price p under the budget b *)

\* _safeBatchFill: how much of a request of `wanted' shares is taken when
\* `prior' shares are selected already and `room' more fit the budget
NaiveFill(p, b, prior, room, wanted) ==                        \* mutant
  [shares |-> Lesser(wanted, room), withheld |-> 0]
SafeFill(p, b, prior, room, wanted) ==
  LET capped   == Lesser(wanted, room)
      residue  == SharesToWithdraw(p, MinResidueValue)
      reduced  == Minus(wanted, residue)
      completes == /\ AssetsFor(p, room) # 0
                   /\ AssetsFor(p, prior + wanted) <= b
  IN  IF \/ capped = wanted
         \/ wanted - capped >= residue
      THEN [shares |-> capped, withheld |-> 0]
      ELSE IF completes
      THEN [shares |-> wanted, withheld |-> 0]
      ELSE [shares |-> reduced,
            withheld |-> AssetsFor(p, prior + capped) - AssetsFor(p, prior + reduced)]

\* what the selection does with request i: everything from the head to i - 1
\* is filled whole
Prior(i) == Asked(i - 1) - Asked(head - 1)
FillAt(p, b, i) ==
  SafeFill(p, b, Prior(i), SharesFor(p, b) - Prior(i), requests[i].shares)
TakenEarly(p, b, i) ==                                         \* mutant
  /\ SharesFor(p, b) > Prior(i)
  /\ AssetsFor(p, FillAt(p, b, i).shares) # 0
TakenUnlessSanctioned(p, b, i) ==                              \* mutant
  /\ TakenEarly(p, b, i)
  /\ Eligible(i)
  /\ requests[i].owner \notin sanctioned
TakenWorthless(p, b, i) ==                                     \* mutant
  /\ Eligible(i)
  /\ SharesFor(p, b) > Prior(i)
Taken(p, b, i) ==
  /\ Eligible(i)
  /\ SharesFor(p, b) > Prior(i)
  /\ AssetsFor(p, FillAt(p, b, i).shares) # 0
TakenWhole(p, b, i) ==
  /\ Taken(p, b, i)
  /\ FillAt(p, b, i).shares = requests[i].shares
  /\ Prior(i + 1) < SharesFor(p, b)

\* why the selection stops at request i (stopReason 1, 2 and 3)
StopAt(p, b, i) ==
  IF ~Eligible(i) THEN "cooldown"
  ELSE IF /\ SharesFor(p, b) > Prior(i)
          /\ AssetsFor(p, FillAt(p, b, i).shares) = 0
          /\ AssetsFor(p, requests[i].shares) = 0 THEN "worthless"
  ELSE "budget"

\* _selectPricingBatch: what each request gives up, the last request filled,
\* the reason the selection stopped ("chunk": only maxRequests did) and what
\* Q-01 held back
Batch(last, stop, withheld, fill(_)) ==
  [last |-> last, stop |-> stop, withheld |-> withheld,
   fill |-> [i \in 1..NumRequests |-> IF i \in head..last THEN fill(i) ELSE 0]]
SelectBatch(p, b, max) ==
  LET end     == Lesser(NumRequests, head + max - 1)
      ends    == {i \in head..end : ~TakenWhole(p, b, i)}
      x       == Min(ends)
      fill(i) == FillAt(p, b, i).shares
      whole(i) == requests[i].shares
  IN  IF end < head THEN Batch(head - 1, "chunk", 0, whole)
      ELSE IF SharesFor(p, b) = 0 THEN Batch(head - 1, "budget", 0, whole)
      ELSE IF ends = {} THEN Batch(end, "chunk", 0, whole)
      ELSE Batch(IF Taken(p, b, x) THEN x ELSE x - 1,
                 StopAt(p, b, x),
                 IF Eligible(x) /\ SharesFor(p, b) > Prior(x) THEN FillAt(p, b, x).withheld ELSE 0,
                 fill)

BatchShares(batch) == SumTo(batch.fill, NumRequests)

\* _allocateBatchReceipt: each fill gets its own floor quote, the last one
\* what is left of the receipt
QuotedBefore(p, batch) ==
  SumTo([i \in 1..NumRequests |-> AssetsFor(p, batch.fill[i])], batch.last - 1)
PayoutWithoutDust(p, batch, received, i) == AssetsFor(p, batch.fill[i])   \* mutant
Payout(p, batch, received, i) ==
  IF i = batch.last THEN received - QuotedBefore(p, batch) ELSE AssetsFor(p, batch.fill[i])

----------------------------------------------------------------------------
(* Holders *)

\* requestRedeem(shares): admitted at the realized, post-fee value
RequestRedeem(u, s) ==
  /\ "queuePaused" \notin halts
  /\ Fresh
  /\ NumRequests < MaxRequests
  /\ bal[u] >= s
  /\ u \notin sanctioned
  /\ \E f \in FeesDue :
       /\ AssetsFor(Price(TotalAssets, supply + f), s) >= minValue
       /\ supply' = supply + f
       /\ bal' = [Credit(bal, FeeRecipient, f) EXCEPT ![u] = @ - s, ![Queue] = @ + s]
  /\ requests' = Append(requests, [owner |-> u, age |-> 0, shares |-> s, claimable |-> 0])
  /\ queuedShares' = queuedShares + s
  /\ UNCHANGED <<held, stream, vesting, mark, halts, sanctioned>>
  /\ UNCHANGED <<head, cash, settlementVars, configVars, epochLeft, idle>>

\* claim(requestId), by its owner; open while the queue is paused
Claim(i) ==
  /\ requests[i].claimable # 0
  /\ requests[i].owner \notin sanctioned
  /\ TokenOpen
  /\ requests' = [requests EXCEPT ![i].claimable = 0]
  /\ cash' = cash - requests[i].claimable
  /\ UNCHANGED <<vaultVars, head, queuedShares, settlementVars, configVars, epochLeft, idle>>

----------------------------------------------------------------------------
(* Settlement *)

\* the head moves past the last request of the batch only when that is full
HeadPastBatch(batch) == batch.last + 1                         \* mutant
HeadAfter(batch) ==
  IF batch.fill[batch.last] = requests[batch.last].shares THEN batch.last + 1 ELSE batch.last

\* _executePricingBatch and _allocateBatchReceipt on a nonempty batch.  It
\* runs after the fees f and leaves the stream capped to what stays behind.
Execute(p, b, batch, f, released) ==
  LET burned   == BatchShares(batch)
      received == AssetsFor(p, burned)
  IN  IF burned = 0
      THEN /\ supply' = supply + f
           /\ bal' = Credit(bal, FeeRecipient, f)
           /\ stream' = released
           /\ UNCHANGED <<held, bookVars>>
      ELSE /\ VaultOpen
           /\ received <= b
           /\ burned <= bal[Queue]
           /\ supply' = supply + f - burned
           /\ bal' = [Credit(bal, FeeRecipient, f) EXCEPT ![Queue] = @ - burned]
           /\ held' = held - received
           /\ stream' = Capped(released, held, received)
           /\ cash' = cash + received
           /\ queuedShares' = queuedShares - burned
           /\ requests' = [i \in 1..NumRequests |->
                [requests[i] EXCEPT !.shares = @ - batch.fill[i],
                                    !.claimable = @ + Payout(p, batch, received, i)]]
           /\ head' = HeadAfter(batch)

\* closeEpoch(maxRequests).  First every call opens or continues: the budget
\* is frozen at opening and shrunk to the live cap, the stream and the fees
\* are brought up to date, one batch is filled.  Then it either stays open,
\* closes the epoch, or reverts.
BudgetReread == Available                                      \* mutant
CallBudget == Lesser(IF settling THEN budget ELSE Available, Available)
CallDistributed == IF settling THEN distributed ELSE 0
CallFloor == IF settling THEN minAtOpen ELSE minValue
\* prepareRedemptionPricing recognizes yield only when the head can be filled
ReleasedNothing == stream                                      \* mutant
Released == IF HeadReady THEN Capped(stream, held, CallBudget) ELSE stream
CallPrice(f) == Price(ExitAssets(held, Released, mark), supply + f)

\* RC-01: a chunk may only commit a settlement that can still reach its floor
CommitAlways == TRUE                                           \* mutant
Reachable == CallDistributed + CallBudget >= CallFloor
\* A1: with requests waiting, the heartbeat is spent only on a real payment
SpendAlways(spent, withheld) == TRUE                           \* mutant
EarnsHeartbeat(spent, withheld) ==
  /\ CallDistributed + spent # 0
  /\ CallDistributed + spent + withheld >= CallFloor

StayOpen(spent) ==
  /\ Reachable
  /\ settling' = TRUE
  /\ budget' = CallBudget - spent
  /\ distributed' = CallDistributed + spent
  /\ minAtOpen' = CallFloor
  /\ opened' = IF settling THEN opened ELSE CallBudget
  /\ UNCHANGED epochLeft

CloseOut(spent, withheld) ==
  /\ Drained' \/ EarnsHeartbeat(spent, withheld)
  /\ settling' = FALSE
  /\ budget' = 0
  /\ distributed' = 0
  /\ minAtOpen' = CallFloor
  /\ opened' = 0
  /\ epochLeft' = epochDuration

CloseEpoch(max) ==
  /\ "queuePaused" \notin halts
  /\ "exitsLocked" \notin halts
  /\ Fresh
  /\ settling \/ epochLeft = 0
  /\ \E f \in FeesDue : \E p \in {CallPrice(f)} : \E batch \in {SelectBatch(p, CallBudget, max)} :
       /\ Execute(p, CallBudget, batch, f, Released)
       /\ IF ~Drained' /\ batch.stop = "chunk"
          THEN StayOpen(AssetsFor(p, BatchShares(batch)))
          ELSE CloseOut(AssetsFor(p, BatchShares(batch)), batch.withheld)
  /\ UNCHANGED <<vesting, mark, halts, sanctioned, configVars, idle>>

----------------------------------------------------------------------------
(* Governance and environment *)

SetEpochDuration(d) ==
  /\ d # 0
  /\ epochDuration' = d
  /\ UNCHANGED <<vaultVars, bookVars, settlementVars, epochLeft, idle, liquidityBps, cooldown, minValue>>

SetEpochLiquidityBps(x) ==
  /\ x \in 1..Bps
  /\ liquidityBps' = x
  /\ UNCHANGED <<vaultVars, bookVars, settlementVars, epochLeft, idle, epochDuration, cooldown, minValue>>

SetRedeemCooldown(c) ==
  /\ c \in DefaultCooldown..MaxCooldown
  /\ cooldown' = c
  /\ UNCHANGED <<vaultVars, bookVars, settlementVars, epochLeft, idle, epochDuration, liquidityBps, minValue>>

\* zero disables the floor; between zero and MinResidueValue it is refused
SetMinRedemptionValue(v) ==
  /\ v = 0 \/ v \in MinResidueValue..MaxMinValue
  /\ minValue' = v
  /\ UNCHANGED <<vaultVars, bookVars, settlementVars, epochLeft, idle, epochDuration, liquidityBps, cooldown>>

Tick ==
  /\ requests' = [i \in 1..NumRequests |->
                    [requests[i] EXCEPT !.age = Lesser(@ + 1, MaxCooldown)]]
  /\ epochLeft' = Minus(epochLeft, 1)
  /\ Vest
  /\ UNCHANGED <<head, queuedShares, cash, settlementVars, configVars, idle>>

\* the treasury deploys idle stables or gets some back
MoveReserves(x) ==
  /\ idle' = x
  /\ UNCHANGED <<vaultVars, bookVars, settlementVars, configVars, epochLeft>>

----------------------------------------------------------------------------

Init ==
  /\ VaultInit
  /\ requests = <<>> /\ head = 1 /\ queuedShares = 0 /\ cash = 0
  /\ settling = FALSE /\ budget = 0 /\ distributed = 0 /\ minAtOpen = 0 /\ opened = 0
  /\ epochDuration \in Durations
  /\ epochLeft = epochDuration
  /\ liquidityBps \in LiquidityShares
  /\ cooldown = DefaultCooldown
  /\ minValue \in MinValues
  /\ idle \in IdleLevels

Keeper == \E max \in Chunks : CloseEpoch(max)

Configure ==
  \/ \E d \in Durations \ {epochDuration} : SetEpochDuration(d)
  \/ \E x \in LiquidityShares \ {liquidityBps} : SetEpochLiquidityBps(x)
  \/ \E c \in Cooldowns \ {cooldown} : SetRedeemCooldown(c)
  \/ \E v \in MinValues \ {minValue} : SetMinRedemptionValue(v)

Next ==
  \/ \E u \in Users, s \in Sizes : RequestRedeem(u, s)
  \/ \E i \in 1..NumRequests : Claim(i)
  \/ Keeper
  \/ Configure
  \/ \E x \in IdleLevels \ {idle} : MoveReserves(x)
  \/ Tick
  \/ VaultNext /\ UNCHANGED queueVars

Spec == Init /\ [][Next]_vars

\* The keeper role is held by operators whose duty is to keep calling, and
\* time passes: nothing else in the system is obliged to act.
FairSpec == Spec /\ WF_vars(Keeper) /\ WF_vars(Tick)

----------------------------------------------------------------------------
(* Properties *)

\* Every variable has its type: the assets and shares are natural numbers,
\* the head is one of the requests or one past the last.
Request == [owner : Users, age : 0..MaxCooldown, shares : Nat, claimable : Nat]

TypeOK ==
  /\ VaultTypeOK
  /\ requests \in Seq(Request)
  /\ head \in Nat \ {0}
  /\ queuedShares \in Nat /\ cash \in Nat
  /\ settling \in BOOLEAN
  /\ budget \in Nat /\ distributed \in Nat /\ minAtOpen \in Nat /\ opened \in Nat
  /\ epochLeft \in Nat /\ epochDuration \in Nat
  /\ liquidityBps \in Nat /\ minValue \in Nat /\ idle \in Nat
  /\ cooldown \in DefaultCooldown..MaxCooldown

\* The queue holds the shares it owes a settlement for and exactly the USDfr
\* it owes its claimants, however batches were cut and rounding dust fell
\* (_executePricingBatch, _allocateBatchReceipt, claim).
Custody ==
  /\ queuedShares = Asked(NumRequests)
  /\ bal[Queue] >= queuedShares
  /\ cash = Claimable(NumRequests)

\* FIFO never inverts: exactly the requests before the head are fully filled
\* (invariant of docs/invariants.md; _allocateBatchReceipt moves the head).
FifoHead ==
  /\ head <= NumRequests + 1
  /\ \A i \in 1..NumRequests : i < head <=> requests[i].shares = 0

\* A request is filled only when every earlier one is full at the end of the
\* same call, never before its cooldown, and never for nothing: the call that
\* takes its shares credits it (C-1, closeEpoch).
FairFills ==
  [][\A i \in 1..NumRequests : requests'[i].shares < requests[i].shares =>
        /\ \A j \in 1..(i - 1) : requests'[j].shares = 0
        /\ requests[i].age >= cooldown
        /\ requests'[i].claimable > requests[i].claimable]_vars

\* A settlement never distributes more than the budget it opened with, over
\* all its chunks and whatever the live cap did between them.
BudgetBound == settling => distributed + budget <= opened

\* RC-01, C-11: an open settlement can still reach the floor it opened under;
\* no chunk, live cap or change of the floor strands it below.
FloorReachable == settling => distributed + budget >= minAtOpen

\* A1: an epoch is never consumed while requests wait unless the settlement
\* paid something and came within the Q-01 margin of its floor.
HeartbeatEarned ==
  [][epochLeft' > epochLeft =>
       LET paid == distributed + cash' - cash
       IN  \/ head' > Len(requests')
           \/ paid > 0 /\ paid + MinResidueValue >= minAtOpen']_vars

\* Q-01: a call that fills a request in part leaves it a rest still worth the
\* residue value at the price after the call, so that it cannot become a
\* head nobody can redeem.
PriceAfter == Price(ExitAssets(held, stream, mark), supply)
ResidueRedeemable ==
  [][\A i \in 1..NumRequests :
       (requests'[i].shares < requests[i].shares /\ requests'[i].shares # 0)
         => AssetsFor(PriceAfter', requests'[i].shares) >= MinResidueValue]_vars

\* The reverts of _executePricingBatch and _allocateBatchReceipt are never
\* the reason a settlement fails: on any chunk the batch fits the budget and
\* the queue's custody, and every item gets something out of the receipt.
PricingNeverReverts ==
  \A max \in Chunks, f \in FeesDue :
    LET p        == CallPrice(f)
        batch    == SelectBatch(p, CallBudget, max)
        received == AssetsFor(p, BatchShares(batch))
    IN  /\ received <= CallBudget
        /\ received <= ExitAssets(held, Released, mark)
        /\ BatchShares(batch) <= bal[Queue]
        /\ \A i \in head..batch.last : Payout(p, batch, received, i) >= AssetsFor(p, batch.fill[i])
                                    /\ Payout(p, batch, received, i) > 0

\* M-2: a chunk that leaves the settlement open leaves no yield for the next
\* chunk to recognize, so later chunks cannot step the price of the earlier.
ChunkLeavesNoStep ==
  [][(settling' /\ distributed' # distributed)
       => stream' = Capped(stream, held, budget)']_vars

\* The gross and the realized price of a share, net of the fee shares the
\* call mints, fall only when a loss is burned, and its exit price, where it is not wiped
\* out, only then or when the impairment rises: no deposit, exit, batch or yield moves value from the
\* holders who stay.
FeeSharesMinted ==   \* a transfer moves fee shares without minting any
  IF <<held, supply>>' = <<held, supply>> THEN 0 ELSE bal'[FeeRecipient] - bal[FeeRecipient]
PriceKept(before, after) ==
  after * (supply + FeeSharesMinted + VirtualShares) >= before * (supply' + VirtualShares)
NoDilution ==
  [][(~ \E a \in Amounts : BurnSeniorLoss(a)) =>
       /\ PriceKept(held + 1, held' + 1)
       /\ PriceKept(TotalAssets + 1, TotalAssets' + 1)
       /\ (mark' <= mark /\ mark <= TotalAssets) => PriceKept(ExitAssets(held, stream, mark) + 1,
                                    ExitAssets(held, stream, mark)' + 1)]_vars

\* With its keeper awake and liquidity left alone, every request is served.
EveryoneServed == \A i \in 1..MaxRequests : NumRequests >= i ~> head > i

\* The budget buys the most shares it can pay for: one share more would quote
\* above it (the NatSpec of convertToSharesAtRedemption says "the largest").
BudgetSharesMaximal ==
  \A f \in FeesDue :
    AssetsFor(CallPrice(f), SharesFor(CallPrice(f), CallBudget) + 1) > CallBudget

\* A settlement once committed always closes: closeEpoch is never left
\* reverting for ever (RC-01's claim).
SettlementCloses == settling ~> ~settling
=============================================================================
