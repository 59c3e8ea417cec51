# Verification of the Forest Road vault

TLA+ modules, TLC configurations and TLAPS proofs for the Forest Road protocol. Three
parts of the repository are modelled:

- **contracts** (`src/contracts/src`, Solidity): the senior investors' only exit, the
  redemption queue on top of the sUSDfr vault, and its backstop, sGROVE, with the GROVE
  token and the governor's vote sources. Checked on small instances, and the main
  invariants proved for every instance;
- **the points services** (`src/frontend/src/lib`, TypeScript): the server that discovers
  holders, mirrors Morpho, ranks and serves the leaderboard. Checked, with liveness, and its
  safety and the refinement of its scans proved;
- **pages, programs and releases** (`src/frontend/src`, `src/solana`, `src/tools`): every
  page that writes, signs or computes figures, the Solana curator program, and how the site
  and the program are released. Checked; that what a page says is true, that no write is sent
  twice, that what is signed was reviewed and the money of the Solana program are proved.

In section 1 to 4, what is said of contracts has paths relative to `src/contracts/src`;
the other paths start at `src`.

## 1. Inventory

The protocol lends USDC against private loans. **USDfr** is the dollar token,
minted and redeemed 1:1 by `MintRedeemController` against `ReserveManager`.
Holders stake USDfr in **sUSDfr**, an ERC-4626 vault that receives the interest.
Losses climb a cascade: curator first-loss capital, the sGROVE backstop, and last
the vault. sUSDfr can only be left through the **RedemptionQueue**.

| Component | State it keeps | Operations | Correct when |
|---|---|---|---|
| `RedemptionQueue` | FIFO requests, head, open settlement (budget, distributed, floor), epoch clock, parameters | `requestRedeem`, `claim`, `closeEpoch(max)`, setters, pause | custody matches the book; FIFO; budget never exceeded; an open settlement can close; heartbeat is earned; everyone served |
| `sUSDfr` (+ `VaultAccrualLib`, `VaultFeeMath`) | shares, USDfr balance, vesting stream, fee high-water mark | deposit, mint, redeem (queue only), transfer, `notifyYield`, `accrueFees`, vesting setter | nobody dilutes the holders who stay; stream backed; fees charged once |
| `DefaultManager`, `DefaultLossLib` | defaulted rows, past-due marks, cure windows | declare/accelerate/realize/liquidate, margin calls, exit draws | a loss is spread over the layers exactly once |
| Impairment marks (`ConservativeImpairmentMath`, `AssessedImpairmentSource`, `CommitmentLedger`) | per-class remaining principal | register, update, release, assess | mark between 0 and the at-risk senior part |
| `SGrove` | stakes, unbonds, votes, reward stream, coverage reserve | stake, unstake, fund, cover, notify and claim rewards | rewards and coverage both held; votes = active stake |
| `CuratorModule` | per-class pools and shares, rounds, freezes | post, withdraw, absorb, freeze, pre-arm | dilution pro rata; no stale share claims new capital |
| `AttestationOracle` | records, facts, digests, valuation watermarks | attest, consume, revoke | each fact realized at most once, marks only newer |
| `MintRedeemController`, `USDfr` | supply, sinks, paired yield | mint, redeem, mintYield, burnLoss | supply covered; a deficit never worsens |
| `ReserveManager` (+ `Reserve*Lib`) | idle USDC, deployed principal, loss incidents | deposit, release, deploy, payments, write-downs, incidents | custody and recognized losses agree |
| Continuous accrual (`Accrual*Lib`) | per-loan interest clocks, book totals | register, checkpoint, service, retire | sum of loans = book |
| `WaterfallEngine` | fees, receipts | fund, distribute, capitalize | every receipt distributed once |
| `ClaimBridge` | loan NFTs and lifecycle | originate, transition, amend | legal transitions only |
| `CollateralRegistry` | exposures, limits, breach latches | increase, decrease, sync | exposures = sum of loans |
| `ComplianceRegistry`, `Roles` | allow and block lists | setters | a freeze never stops the cascade or the queue |
| Governance (`FRGovernor`, `GroveToken`, `GroveVotesAggregator`) | votes | OpenZeppelin governor | no GROVE votes twice |
| `PointsModule`, `RecoveryTopUpDistributor`, `MtmAtomicExecutor` | points, Merkle rounds, - | hooks, claims, one atomic call | - |
| `src/bsc` | a fork of the contracts for BSC | | |

The rest of the repository serves these contracts, or a separate program on Solana.

| Component | State it keeps | Operations | Correct when |
|---|---|---|---|
| Points leaderboard (`lib/pointsLeaderboard.server.ts`) | discovered participants up to a block, backoff, last good board | discovery chunk by chunk, reconciliation, ranking, serving behind a CDN | no wallet lost between its scans, nothing found is undone, the board adds up, its age bounded, everyone answered |
| Morpho mirror (`lib/morphoPoints*.ts`) | rate epochs and collateral events up to a block | extend, replay, reconcile, drop | never over-awards; no build undoes a newer one |
| Write flow (`useWriteFlow.ts`, `rpcAlignment.ts`, `AppSurface.tsx`) | account, run, status | probe, simulate, send, receipt, reset | what it says is of the account shown |
| Mint, Stake, Redeem cards | mode, acknowledgement, lagging reads | approve, mint, stake, request | as above |
| Buy card (`BuyUsdfrPanel.tsx`, `uniswapV4Swap.ts`) | quote, slippage, Permit2 allowance, lock | quote, review, sign, swap | what is signed is what is on screen; one buy |
| Morpho market page (`MorphoMarketSurface.tsx`, `lib/morpho*.ts`) | snapshot, quote, submission, Safe record | borrow, repay, collateral, seed | the quote on screen is what is sent; Max stays in the buffer; one seed |
| Treasury liquidity (three `*LiquidityOperation.tsx`) | plan, browser record, job | pilot or seed, remainder or wall, recovery | stages in order and within the total, whatever is retried or begun beside it |
| Curator pages (`CuratorVaultPanel.tsx`, `EthereumCuratorPanel.tsx`) | reads with their tag, write path | post, withdraw, settle, request | the wallet's own figures; no retargeting |
| Solana vault (`src/solana/curator-vault`) | config, positions, two token accounts, roles | the 25 instructions | accounts cover positions; coupon conserved; each signer within its role |
| Figures (`YieldPositionPanel.tsx`, `lib/book.ts`, `transparencyHistory*.ts`) | cursors, event sums | sweep, advance, summarize | every event counted once |
| Curator registration (`app/api/curators/interest`) | rate gates, stored forms | admit, store, release, cleanup | registered once |
| Points pages (`PointsLeaderboard.tsx`, `PointsDashboard.tsx`, `PendlePointsCard.tsx`) | query caches | ask, retry, show | no figure of another wallet, no failure shown as a zero |
| Site release (`frontend-env-from-manifest.mjs`, `next.config.ts`, `contracts.ts`) | manifest, archive, environment, deployments | archive, export, gate, build, check | what is served is the approved deployment at a commit of main |
| Program release (`solana/curator-vault/scripts`) | source, binary, receipt, activation | build, prove, activate, snapshot | an activation is of the bytes the receipt proves |
| Docs, audit texts, layout, tests, deployment scripts | none of their own | | |

**Interactions.** The queue holds shares and USDfr and is the sole caller of
`sUSDfr.redeem`. `closeEpoch` reads idle liquidity and the exit lock from
`ReserveManager`, makes the vault cap its stream and checkpoint its fees
(`prepareRedemptionPricing`), quotes with `previewRedeem`, `previewWithdraw` and
`convertToSharesAtRedemption`, and redeems. The vault asks an impairment source for
the declared senior mark. `WaterfallEngine` delivers yield; `DefaultLossLib` burns
vault USDfr; both checkpoint the vault's fees first. USDfr and sUSDfr ask
`ComplianceRegistry` about every transfer.

**What is hard.** Transactions are atomic, so concurrency is the interleaving of
whole calls: a settlement is open across several `closeEpoch` calls while holders
deposit, yield arrives, losses are burned, governance changes the parameters it
runs under and the treasury moves the liquidity it was sampled from. A call that
reverts undoes everything, which makes "commits a state from which every later
call reverts" the typical liveness bug. Prices are rounded on every step, in
different directions, and the selection of a batch, its execution and its
allocation must agree to the wei.

In TypeScript the unit is what runs between two awaits. A page is overtaken by account and
network switches, reloads, other tabs, lost replies and nodes that lag or lie on another
branch; a service by its own concurrent requests and by a provider that caps, refuses or
shortens answers. The Solana program is atomic like the contracts, its signers are not
trusted with each other's roles. A release is a sequence of steps by hand, any of which can
be of another commit than the last. The hazards of `PROJECT.json` list each place.

## 2. Modules

| Module | Models |
|---|---|
| `SeniorVault` | sUSDfr: prices, every operation other than the exit, which belongs to the queue |
| `RedemptionQueue` | the queue, extending the vault: one specification of both |
| `GroveToken` | GROVE balances, delegation and wallet votes |
| `SGrove` | the backstop, extending GROVE: stakes, votes, rewards, coverage |
| `Sums` | a sum over `1..n`, as a recursive function |
| `MCRedemptionQueue`, `MCSGrove` | the model-checking roots |
| `SumsProofs`, `RedemptionQueueProofs` | sums, and the theorems on the queue and its vault: invariants, then what a settlement and a price may never do |
| `SGroveProofs` | lemmas on ledgers, entries and rewards, and the theorems on sGROVE |
| `PointsServicesProofs` | the theorems on the points services and the refinement of `ProgressiveIndex` |
| `SolanaVaultProofs` | the theorems on the money of the Solana vault |
| `WriteFlowProofs` | the invariant of the write hook, for any page that drives it |
| `AppPagesProofs` | what these say of `AppPages`, the seed of a Morpho market, what the points page and the Solana curator page say |
| `ReviewedPagesProofs` | that what is signed and released was reviewed, page by page |
| `ProgressiveIndex` | abstract: what a scan of the chain's events promises |
| `LeaderboardDiscovery`, `MorphoHistory` | the two scans, each shown to implement `ProgressiveIndex` |
| `LeaderboardRanking`, `LeaderboardServing` | the board as a function of its sources; its way to readers |
| `PointsServices`, `MCPointsServices` | the four services over the same chain and provider |
| `RpcAlignment`, `WriteFlow` | the alignment gate and the hook every write of the app runs through |
| `AppCards`, `SwapRoute` + `BuyPanel`, `EthereumCurator`, `MorphoMarketPage` | pages on top of `WriteFlow` |
| `LiquidityMath` + `TreasuryLiquidity` | the treasury's three liquidity panels |
| `SolanaInterface` + `SolanaVault` | the Solana program, and the interface its clients build it from |
| `CuratorPanel` | the page of a Solana curator |
| `MorphoMath` + `MorphoQuote`, `TreasurySeed` | the Morpho page's amounts; its seed through the Safe |
| `YieldHistory`, `BookFigures`, `CuratorInterest`, `PointsPages` | figures, registration, the points page |
| `FrontendRelease`, `ProgramRelease` | the releases of the site and of the Solana program |
| `AppPages`, `MCAppPages` | all pages, programs and releases, one followed at a time |

### SeniorVault

`bal`, `supply` are the share ledger; `held` is `entryAssets()` (the vault's USDfr,
with what the accrual reserve owes it); `stream` is `unvestedYield()`; `vesting` is
`yieldVestingPeriod # 0`; `mark` is `pendingSeniorImpairment()`; `halts` collects the
switches that stop calls (three pauses, a stale loan clock, the exit lock); and
`sanctioned` the frozen holders. `Price(assets, shares)` holds the two terms of a
ratio with their virtual parts; `AssetsFor`, `SharesFor`, `SharesToWithdraw`,
`AssetsToMint` are the four roundings of the code over it. The three bases are
`EntryAssets`, `TotalAssets` and `ExitAssets`.

Abstractions: the fee formula (any `f` in `FeeShares` may be minted at a
checkpoint, wherever the code has one); the linear release of the stream (any
decrease as time passes: `Vest`); the source of the mark (any value of `Marks`
at any time, which includes ramps and cures). A yield delivery is one step: it is
one transaction, and its locks stop callbacks in between. The vesting length and
deadline are not kept, only whether a window is set. A window can be open only
while no accrual reserve is bound; then `held` is the plain balance.
`withdraw` is not an action: only the queue may exit and it only calls `redeem`.

### RedemptionQueue

`requests` is the array (from 1), each with owner, age, unfilled shares and
claimable USDfr. `settling`, `budget`, `distributed`, `minAtOpen` are the storage of
an open settlement; `opened`, a history variable, is the budget it opened with;
`cash` is the USDfr the queue holds; `epochLeft` is the time to `epochEndsAt`. Time
is relative and saturates, so the state stays finite with no bound on time.

`closeEpoch` is one action, `CloseEpoch(max)`, read top to bottom as the code:
`CallBudget`, `CallFloor`, `CallDistributed` are what a call works with after opening
or continuing and after the live cap; `Released` is the stream left by
`prepareRedemptionPricing` (or untouched while the head cools down); `CallPrice` is
the one price of the call; `SelectBatch` is `_selectPricingBatch`; `Execute` is
`_executePricingBatch` with `_allocateBatchReceipt`; then `StayOpen` (the RC-01 test)
or `CloseOut` (the A1 test). A revert is an action that is not enabled: the whole
call, its fee checkpoint included, does not happen.

The loop of `_selectPricingBatch` is stated without a loop: everything from the head
to the stopping request is filled whole, so the shares selected before request `i`
are `Prior(i)`, a difference of two sums; `Taken` and `TakenWhole` are the loop's
conditions at `i`; the batch ends at the first request in the window that is not
taken whole. Left out: events, the session counter, `currentEpoch` (nothing reads
it), and the pricing-state hash, which is recorded and not compared.

### GroveToken and SGrove

Holders are `1..NumHolders` and `Nobody` is the zero address, so that sums over
holders are sums over `1..n`. `MoveVotes` is OpenZeppelin's `_moveDelegateVotes`, used by
both tokens. `custody` is the GROVE the sGROVE contract holds; it votes for nobody
because the contract never delegates, which is what makes the governor's sum of two
sources (`VotingPower`) count each GROVE once. Each action is the whole handler: `Stake`
checkpoints the index, banks the holder's reward, self-delegates with the stake held
before, adds the units, and pulls the GROVE in.

The three timestamps of the reward stream appear as two durations: `left` is
`periodFinish - now` (zero once it has passed) and `elapsed` is
`min(now, periodFinish) - lastUpdateTime`, the time that has streamed and is in no
index yet. An unbond entry keeps the time it still has to wait. `index`, `userIndex`,
`accrued` and the two divisions by and to `Wad` are as in the code.

Left out: past vote checkpoints (they are the votes of earlier instants), signatures,
the fee checkpoint that `fundCoverage` brackets in sUSDfr (it belongs to the abstracted
fee formula), and USDfr's own refusals (a pause or a freeze), which only remove calls.

### Points services

Each service is one process whose requests interleave at every await. `LeaderboardDiscovery`
extends one discovery chunk by chunk (`blockLogs`, splits, receipts of a crowded block), then
proves it against the totals of the PointsModule. `MorphoHistory` extends rate epochs and
collateral, replays them and checks them per owner. Both keep what they commit before the
next await, so a request that runs out of its budget has made progress; both drop
everything when the proof fails and rebuild after a backoff. Faults of the provider are
actions: a refusal, an outage, a lagging head, a silently shortened answer (`MaxShort` of
them), a proof whose answers are malformed and that drops the discovery (`MaxDrops`). A range
that no cap explains is refused during an outage only; each refusal spends one of the splits
of its load, and a load without splits fails. Time is what is left of a budget or a backoff.
`LeaderboardServing` knows a board only by its age, at the loader and in the CDN of
`/api/points/leaderboard`; the relay's own fetch cache of 300 s and the 300 + 600 s its answer
may be kept for (`live-leaderboard/route.ts:44` and `:47`) come on top and are not modelled. The maturity ramp is abstracted: a unit earns its
epoch's rate per block.

`ProgressiveIndex` is the abstract specification: an index of the facts of the blocks up to
`upTo`, that only grows, invents nothing, and is complete while every answer was whole.
`ScansAreProgressive` shows that both scans implement it (`INSTANCE ProgressiveIndex WITH`,
its `Spec` as a property), through all interleavings of their requests.

### Pages on the write flow

`WriteFlow` is the hook: probe, simulate, probe, estimate, wallet, receipt, one action per
await; `live` is the generation counter, as a flag of the runs it invalidates. `RpcAlignment`
computes the verdict of a probe from what the two nodes report. The cards, the Buy card, the
Ethereum curator page and the Morpho page each extend it with their own reads and buttons and
are composed with the same wallet. Their reads lag: a page sees a snapshot taken earlier.
Calldata is the record it decodes to. Balances suffice. A wallet that broadcasts and yet
reports a failure is left out.

`TreasuryLiquidity` is one specification of three panels, that differ in their steps and in
what is remembered; `LiquidityMath` has their amounts on a small grid of prices with the
code's rounding. What a panel shows (`shown`, the code's `status`) is the last write of a
refresh or of an operation, and its buttons ask what is shown, not what runs (`Busy`,
`LiquidityOperation.tsx:587`). So a wallet that leaves and returns starts a refresh beside an
operation, that refresh may fail and show its error, and a second operation begins
beside the first (`jobs`). `TreasurySeed` has one step per await of each tab, a record in
`localStorage` that is read and written within one, and a Safe that may lose its reply. To
clear a record a tab asks the service for the proposal's status and then the chain for the
Safe's nonce, two steps (`ReadsStatus`, `ReadsNonce`) between which anything may happen.
`MorphoQuote` takes one snapshot, lets interest run at the highest rate and executes at any
time before the expiry. The rate of its horizon is today's; the reader asks the rate model once
more for it (`morphoMarketReader.ts:103`).

### Solana

`SolanaVault` has one action per instruction, its account constraints from
`SolanaInterface` (who signs, what is writable). Coupon is in integer slices of principal,
rate and time, with the carried remainder. Every instruction also emits its event, from the
accounts as they were decoded; `EventsComplete`, a part of `StepsAsSigned`, says that an indexer
can follow both accounts from the events alone, but for the remainder. The vault is checked together with the page's own
arithmetic (`couponView`), as both must agree on what the crank would pay. `CuratorPanel`
models the page's reads, their order and tag, and knows a figure only by whose it is.

### Figures and points pages

`YieldHistory` counts how often each block was counted and for whom. `BookFigures` has the
state-derived and the event-derived figures of the loan book. `CuratorInterest` is the form,
the endpoint with its admission gate over a blob store that may fail, and the cleanup.
`PointsPages` is the query cache of the points page: an answer lands under the key it was
asked for, an error stands while old data is refreshed, retries differ by card, and an answer
may be of any block up to now, which stands for every cache on its way. What the points site
answers may be for another wallet or not add up; `ParsePendlePoints` has to refuse it.

### Releases

Hashes are injective: a receipt is the tuple it hashes. `FrontendRelease` lets the operators
take another run's manifest, one wrong field or variable, another commit or an upload, and
keeps every gate between the manifest and the browser. `ProgramRelease` keeps source,
binary, receipt, published interface, activation and chain, that move on separately, and the
checks in the order of the program's README on one untouched checkout; release builds are
reproducible, and the host build writes the same file with other bytes.

### AppPages

A behaviour of `AppPages` chooses one page at the start and follows it. It is a union, not a
composition: pages that share nothing are checked in one run. The pages that write share the
variables of `WriteFlow`; what a page keeps for itself is in `v1` to `v14`, named by the
`INSTANCE` of its module, and what it does not use stays at zero.

## 3. Runs

The queue's runs use `MCRedemptionQueue`. One wei of USDfr is one unit, two virtual shares
stand for 10^6, "one USDfr" is four units, and the residue value is one unit:
small numbers on purpose, since every rounding case of the code then occurs
within a few steps, at prices above and below one.

| Run | Shows |
|---|---|
| `QueueSettlement` | up to three requests of two sizes, chunks of one and three, four liquidity levels, two shares of it, two marks, two floors: `Custody`, `FifoHead`, `PricingNeverReverts`, `FairFills`, `ResidueRedeemable` |
| `QueueGovernance` | three requests settled one or two at a time under a floor that a low budget cannot reach; every setter, three halts and fee checkpoints against an open settlement: `BudgetBound`, `FloorReachable`, `HeartbeatEarned` |
| `VaultPricing` | deposits, mints, transfers, donations, yield, losses, marks, vesting switched on and off, next to the queue: `TypeOK`, `StreamBacked`, `NoDilution`, `ChunkLeavesNoStep` |
| `QueueLiveness` | two holders, one of whom is frozen and thawed at will: `EveryoneServed` |
| `SGroveRewards` | two stakers with up to two units, streams over one or two instants, roll-over, claims, coverage funded and drawn, over one balance: `TypeOK`, `RewardsHeld`, `EarnedByTime`, `StreamNeverSlowed` |
| `SGroveVotes` | staking, unbonding, transfers, gifts to the contract and delegation on both tokens, in and out of a pause: `VotesAreStake`, `OneVoteEach`, `GroveCustody` |
| `PointsSafety` | two requests at a time per service, one silently shortened answer, lag, refusals, a malformed proof: `NoOneMissed`, `NeverOverAwards`, `ExactWhenHonest`, `NothingLost`, `RelayAgrees`, `ScansAreProgressive`, `SnapshotsAdvance`, `NewerSurvives` |
| `PointsServed` | two loads of the board, one request of the mirror and two readers under fairness, refusals that run a load out of its splits: `VisibleAgeBounded`, `EveryoneAnswered`, `Converges` |
| `AppPages` | each of the fifteen pages, programs and releases: `StatusIsTrue`, `NeverTwice`, `SignedAsReviewed`, `StagedSteps`, `VaultExact`, `MaxHolds`, `CountedOnce`, `StepsAsSigned`, each the conjunction of what it says of its pages |
| `QueueWedge` | violated: `SettlementCloses` (finding 1) |
| `BudgetShares` | violated: `BudgetSharesMaximal` (finding 2) |
| `CuratorFigures` | violated: `FiguresAreOfTheWallet` (finding 3) |

**Bounds.** `MaxRequests` (two or three) allows a full fill, a partial fill and a
request behind it in one settlement of two or three chunks, which is where the
selection, the floor and the residue rules meet. `MaxHeld` and `MaxSupply` bound the
vault; they are guards of the operations that grow it and bound nothing in the code.
`MaxRequests` likewise bounds `requestRedeem`. Ages saturate at `MaxCooldown`,
beyond which no comparison changes.

In `SGrove`, `MaxUsdfr`, `MaxCoverage` and `MaxIndex` bound what is ever brought in and
`MaxUnbonds` the entries of a holder (spent entries stay in the array). Two rewards, one
of them smaller than a running rate, and two window lengths give roll-overs that
round, that raise the rate and that are refused; a precision of two makes every
division by the total stake round. These runs use no symmetry.

`PointsSafety` has four blocks and chunks of two or three, so that a scan takes two chunks, a
crowded block (`LogLimit`) and a split; two requests suffice for one to overtake or undo
another. In the mirror `a` withdraws at the end of one chunk and supplies again in the next, so
what is missed is missing at a chunk's end. `MaxShort` = 1 leaves logs out of one answer, `MaxGen` bounds rebuilds, `MaxLag` how
far a node is behind, `MaxDrops` the discoveries dropped for a malformed answer. `MaxPoints` and `MaxRows` make rows fall below the floor and off the
list.

`PointsServed` has five blocks. Four of them are a chunk of the discovery, of which one is
crowded: it takes two of the four splits of a load (`MaxSplits`), so there are enough for an
honest provider, whereas a provider that refuses every range of the chunk would need six and
makes the load fail. `Converges` therefore needs the refusals to end with the outage: when they
may go on for ever it is violated, as the loader says of itself
(`pointsLeaderboard.server.ts:202-206`).

In `AppPages`, of the wallet pages `MaxTxs` (one) bounds transactions broadcast, `MaxMoves` and `CardMoves`
account and network switches and changes on the chain (two let a page leave an account and
come back), `Slots` the runs alive at once, `MaxQuotes` = 3 the snapshots: shown, submitted and
refreshed after. A liquidity operation sends `MaxSends` = 4 transactions, its two steps with
a retry of each, and meets `MaxMishaps` = 3 lost receipts, reloads, price moves, failed refreshes
or absences of the wallet: three are what it takes to begin an operation beside another
(`MaxJobs` = 2), since one refresh runs at a time and it starts when the wallet returns. Of the
Solana vault, `MaxTime` = 4 with months of 2 has two month boundaries, `MaxEpochs` and
`MaxAhead` one rate change ahead, `MaxOrders` two decisions of the authorities, `MaxPrincipal` and `MaxPool` the money; its
two owners are interchangeable and permuted by `MCSymmetry` (every other model value or
string of the run is left alone, and no property is temporal beyond one step).
`MaxSwitches` = 2 is the switch there and back. Two tabs, `MaxProposals` = 3 and `MaxNonce` = 2
let a seed be executed while its record is cleared and two more be proposed. `Books` has markets at, near and away from the buffer.
`MaxHead` = 3 blocks in chunks of two, `MaxFaults` = 1 failed read. Two forms, `MaxTries` = 2
submissions, `MaxSlot` = 3 instants pass the gate's retention. `MaxFacilities` and `MaxTicks` allow a facility
to default while a history request of an older block is on its way. A release has `MaxSlips`
= 1 mistake, `MaxCommits` and `MaxBuilds` = 2, so an older build can be promoted again; a
program release has two versions, `MaxHistory` = 2 commits, `MaxUpgrades` = 1 and
`MaxEfforts` = 4 steps by hand on a tree that may start edited: commit, adoption, receipt and
activation of a whole second release. The points page has `MaxBlocks` = 2 and `MaxAsked` = 3 requests: one answered, one
failing over its data, one of another wallet.

`CHECK_DEADLOCK FALSE` is set where these bounds let every actor stop: a page whose moves are
used up and whose write has settled has nothing left to do.

**Fairness.** `FairSpec` adds weak fairness of the keeper (some `closeEpoch` call, if one
keeps being possible) and of the clock. The first is the duty of
`SETTLEMENT_KEEPER_ROLE`, held by a bot and a fallback; the second is time. Nothing
is assumed of holders, governance or the treasury. `EveryoneServed` is checked with
liquidity left alone, as it is false when the treasury never keeps any idle
reserve, and with budgets that do not run into finding 1.

`PointsServed` assumes that requests that may go on do, that outages end and with them the
refusals of ranges within the cap, that time passes and blocks are finalized, and that a load of the board settles, which its timeouts give.
Nothing is assumed of the number of requests one needs.

**Findings.**

1. *A committed settlement can be stuck.* The RC-01 test (`RedemptionQueue.sol`,
   "Refuse to commit an unsatisfiable settlement") compares
   `distributed + budget` with the floor, in assets. The rest of the budget is
   turned into shares and back with two floors and pays up to one wei less than
   itself. When the two sides are equal, the last chunk falls one wei short of the
   floor, the abandon guard reverts, and every later call does the same: the budget is
   not sampled again while settling. `QueueWedge` is such a behaviour. No more
   than a wei is at stake in the comparison, but the exit is closed until the
   contract is upgraded or the price happens to divide exactly. `FloorReachable`, the
   property the test does give, holds and is proved.
2. *`convertToSharesAtRedemption` does not return "the largest share count".* One more
   share is often quoted at or below the same amount (`BudgetShares`). The other half of
   its comment, that the cap never quotes above the budget, is the theorem
   `CapWithinBudget`.
3. *The Solana curator page shows one wallet another's position.* `refresh` sets the
   position before it awaits the balance and moves the tag `shownFor` only after it
   (`src/frontend/src/components/curators/CuratorVaultPanel.tsx:260` and `:276`). A switch from A
   to B and back in between leaves B's position under A's tag until A's own read lands, which
   the comment at lines 193-194 rules out. `CuratorFigures` is such a behaviour.

**Observations** that no comment or test of the repository contradicts, so no finding:

- A read of a class's freeze status that fails is shown as "active"
  (`PointsDashboard.tsx:243`); every other failed read is a dash. `LedgerIsTrue` claims the
  frozen label only.
- The panels of the sUSDfr pools read the price and the Permit2 nonces in two calls
  (`SusdfrLiquidityOperation.tsx` `loadSnapshot`): after the page gave up on a transaction that was mined, a
  second seed can be prepared. `CapKeptUnlessLost` holds as long as it never gave up on a
  transaction and never showed itself at rest while an operation ran.
- A failed refresh of a liquidity panel gives the buttons back while an operation runs, so two
  first steps may be sent (`LiquidityOperation.tsx:392` and `:587`, alike in the other two). The
  page of the pair approves exact amounts, so its second deposit reverts unless another approval
  was mined in between (`ApprovedBetween`); the pools' second step still builds on one first
  step, and the two stay within the total (`StagedSteps`).
- `treasuryProposalState` reads the proposal's status before the Safe's nonce
  (`morphoTreasury.ts:88` and `:95`). A proposal deleted from the service is read as cancelled;
  when its signatures are used between the two reads, its nonce is consumed and the record of an
  executed seed is cleared. A second tab that read the history before may then propose
  another seed, for which the expiry of its quote (`MorphoMarketSurface.tsx:161`) leaves it a few
  minutes at most. `OneSeed` does not count such a proposal (`overtaken`) and claims everything
  else.
- `extendCollateral` proves a chunk by the collateral at its end. A withdrawal and a later
  supply of one owner inside one chunk, both left out by the provider, are missing at no chunk's
  end, and the points in between are awarded. The comment there speaks of pairs that net to zero within a
  chunk; `NeverOverAwards` excepts such owners (`Rebounds`) and no others.
- The deployment block of a manifest is pinned by the archived checksum only, not by a
  receipt.

## 4. Proofs

`RedemptionQueueProofs` proves, from `VaultAssumption` and `QueueAssumption` alone and
for any finite set of holders, any prices, marks, chunk sizes and parameters:

    Spec => []TypeOK     Spec => []StreamBacked    Spec => []Custody
    Spec => []FifoHead   Spec => []BudgetBound     Spec => []FloorReachable

through one inductive invariant, `IInv`: those six and `TotalShares(bal) = supply`. They
need one another. The head moves past exactly the filled requests only if a batch takes
no more than each request has (`GoodBatch`, `SelectBatchOK`). The subtractions of a
batch stay natural only because its shares are in custody, and what it receives is at
most what the vault holds, since its shares are at most the supply (the ledger balance)
and the exit price is at most one share of what has vested (`ExitCovered`). The stream
stays backed through an exit because `_withdraw` caps it (`CappedIs`). The budget bound
needs that a batch stays within its call's budget, a guard of the code; that the guard
never fires is `CapWithinBudget` for ordinary fills.

Custody is a statement about sums over the array. `SumsProofs` proves what is needed
of the recursive sum (one more term, pointwise order, additivity, agreement,
tails) by a least-counterexample argument over a set of naturals, since the
induction theorems of the library cannot be instantiated. `ReceiptAllocated` and
`QuotesWithinReceipt` say that the receipt of a batch is handed out exactly and that
what is left for its last item is not negative; they rest on the superadditivity
of floor quotes (`AssetsForAdds`).

`SGroveProofs` proves, from `GroveAssumption` and `SGroveAssumption` alone and for any
number of holders, amounts, durations and precision `Wad`:

    Spec => []TypeOK          Spec => []RewardsHeld     Spec => []VotesAreStake
    Spec => []OneVoteEach     Spec => []GroveCustody

Its `IInv` has three parts. A `Ledger` relates balances, delegations and votes: each
delegate's votes are what it is given, and all votes with what nobody was given add up to
all balances. Every `MoveVotes` of the code, on either token, is one change of a single
holder (`LedgerStep`), so one lemma serves both. `CustodyInv` adds the unbonding
entries. `Solvent` is the account of rewards without rounding, in units of `1/Wad`:

    Wad * usdfr >= Wad * (reserve + rate * (left + elapsed) + sum of accrued)
                     + sum of staked[h] * (index - userIndex[h])

`RewardsHeld` itself is not inductive: it rounds each holder's reward down, and the next
advance of the index may round differently. `Solvent` is: advancing the index turns
`elapsed` into debts of no more than what streamed (`Advance`, since the division rounds
down), settling a holder banks no more than its debt (`SettleSolvent`), a roll-over
promises no more than what was notified and left (`NotifyKept`), and a shortfall takes
reserve and balance down together (`CoverKept`, where the balance covers the reserve by
the invariant itself). `HeldFromAccount` rounds it to `RewardsHeld`.

`OnlyTimeEarns` and `StreamsKeepTheirPace` prove sGROVE's action properties from the same
`IInv`. Every operation but the clock leaves the index as `RewardPerToken` had it, so a
settlement banks to the unit what was pending (`SettledExactly`) and a notification, which only
advances the index, changes nobody's claim (`NotifiedExactly`). That a roll-over never slows a
stream needs one more invariant, `Window`: what is left of a stream is never longer than the
configured length, so the new rate is bought for at least the time that was left.

`RedemptionQueueProofs` goes on, from `IInv` and the same assumptions, to the action properties:

    Spec => []PricingNeverReverts   Spec => FairFills            Spec => HeartbeatEarned
    Spec => ChunkLeavesNoStep       Spec => ResidueRedeemable    Spec => NoDilution

`Selected` says what `SelectBatch` returns of any array, budget and chunk: whole requests up to
the last one, which is taken whole or, as far as the budget's shares go, in part. From it
follow that the batch fits the budget (`BatchFits`), that no item rounds to nothing
(`ItemsPaid`), that fills are in order (`CallFillsFairly`), and what the rest of the last one
is worth (`RestsAreRedeemable`, where the price after the exit is at least that of the call:
`CallLeavesPrice`). `HeartbeatEarned` speaks of the amount paid since the settlement opened, so
it needs the invariant `AtRest`: nothing counts as distributed between settlements. `NoDilution`
reduces every operation to the comparison of two fractions, `PricesKept`, before and after: an
entry pays at least its shares' worth because the code rounds up (`EntryPaysItsWay`), an exit
takes at most its share at the lower of the two prices (`ExitKeepsPrice`), fees are shares of
the gain only. The assets may be any naturals, so no rounding case is left out.

`PointsServicesProofs` proves, from `ServicesOK` alone, for any chain, holders, number of
concurrent requests and bounds on faults,

    Spec => []VisibleAgeBounded   Spec => []NoOneMissed       Spec => []NothingLost
    Spec => SnapshotsAdvance      Spec => NewerSurvives       Spec => ScansAreProgressive

and `VisibleAgeBounded` under `FairSpec` too. One service runs at a time, so each argument is
that of one service, and `AtRest` of the others.

- *Serving* (`AgeInv`): the ages of what a loader, an entry of the CDN and an answer on its way
  hold are bounded one by one; the bound of a reader is their sum.
- *Discovery* (`DiscoveryInv`): the scans are a queue of distinct requests of which the first
  alone works (`QueueOK`); the ranges it still has to read are, with what it has got, the whole
  chunk (`ChunkOK`), through every split and the receipts of a crowded block; and what is
  committed misses nobody up to `scannedTo` unless an answer was cut, which the load or the index
  remembers. A load whose proof fails drops the discovery only if it is still the one it was made
  of (`GivesUpItsOwn`), the discovery's half of `NewerSurvives`.
- *Mirror* (`MirrorInv`): builds are a queue too, only its first is under way, on the current
  history or on one that was dropped while it waited, towards a block newer than that history's
  snapshot. Each step changes the histories in one of three ways (`HistoryStep`): dropped, begun
  empty, or continued, where each scan moves forward by what its chunk holds.
- *Refinement*: the three index mappings (`discovery!ImplementsIndex`, and of the mirror the rate
  epochs and the collateral events) start in `ProgressiveIndex!Init` and map every step to its
  `Next` or a stutter: a `Dropped` history is an index that starts over, a commit is one that
  grows by a range. This proves the whole abstract specification, not an invariant of it.
- *Ranking* (`BoardAddsUp`): every credited point is on one line of the board. The wallets fall
  apart into those ranked, those left out, Forest Road's and each venue's, and the sums over these
  sets are the whole (`SumFunctionOnSet`, by the facts on sums of `SumsProofs`).

`SolanaVaultProofs` proves, from `VaultOK` alone, for any finite set of owners and any rates,
amounts, month length and times, that the money of the Solana program is exact;
`AppPagesProofs` carries it over to the page that follows the program:

    VaultSpec => [](VaultBacked /\ CouponConserved /\ ClaimableIsPaid)   Spec => []VaultExact

`VaultInv` says of each position what must survive its next settlement (`Kept`): what it is owed,
with the carried remainder and the coupon still to be settled, is in parts exactly its due
(`credit`), and what the crank would pay is exactly what was earned by the last month boundary.
The conserved total alone is not inductive, since a settlement and a maturing divide at
different instants. The lemmas that carry it are on the accrual over the rate epochs: it splits
at any instant in between (`AccruedSplit`), an instant earns at the rate in force
(`AccruedInstant`), and an epoch appended for later changes nothing earned before it
(`AccruedBefore`, hence `KeptRates`). Then each settlement is a change of one position
(`PositionMoves`), and the totals and both accounts follow by sums that change at one owner.
`ClaimableIsPaid` needs that in a month already paid nothing is payable, which `Kept` has too.

`WriteFlowProofs` and `AppPagesProofs` prove, for any accounts, nodes, kept operations and
numbers of runs, transactions, browser tabs and proposals (of the constants only `PagesOK`),

    Spec => []NeverTwice     Spec => []StatusIsTrue     FlowInv /\ a step of the hook => FlowInv'

- *The hook* (`FlowInv`): at most one run is alive, and it has told the status where it is, unless it
  was started for an account that is gone and has yet to notice; a run past the wallet waits for its
  own transaction; whoever asks the wallet in this session is alive; a kept write of this session that
  is open on chain is what the status waits for. The last two are what makes the count of
  `OneKeptWrite` inductive, as a transaction is appended in the step that ends the asking. A page owes
  the hook one thing (`FlowKeeps`): that it starts a write only when the hook is not busy.
- *The pages*: each of the cards, the Ethereum curator page, the Buy card and the Morpho page is shown
  to take only steps of the hook (`CardSteps`, `CuratorSteps`, `BuySteps`, `MarketSteps`). The Buy card
  and the Morpho page start writes after awaits of their own, so that the hook is not busy then is an
  invariant itself (`BuyQuiet`, `MarketQuiet`). `FlowPagesSayTheTruth` is what the hook's invariant says
  of the status on these four pages, the first part of `StatusIsTrue`.
- *The points page and the Solana page* (`PointsKept`, `PanelKept`), its other parts: an answer
  under way is of the key it was asked for and of a block of the chain, and what is shown is an
  answer of the key on screen or of none; a success of the Solana page is said only after the
  read that follows it, by the same path and of the same wallet.
- *The seed* (`SeedInv`): apart from one executed between the two reads that cleared its record, at
  most one proposal was executed or still can be. Without a record in the browser none is; a record with a hash names the only one; and while a record has no hash yet, at most
  one tab is asking the Safe, under that very record, and knows the answer of the only one. A record
  is cleared only when what it names is over. One tab's reload, another's late read and a lost reply
  of the Safe all keep this, whatever their order.

`ReviewedPagesProofs` proves, from `PagesOK` alone (natural amounts, allowances and lifetimes, and
at least one class, none of them 0, which stands for "no class"),

    Spec => []SignedAsReviewed

with one inductive invariant per page or release:

- *Buy card* (`BuyInv`): the property speaks of a buy in flight only, so what holds of it must be
  carried from the button on. While a buy is prepared, the field, the locked minimum and what was agreed
  are those of the preparation (`Preparing`); a review on screen is of the field, the locked minimum and
  the allowance last read (`ReviewKept`); at the hand-over both become the terms of the buy in flight
  (`Handed`). A standing allowance is spent without a signature only if the review that was continued
  showed it: an allowance `NeedsPermit` accepts is one `Standing` accepts too, so every such buy went
  through the review. Fields, locks and reads cannot move in between because the hook is busy from the
  hand-over to the outcome (`FlightIsBusy`, `FlightGoesOn` of `WriteFlowProofs`).
- *Ethereum curator page* (`CuratorInv`): the class a page shows by default is bound to the account
  when it is first shown (`Bound`), and a live write is for the class bound (`ClassKept`).
- *Market page* (`QuoteInv`): the quote kept for the wallet is the one that was checked.
- *Site* (`ReleaseInv`): a manifest still names every contract of the site after any slip
  (`SlippedIsNamed`); a production manifest with the pinned receipt has the addresses of the plan
  (`GateNamesThePlan`), so a gate that passes passes only those (`BuiltAsApproved`), and production is
  built from a clean commit of main (`BuiltFromMain`).
- *Solana program* (`ProgramInv`): how far the checks came tells what the tree holds (`Checked`), each
  record names a build whose bytes and interface are those of its commit (`Recorded`), and commits only
  append (`BuildsStay`).

**Model-checked only:** liveness (`EveryoneServed`, `EveryoneAnswered`, `Converges`), which is
beyond the prover. `NeverOverAwards`, `ExactWhenHonest` and `RelayAgrees`,
`CountedOnce`, `StagedSteps` and `MaxHolds` rest on folds over sets or sequences
of the community modules, of which no facts can be proved here without an induction over data.
`StepsAsSigned` is checked, not proved; of `MaxHolds` the interest is
a product that the provers do not handle.

## 5. Not modelled

- Contracts: `CuratorModule`, `AttestationOracle`, the accrual library, the loan lifecycle
  (`ClaimBridge`, `CollateralRegistry`), `PointsModule` (its ledger is what the services read),
  Merkle top-ups, the MTM executor, the BSC variant; of the cascade, the money and governance only what
  the queue, the vault and the backstop see of them.
- App: the claim buttons of the queue (a second instance of the same hook), the scan for old
  requests, balances too small for an amount, a wallet that broadcasts and reports a failure,
  polling outside the cards, the lending side and partial amounts of the Morpho page, seeds
  proposed from another browser, a node that silently answers few logs to the income history.
- Services: what the relay and its CDN keep of a board (`live-leaderboard/route.ts`).
- Solana: the token accounts of owners and treasury.
- Releases: the checks are assumed to run on an untouched checkout, hashes not to collide and
  release builds to reproduce.
- Documentation pages, audit texts, layout, tests, generated types and one-shot scripts:
  no state and no concurrency of their own.

## 6. Plan

1. Proofs of the pages: `StepsAsSigned`. The age of a board behind the relay.
2. `LossCascade`: `realizeLoss` over curator pools and their rounds, backstop, vault and
   exit prepayment, with the derivation of the mark; an abstract "the loss is paid
   once, juniors first" that it refines.
3. `AttestationOracle`: facts, revocation, watermarks; an abstract "each fact at most
   once".
4. `Backing`: `MintRedeemController`, `ReserveManager`, `USDfr`, `WaterfallEngine`; a
   deficit never worsens.
5. The loan lifecycle (`ClaimBridge`, `CollateralRegistry`, past-due marks); the fee formula
   with its high-water mark.
6. An abstract first-come-first-served payout, refined by `RedemptionQueue`.

Not planned: the accrual library's fixed-point time arithmetic beyond its book
identities, OpenZeppelin's governor, Merkle claims.
