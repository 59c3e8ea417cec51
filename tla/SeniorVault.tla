---------------------------- MODULE SeniorVault ----------------------------
(***************************************************************************)
(* sUSDfr, the senior vault (contracts/src/sUSDfr.sol): an ERC-4626 vault  *)
(* over USDfr that quotes THREE prices for one share at the same instant.  *)
(*   entry    on everything it holds, the unvested yield stream included;  *)
(*   realized on what has vested;                                          *)
(*   exit     on what has vested less the declared, still unrealized       *)
(*            senior impairment.                                           *)
(* Every price adds one virtual asset and VirtualShares virtual shares.    *)
(*                                                                         *)
(* `held' is entryAssets(): the USDfr balance, plus what the continuous    *)
(* accrual reserve owes the vault when one is bound.  `stream' is          *)
(* unvestedYield(); its linear release is an arbitrary decrease as time    *)
(* passes.  The fee formula is left to the caller: a checkpoint mints any  *)
(* amount of FeeShares to the fee recipient.                               *)
(***************************************************************************)
EXTENDS Integers, FiniteSets

CONSTANTS
  Users,             \* investors
  Queue,             \* the RedemptionQueue's address, sole caller of redeem
  FeeRecipient,      \* the protocol's fee account
  VirtualShares,     \* 10 ** _decimalsOffset()
  One,               \* 10 ** 18, one whole USDfr in wei
  StrandedRatio,     \* Config.SUSDFR_MAX_STRANDED_YIELD_RATIO
  CollapseDivisor,   \* Config.SUSDFR_DEGENERATE_RATE_DIVISOR
  FeeShares,         \* amounts a fee checkpoint may mint
  Amounts,           \* USDfr amounts that enter or leave by one call
  Moves,             \* share amounts a holder mints or transfers in one call
  Marks,             \* impairments the credit side may declare
  Halts,             \* halts the environment may raise
  VestingModes,      \* whether governance runs with a vesting window
  SanctionTargets,   \* users compliance may freeze
  MaxHeld,           \* bound on the vault's assets
  MaxSupply,         \* bound on the share supply
  InitShares,        \* shares each user starts with
  InitHeld           \* assets the vault starts with

Holders == Users \cup {Queue, FeeRecipient}

ASSUME VaultAssumption ==
  /\ Queue \notin Users
  /\ FeeRecipient \notin Users
  /\ Queue # FeeRecipient
  /\ IsFiniteSet(Users)
  /\ VirtualShares \in Nat \ {0}
  /\ One \in Nat \ {0}
  /\ StrandedRatio \in Nat \ {0}
  /\ CollapseDivisor \in Nat \ {0}
  /\ FeeShares \subseteq Nat
  /\ 0 \in FeeShares
  /\ Amounts \subseteq Nat \ {0}
  /\ Moves \subseteq Nat \ {0}
  /\ Marks \subseteq Nat
  /\ VestingModes \subseteq BOOLEAN
  /\ MaxHeld \in Nat
  /\ MaxSupply \in Nat
  /\ InitShares \in Nat
  /\ InitHeld \in Nat

VARIABLES
  bal,          \* sUSDfr balance of every holder
  supply,       \* totalSupply()
  held,         \* entryAssets()
  stream,       \* unvestedYield()
  vesting,      \* yieldVestingPeriod # 0
  mark,         \* impairmentSource.pendingSeniorImpairment()
  halts,        \* halts in force
  sanctioned    \* users compliance has frozen

vaultVars == <<bal, supply, held, stream, vesting, mark, halts, sanctioned>>

----------------------------------------------------------------------------
(* Prices *)

Lesser(a, b) == IF a < b THEN a ELSE b
MinusUnchecked(a, b) == a - b                                  \* mutant
Minus(a, b) == IF a > b THEN a - b ELSE 0
FloorDiv(a, b) == a \div b
CeilDiv(a, b) == (a + b - 1) \div b

\* totalAssets(): what has vested
Vested(h, s) == Minus(h, s)
TotalAssets == Vested(held, stream)

\* previewDeposit and previewMint price entry on everything held
EntryOnRealizedNav == TotalAssets                              \* mutant
EntryAssets == held

\* realizeLoss may burn what has vested, never the stream
BurnIntoStream == held                                         \* mutant
MaxSeniorBurn == TotalAssets

\* redemptionTotalAssets(): the conservative exit base
ExitAssets(h, s, m) == Minus(Vested(h, s), m)

\* the two terms of a price ratio, each with its virtual part
Price(assets, shares) == [assets |-> assets + 1, shares |-> shares + VirtualShares]

\* previewRedeem, convertToAssets
AssetsFor(p, s) == FloorDiv(s * p.assets, p.shares)
\* convertToSharesAtRedemption, previewDeposit
SharesFor(p, a) == FloorDiv(a * p.shares, p.assets)
\* previewWithdraw
SharesToWithdraw(p, a) == CeilDiv(a * p.shares, p.assets)
\* previewMint
AssetsToMint(p, s) == CeilDiv(s * p.assets, p.shares)

\* _isDegenerate(): entry is closed while shares are outstanding against a
\* base that is gone, has collapsed below par, or is dwarfed by the stream
Rate == FloorDiv(One * VirtualShares * (TotalAssets + 1), supply + VirtualShares)
Degenerate ==
  /\ supply # 0
  /\ \/ TotalAssets = 0
     \/ Rate * CollapseDivisor < One
     \/ stream >= StrandedRatio * TotalAssets

\* _capStreamToBase(pendingOutflow): the stream it leaves
Capped(s, h, outflow) ==
  IF vesting /\ supply # 0
  THEN Lesser(s, FloorDiv(Minus(h, outflow), StrandedRatio + 1))
  ELSE 0

\* _accrueFees(): nothing is charged to an empty vault
FeesDue == IF supply = 0 THEN {0} ELSE {f \in FeeShares : supply + f <= MaxSupply}
Credit(b, who, s) == [b EXCEPT ![who] = @ + s]

Fresh == "accrualStale" \notin halts      \* VaultAccrualLib.requireFresh
VaultOpen == "vaultPaused" \notin halts   \* whenNotPaused
TokenOpen == "tokenPaused" \notin halts   \* USDfr: user legs are closed in a pause

----------------------------------------------------------------------------
(* Operations *)

VaultInit ==
  /\ bal = [h \in Holders |-> IF h \in Users THEN InitShares ELSE 0]
  /\ supply = InitShares * Cardinality(Users)
  /\ held = InitHeld
  /\ stream = 0
  /\ vesting \in VestingModes
  /\ mark = 0
  /\ halts = {}
  /\ sanctioned = {}

\* accrueFees()
AccrueFees ==
  /\ Fresh
  /\ \E f \in FeesDue :
       /\ supply' = supply + f
       /\ bal' = Credit(bal, FeeRecipient, f)
  /\ UNCHANGED <<held, stream, vesting, mark, halts, sanctioned>>

\* deposit(assets, receiver): fees first, then shares at the entry price
Deposit(u, a) ==
  /\ ~Degenerate /\ Fresh /\ VaultOpen /\ TokenOpen
  /\ u \notin sanctioned
  /\ held + a <= MaxHeld
  /\ \E f \in FeesDue :
       LET s == SharesFor(Price(EntryAssets, supply + f), a)
       IN  /\ supply + f + s <= MaxSupply
           /\ supply' = supply + f + s
           /\ bal' = Credit(Credit(bal, FeeRecipient, f), u, s)
  /\ held' = held + a
  /\ UNCHANGED <<stream, vesting, mark, halts, sanctioned>>

\* mint(shares, receiver): the same entry, for an exact number of shares
Mint(u, s) ==
  /\ ~Degenerate /\ Fresh /\ VaultOpen /\ TokenOpen
  /\ u \notin sanctioned
  /\ \E f \in FeesDue :
       LET a == AssetsToMint(Price(EntryAssets, supply + f), s)
       IN  /\ supply + f + s <= MaxSupply
           /\ held + a <= MaxHeld
           /\ supply' = supply + f + s
           /\ bal' = Credit(Credit(bal, FeeRecipient, f), u, s)
           /\ held' = held + a
  /\ UNCHANGED <<stream, vesting, mark, halts, sanctioned>>

\* ERC-20 transfer; anyone may send shares to the queue without a request
Transfer(u, to, s) ==
  /\ u # to
  /\ bal[u] >= s
  /\ {u, to} \cap sanctioned = {}
  /\ bal' = [bal EXCEPT ![u] = @ - s, ![to] = @ + s]
  /\ UNCHANGED <<supply, held, stream, vesting, mark, halts, sanctioned>>

\* a yield delivery: fees up to date, mintYield into the vault, notifyYield,
\* then a second checkpoint on what was recognized at once
NotifyYield(a) ==
  /\ Fresh /\ TokenOpen
  /\ held + a <= MaxHeld
  /\ held' = held + a
  /\ stream' = IF vesting THEN Capped(stream + a, held + a, 0) ELSE stream
  /\ \E f \in FeesDue :
       /\ supply' = supply + f
       /\ bal' = Credit(bal, FeeRecipient, f)
  /\ UNCHANGED <<vesting, mark, halts, sanctioned>>

\* anyone may transfer USDfr to the vault
Donate(a) ==
  /\ TokenOpen
  /\ held + a <= MaxHeld
  /\ held' = held + a
  /\ UNCHANGED <<bal, supply, stream, vesting, mark, halts, sanctioned>>

\* a realized default, with fees up to date first: the last layer of the
\* cascade burns vault USDfr, at most what has vested, and the loss leaves the
\* impairment pool
BurnSeniorLoss(a) ==
  /\ Fresh
  /\ a <= MaxSeniorBurn
  /\ held' = held - a
  /\ mark' \in {m \in Marks : m <= mark}
  /\ \E f \in FeesDue :
       /\ supply' = supply + f
       /\ bal' = Credit(bal, FeeRecipient, f)
  /\ UNCHANGED <<stream, vesting, halts, sanctioned>>

\* the credit side declares, ramps or cures an impairment
Declare(m) ==
  /\ mark' = m
  /\ UNCHANGED <<bal, supply, held, stream, vesting, halts, sanctioned>>

\* setYieldVestingPeriod: switching the window off recognizes the remainder
SetVesting(on) ==
  /\ on # vesting
  /\ Fresh
  /\ vesting' = on
  /\ stream' = IF on THEN stream ELSE 0
  /\ \E f \in FeesDue :
       /\ supply' = supply + f
       /\ bal' = Credit(bal, FeeRecipient, f)
  /\ UNCHANGED <<held, mark, halts, sanctioned>>

\* a guardian pauses, a loan clock goes stale, reserve exits lock; and back
Halt(h) ==
  /\ halts' = IF h \in halts THEN halts \ {h} ELSE halts \cup {h}
  /\ UNCHANGED <<bal, supply, held, stream, vesting, mark, sanctioned>>

Sanction(u) ==
  /\ sanctioned' = IF u \in sanctioned THEN sanctioned \ {u} ELSE sanctioned \cup {u}
  /\ UNCHANGED <<bal, supply, held, stream, vesting, mark, halts>>

\* time releases part of the stream
Vest ==
  /\ stream' \in 0..stream
  /\ UNCHANGED <<bal, supply, held, vesting, mark, halts, sanctioned>>

\* Exits (_withdraw) belong to the queue and are part of its closeEpoch.
VaultNext ==
  \/ AccrueFees
  \/ \E u \in Users, a \in Amounts : Deposit(u, a)
  \/ \E u \in Users, s \in Moves : Mint(u, s)
  \/ \E u \in Users, to \in Holders, s \in Moves : Transfer(u, to, s)
  \/ \E a \in Amounts : NotifyYield(a) \/ Donate(a) \/ BurnSeniorLoss(a)
  \/ \E m \in Marks \ {mark} : Declare(m)
  \/ \E on \in VestingModes : SetVesting(on)
  \/ \E h \in Halts : Halt(h)
  \/ \E u \in SanctionTargets : Sanction(u)

----------------------------------------------------------------------------
(* Properties *)

VaultTypeOK ==
  /\ bal \in [Holders -> Nat]
  /\ supply \in Nat /\ held \in Nat /\ stream \in Nat /\ mark \in Nat
  /\ vesting \in BOOLEAN
  /\ halts \subseteq Halts
  /\ sanctioned \subseteq SanctionTargets

\* The vault's balance always covers the stream it has not recognized yet, so
\* totalAssets() never clamps (the bound of the comment above totalAssets()).
StreamBacked == stream <= held
=============================================================================
