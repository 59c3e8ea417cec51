------------------------------- MODULE SGrove -------------------------------
(***************************************************************************)
(* sGROVE, the backstop (contracts/src/SGrove.sol).  Holders stake GROVE,  *)
(* vote with their active stake and earn USDfr that streams to them; the   *)
(* contract also holds the USDfr coverage reserve that the loss cascade    *)
(* draws on.  Both kinds of USDfr lie in one balance.                      *)
(*                                                                         *)
(* Time is relative: `left' is what remains of the running stream and      *)
(* `elapsed' what has streamed since rewardIndexWad was last advanced.     *)
(* A call that reverts is a call that is not enabled.                      *)
(***************************************************************************)
EXTENDS GroveToken, Sequences

CONSTANTS
  Amounts,           \* GROVE amounts staked or unstaked in one call
  Wad,               \* WAD, the precision of the reward index
  Rewards,           \* USDfr amounts notified in one call
  Cover,             \* USDfr amounts funded or claimed as a shortfall
  Events,            \* shortfall events
  Durations,         \* stream windows governance may set
  UnbondingPeriods,  \* unbonding periods governance may set
  MaxUnbonding,      \* 365 days
  MaxDuration,       \* Config.SGROVE_MAX_REWARDS_DURATION
  PauseModes,        \* whether the guardian may pause
  MaxUnbonds,        \* bound on the unbond entries of a holder
  MaxIndex,          \* bound on the index, above which nothing is notified
  MaxUsdfr,          \* bound on the USDfr brought in
  MaxCoverage        \* bound on the coverage ever funded

ASSUME SGroveAssumption ==
  /\ Amounts \subseteq Nat \ {0}
  /\ Wad \in Nat \ {0}
  /\ Rewards \subseteq Nat \ {0}
  /\ Cover \subseteq Nat \ {0}
  /\ Durations \subseteq Nat
  /\ UnbondingPeriods \subseteq Nat
  /\ MaxUnbonding \in Nat
  /\ MaxDuration \in Nat
  /\ Durations \cap 1..MaxDuration # {}
  /\ UnbondingPeriods \cap 1..MaxUnbonding # {}
  /\ PauseModes \subseteq BOOLEAN

VARIABLES
  staked, totalStaked,
  unbonds,              \* entries [amount, wait] of every holder
  delegate, votes,      \* delegation and votes of active stake
  index,                \* rewardIndexWad
  userIndex, accrued,   \* userIndexWad, accruedRewards
  rate, left, elapsed, duration,
  reserve,              \* coverageReserve
  covered,              \* eventCovered
  usdfr,                \* USDfr the contract holds
  unbondingPeriod, paused

stakeVars == <<staked, totalStaked, unbonds>>
voteVars == <<delegate, votes>>
rewardVars == <<index, userIndex, accrued, rate, left, elapsed, duration>>
coverVars == <<reserve, covered>>
vars == <<groveVars, stakeVars, voteVars, rewardVars, coverVars, usdfr, unbondingPeriod, paused>>

----------------------------------------------------------------------------
(* Rewards *)

\* _rewardPerToken(): nothing accrues while nobody stakes
RewardPerToken ==
  IF totalStaked = 0 THEN index ELSE index + (elapsed * rate * Wad) \div totalStaked

\* pendingRewards(h)
Owed(h) == (staked[h] * (RewardPerToken - userIndex[h])) \div Wad
Pending(h) == accrued[h] + Owed(h)

\* _updateReward(h) leaves the index and h's own mark at the present
MarkIfOwed(h) == IF Owed(h) = 0 THEN userIndex[h] ELSE RewardPerToken    \* mutant
MarkAfter(h) == RewardPerToken
UpdateReward(h) ==
  /\ index' = RewardPerToken
  /\ elapsed' = 0
  /\ userIndex' = [userIndex EXCEPT ![h] = MarkAfter(h)]

\* what is left of a running stream when it is rolled into a new one
WholeStream == duration * rate                                          \* mutant
Leftover == left * rate

----------------------------------------------------------------------------
(* Stakes *)

\* stake(amount): whoever delegates to nobody is self-delegated first, with
\* the stake held before; then the new units go to the delegate
UnitsAfterStake(h, a) == staked[h] + a                                  \* mutant
UnitsToSelf(h, a) == staked[h]
Stake(h, a) ==
  /\ ~paused
  /\ UpdateReward(h)
  /\ accrued' = [accrued EXCEPT ![h] = Pending(h)]
  /\ LET d    == IF delegate[h] = Nobody THEN h ELSE delegate[h]
         self == MoveVotes(votes, delegate[h], d, UnitsToSelf(h, a))
     IN  /\ delegate' = [delegate EXCEPT ![h] = d]
         /\ votes' = MoveVotes(self, Nobody, d, a)
  /\ staked' = [staked EXCEPT ![h] = @ + a]
  /\ totalStaked' = totalStaked + a
  /\ GroveIn(h, a)
  /\ UNCHANGED <<unbonds, rate, left, duration, coverVars, usdfr, unbondingPeriod, paused>>

\* requestUnstake(amount): the stake stops voting and earning at once
KeepsVoting(a) == 0                                                     \* mutant
UnitsBurned(a) == a
RequestUnstake(h, a) ==
  /\ ~paused
  /\ a <= staked[h]
  /\ Len(unbonds[h]) < MaxUnbonds
  /\ UpdateReward(h)
  /\ accrued' = [accrued EXCEPT ![h] = Pending(h)]
  /\ staked' = [staked EXCEPT ![h] = @ - a]
  /\ totalStaked' = totalStaked - a
  /\ votes' = MoveVotes(votes, delegate[h], Nobody, UnitsBurned(a))
  /\ unbonds' = [unbonds EXCEPT ![h] = Append(@, [amount |-> a, wait |-> unbondingPeriod])]
  /\ UNCHANGED <<groveVars, delegate, rate, left, duration, coverVars, usdfr, unbondingPeriod, paused>>

\* claimUnstake(unbondId): the entry stays, spent
Unspent(entry) == entry                                                 \* mutant
Spent(entry) == [entry EXCEPT !.amount = 0]
ClaimUnstake(h, i) ==
  /\ ~paused
  /\ unbonds[h][i].amount # 0
  /\ unbonds[h][i].wait = 0
  /\ unbonds' = [unbonds EXCEPT ![h][i] = Spent(@)]
  /\ GroveOut(h, unbonds[h][i].amount)
  /\ UNCHANGED <<staked, totalStaked, voteVars, rewardVars, coverVars, usdfr, unbondingPeriod, paused>>

\* GroveVotesAggregator.getVotes(d), the governor's vote source
VotingPower(d) == groveVotes[d] + votes[d]

\* delegate(delegatee) on sGROVE, open in a pause
Delegate(h, d) ==
  /\ delegate' = [delegate EXCEPT ![h] = d]
  /\ votes' = MoveVotes(votes, delegate[h], d, staked[h])
  /\ UNCHANGED <<groveVars, stakeVars, rewardVars, coverVars, usdfr, unbondingPeriod, paused>>

----------------------------------------------------------------------------
(* USDfr in and out *)

\* notifyRewards(amount), by anyone: a running stream is rolled into the new
\* one and its rate may not fall
AnyRate(r) == r # 0                                                     \* mutant
GoodRate(r) == r # 0 /\ (left # 0 => r >= rate)
NotifyRewards(a) ==
  /\ totalStaked # 0
  /\ duration # 0
  /\ index < MaxIndex
  /\ usdfr + a <= MaxUsdfr
  /\ rate' = (IF left = 0 THEN a ELSE a + Leftover) \div duration
  /\ GoodRate(rate')
  /\ left' = duration
  /\ index' = RewardPerToken
  /\ elapsed' = 0
  /\ usdfr' = usdfr + a
  /\ UNCHANGED <<groveVars, stakeVars, voteVars, userIndex, accrued, duration, coverVars, unbondingPeriod, paused>>

ClaimRewards(h) ==
  /\ ~paused
  /\ Pending(h) # 0
  /\ UpdateReward(h)
  /\ accrued' = [accrued EXCEPT ![h] = 0]
  /\ usdfr' = usdfr - Pending(h)
  /\ UNCHANGED <<groveVars, stakeVars, voteVars, rate, left, duration, coverVars, unbondingPeriod, paused>>

\* fundCoverage(amount), by anyone; the fee checkpoint it brackets in the
\* vault is part of the vault's abstracted fee formula
FundCoverage(a) ==
  /\ \A e \in Events : reserve + covered[e] + a <= MaxCoverage
  /\ usdfr + a <= MaxUsdfr
  /\ reserve' = reserve + a
  /\ usdfr' = usdfr + a
  /\ UNCHANGED <<groveVars, stakeVars, voteVars, rewardVars, covered, unbondingPeriod, paused>>

\* coverShortfall(eventId, amount), by the credit side, never pausable; it
\* always succeeds and covers what the reserve can
FromBalance(a) == IF a < usdfr THEN a ELSE usdfr                        \* mutant
Covered(a) == IF a < reserve THEN a ELSE reserve
CoverShortfall(e, a) ==
  /\ covered' = [covered EXCEPT ![e] = @ + Covered(a)]
  /\ reserve' = reserve - Covered(a)
  /\ usdfr' = usdfr - Covered(a)
  /\ UNCHANGED <<groveVars, stakeVars, voteVars, rewardVars, unbondingPeriod, paused>>

----------------------------------------------------------------------------
(* Governance, the guardian and time *)

SetUnbondingPeriod(p) ==
  /\ p \in 1..MaxUnbonding
  /\ unbondingPeriod' = p
  /\ UNCHANGED <<groveVars, stakeVars, voteVars, rewardVars, coverVars, usdfr, paused>>

\* a stream that runs is never re-timed
SetRewardsDuration(d) ==
  /\ d \in 1..MaxDuration
  /\ left = 0
  /\ duration' = d
  /\ UNCHANGED <<groveVars, stakeVars, voteVars, index, userIndex, accrued, rate, left, elapsed,
                 coverVars, usdfr, unbondingPeriod, paused>>

SetPaused(p) ==
  /\ paused' = p
  /\ UNCHANGED <<groveVars, stakeVars, voteVars, rewardVars, coverVars, usdfr, unbondingPeriod>>

Tick ==
  /\ left' = IF left = 0 THEN 0 ELSE left - 1
  /\ elapsed' = IF left = 0 THEN elapsed ELSE elapsed + 1
  /\ unbonds' = [h \in Holders |-> [i \in 1..Len(unbonds[h]) |->
                   [unbonds[h][i] EXCEPT !.wait = IF @ = 0 THEN 0 ELSE @ - 1]]]
  /\ UNCHANGED <<groveVars, staked, totalStaked, voteVars, index, userIndex, accrued, rate, duration,
                 coverVars, usdfr, unbondingPeriod, paused>>

----------------------------------------------------------------------------

Init ==
  /\ GroveInit
  /\ staked = [h \in Holders |-> 0] /\ totalStaked = 0
  /\ unbonds = [h \in Holders |-> <<>>]
  /\ delegate = [h \in Holders |-> Nobody] /\ votes = [h \in Holders |-> 0]
  /\ index = 0 /\ rate = 0 /\ left = 0 /\ elapsed = 0
  /\ userIndex = [h \in Holders |-> 0] /\ accrued = [h \in Holders |-> 0]
  /\ duration \in Durations \cap 1..MaxDuration
  /\ reserve = 0 /\ covered = [e \in Events |-> 0]
  /\ usdfr = 0
  /\ unbondingPeriod \in UnbondingPeriods \cap 1..MaxUnbonding
  /\ paused = FALSE

Staking ==
  \E h \in Holders :
    \/ \E a \in Amounts : Stake(h, a) \/ RequestUnstake(h, a)
    \/ \E i \in 1..Len(unbonds[h]) : ClaimUnstake(h, i)
    \/ \E d \in Delegatees : Delegate(h, d)

Funding ==
  \/ \E a \in Rewards : NotifyRewards(a)
  \/ \E h \in Holders : ClaimRewards(h)
  \/ \E a \in Cover : FundCoverage(a)
  \/ \E e \in Events, a \in Cover : CoverShortfall(e, a)

Configure ==
  \/ \E p \in UnbondingPeriods \ {unbondingPeriod} : SetUnbondingPeriod(p)
  \/ \E d \in Durations \ {duration} : SetRewardsDuration(d)
  \/ \E p \in PauseModes \ {paused} : SetPaused(p)

Next ==
  \/ Staking
  \/ Funding
  \/ Configure
  \/ Tick
  \/ GroveNext /\ UNCHANGED <<stakeVars, voteVars, rewardVars, coverVars, usdfr, unbondingPeriod, paused>>

Spec == Init /\ [][Next]_vars

----------------------------------------------------------------------------
(* Properties *)

\* Every variable has its type: no subtraction of the code underflows.
Entry == [amount : Nat, wait : Nat]
TypeOK ==
  /\ GroveTypeOK
  /\ staked \in [Holders -> Nat] /\ totalStaked \in Nat
  /\ unbonds \in [Holders -> Seq(Entry)]
  /\ delegate \in [Holders -> 0..NumHolders] /\ votes \in [Holders -> Nat]
  /\ index \in Nat /\ rate \in Nat /\ left \in Nat /\ elapsed \in Nat /\ duration \in Nat
  /\ userIndex \in [Holders -> Nat] /\ accrued \in [Holders -> Nat]
  /\ reserve \in Nat /\ covered \in [Events -> Nat] /\ usdfr \in Nat
  /\ unbondingPeriod \in Nat /\ paused \in BOOLEAN

\* The one balance pays for both: what is reserved for shortfalls, what every
\* staker may claim now and what the running stream still promises (the claim
\* of notifyRewards' comment, next to coverShortfall).
RewardsHeld ==
  usdfr >= reserve + SumTo([h \in Holders |-> Pending(h)], NumHolders) + left * rate

\* Only holding a stake while time passes earns: no stake, unstake, delegation,
\* notification or draw changes what anybody may claim (R4-EC1), and a claim
\* pays out exactly what it erases.
EarnedByTime ==
  [][\A h \in Holders :
       IF Tick THEN Pending(h)' >= Pending(h)
       ELSE \/ Pending(h)' = Pending(h)
            \/ Pending(h)' = 0 /\ usdfr' = usdfr - Pending(h)]_vars

\* M-1: whatever is notified or configured, by every later instant a running
\* stream has paid out at least what it would have.
StreamNeverSlowed ==
  [][~Tick => \A t \in 1..left : rate' * (IF t < left' THEN t ELSE left') >= rate * t]_vars

\* Votes on sGROVE are the active stakes, each counted once for its delegate,
\* whatever the order of staking, delegating and unstaking (L-02).
VotesAreStake ==
  /\ \A d \in Holders :
       votes[d] = SumTo([h \in Holders |-> IF delegate[h] = d THEN staked[h] ELSE 0], NumHolders)
  /\ totalStaked = SumTo(staked, NumHolders)

\* No GROVE votes twice: over all delegates, the two sources the governor adds
\* up never exceed the supply (GroveVotesAggregator.getVotes).
OneVoteEach ==
  SumTo([d \in Holders |-> VotingPower(d)], NumHolders)
    <= SumTo(grove, NumHolders) + custody

\* The contract holds every GROVE it owes, active or unbonding.
Unbonding(h) == SumTo([i \in 1..Len(unbonds[h]) |-> unbonds[h][i].amount], Len(unbonds[h]))
GroveCustody ==
  custody >= totalStaked + SumTo([h \in Holders |-> Unbonding(h)], NumHolders)
=============================================================================
