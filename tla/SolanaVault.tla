---------------------------- MODULE SolanaVault ----------------------------
(***************************************************************************)
(* The curator subscription vault on Solana (solana/curator-vault, the      *)
(* instructions of src/instructions) and what the page of a curator derives *)
(* from the same accounts (frontend/src/lib/curatorVaultMath.ts and         *)
(* CuratorVaultPanel.tsx).  A month is Month time units, a coupon unit      *)
(* Slice parts of principal times rate times time.  Of the ledger the last  *)
(* instruction and its event are kept; the token accounts of the owners and *)
(* of the treasury are left out.                                            *)
(***************************************************************************)
EXTENDS Integers, Sequences, FiniteSets, FiniteSetsExt, Sums, TLC

CONSTANTS Owners, Agreements,
          Keys, Founder,           \* keys of the authorities, and the one that initialised the program
          Appointments,            \* what setAuthorities is called with
          Month, Slice,            \* a UTC month, SLICE_DENOMINATOR
          Rates, Terms,            \* basis points; lock and notice periods
          MaxEpochs, MaxAhead,     \* MAX_RATE_EPOCHS, MAX_TERM_SECONDS
          MaxPrincipal, MaxPool,   \* bounds: principal, coupon pool with its donations
          MaxTime, MaxOrders       \* bounds: the clock, and decisions of the authorities

VaultOK ==
    /\ IsFiniteSet(Owners) /\ Founder \in Keys
    /\ {Month, Slice} \union Rates \union Terms \subseteq Nat \ {0}
    /\ {MaxPrincipal, MaxPool, MaxAhead} \subseteq Nat

VARIABLES now, config, pos,
          roles,           \* the authorities named in config
          vault, pool,     \* balances of vault_ata and coupon_ata
          executed,        \* the last instruction: its name, who signed it, and the position it names
          emitted,         \* the event it emitted
          credit, due,     \* history: parts earned and unpaid, and those of them by the last boundary
          orders           \* decisions so far

vaultVars == <<now, config, pos, roles, vault, pool, executed, emitted, credit, due, orders>>

Interface == INSTANCE SolanaInterface
NoKey == "none"

NoPosition == [open |-> FALSE, allowlisted |-> FALSE, agreement |-> 0, lock |-> 0, notice |-> 0,
               principal |-> 0, drawn |-> 0, lockEnd |-> 0, requestedAt |-> 0, eligibleAt |-> 0,
               through |-> 0, paidThrough |-> 0, owed |-> 0, payable |-> 0, remainder |-> 0, halted |-> FALSE]

VaultInit ==
    /\ now = 2 * Month - 1
    /\ config \in [lock : Terms, notice : Terms, atRisk : BOOLEAN, paused : {FALSE},
                   epochs : {<<[start |-> now, bps |-> r]>> : r \in Rates},
                   total : {0}, drawn : {0}, funded : {0}, paid : {0}, owed : {0}, positions : {0}]
    /\ pos = [o \in Owners |-> NoPosition]
    /\ roles = [admin |-> Founder, pendingAdmin |-> NoKey, allowlistAuthority |-> Founder,
                treasuryAuthority |-> Founder, emergencyAuthority |-> Founder]
    /\ executed = [call |-> "initialize", key |-> Founder, of |-> NoKey]
    /\ emitted = [event |-> "initialized", version |-> 1, admin |-> Founder, allowlistAuthority |-> Founder,
                  treasuryAuthority |-> Founder, emergencyAuthority |-> Founder, usdcMint |-> "usdc",
                  vaultAta |-> "vaultAta", couponAta |-> "couponAta", treasuryAta |-> Founder,
                  lockSeconds |-> config.lock, noticeSeconds |-> config.notice,
                  principalAtRisk |-> config.atRisk, initialBps |-> config.epochs[1].bps]
    /\ vault = 0 /\ pool = 0 /\ orders = 0
    /\ credit = [o \in Owners |-> 0] /\ due = [o \in Owners |-> 0]

(* ------------------------------- math.rs ------------------------------- *)

MonthStart(t) == t - (t % Month)
Later(s, t) == IF s > t THEN s ELSE t
Earlier(s, t) == IF s < t THEN s ELSE t

\* Parts earned by principal over [from, to), slice by slice of the rate epochs.
Accrued(principal, epochs, from, to) ==
    LET End(i) == IF i < Len(epochs) THEN Earlier(epochs[i + 1].start, to) ELSE to
        Begin(i) == Later(epochs[i].start, from)
    IN  SumTo([i \in DOMAIN epochs |-> principal * epochs[i].bps * Later(End(i) - Begin(i), 0)], Len(epochs))

Accrue(p, to) ==
    IF to <= p.through THEN p
    ELSE LET parts == p.remainder + Accrued(p.principal, config.epochs, p.through, to)
         IN  [p EXCEPT !.owed = @ + parts \div Slice, !.remainder = parts % Slice, !.through = to]

\* Coupon of the months completed by `to` becomes payable, the rest is only owed.
CheckpointCoupon(p, to) ==
    IF p.through < MonthStart(to)
    THEN LET matured == Accrue(p, MonthStart(to)) IN Accrue([matured EXCEPT !.payable = matured.owed], to)
    ELSE Accrue(p, to)

MatureCoupon(p, boundary) ==
    IF p.through > boundary THEN p ELSE [Accrue(p, boundary) EXCEPT !.payable = Accrue(p, boundary).owed]

\* A position and the totals it is part of.
Book(o, p) ==
    /\ pos' = [pos EXCEPT ![o] = p]
    /\ config' = [config EXCEPT !.total = @ + p.principal - pos[o].principal,
                                !.drawn = @ + p.drawn - pos[o].drawn,
                                !.owed = @ + p.owed - pos[o].owed]

(* ------------------------ who signs an instruction ------------------------ *)

Executes(call, key, o) == executed' = [call |-> call, key |-> key, of |-> o]

HasOneUnchecked(role, key) == TRUE                                         \* mutant
HasOne(role, key) == roles[role] = key

By(role, call, o) ==
    /\ \E key \in Keys : HasOne(role, key) /\ Executes(call, key, o)
    /\ UNCHANGED roles
ByOwner(call, o) == Executes(call, o, o) /\ UNCHANGED roles
ByAnyone(call, o) == Executes(call, "anyone", o) /\ UNCHANGED roles
ByNobody ==
    /\ executed' = [call |-> "none", key |-> NoKey, of |-> NoKey] /\ emitted' = [event |-> "none"]
    /\ UNCHANGED roles

(* ------------------------------ curator.rs ------------------------------ *)

Order == orders < MaxOrders /\ orders' = orders + 1

Allowlist(o, agreement) ==
    /\ By("allowlistAuthority", "allowlist", o)
    /\ ~pos[o].allowlisted
    /\ pos[o].open /\ (pos[o].principal # 0 \/ pos[o].owed # 0 \/ pos[o].requestedAt # 0) =>
         pos[o].agreement = agreement
    /\ pos' = [pos EXCEPT ![o].open = TRUE, ![o].agreement = agreement, ![o].allowlisted = TRUE]
    /\ config' = [config EXCEPT !.positions = IF pos[o].open THEN @ ELSE @ + 1]
    /\ emitted' = [event |-> "allowlisted", owner |-> o, agreementHash |-> agreement, ts |-> now]
    /\ Order /\ UNCHANGED <<now, vault, pool, credit, due>>

RevokeAllowlist(o) ==
    /\ By("allowlistAuthority", "revokeAllowlist", o)
    /\ pos[o].open
    /\ pos' = [pos EXCEPT ![o].allowlisted = FALSE]
    /\ emitted' = [event |-> "allowlistRevoked", owner |-> o, ts |-> now]
    /\ Order /\ UNCHANGED <<now, config, vault, pool, credit, due>>

Halts(o, halted) ==
    /\ pos[o].open /\ pos' = [pos EXCEPT ![o].halted = halted]
    /\ emitted' = [event |-> "payoutHaltChanged", owner |-> o, halted |-> halted,
                   actor |-> executed'.key, ts |-> now]
    /\ Order /\ UNCHANGED <<now, config, vault, pool, credit, due>>

SetPayoutHalt(o, halted) == By("allowlistAuthority", "setPayoutHalt", o) /\ Halts(o, halted)

EmergencyHalt(o) == By("emergencyAuthority", "emergencyHalt", o) /\ Halts(o, TRUE)

\* A deposit into an empty position takes today's terms; one that is owed nothing starts afresh.
Opened(p) ==
    LET terms == [p EXCEPT !.lock = config.lock, !.notice = config.notice, !.lockEnd = 0]
    IN  IF p.principal # 0 THEN p
        ELSE IF p.owed # 0 THEN terms
        ELSE [terms EXCEPT !.through = now, !.paidThrough = MonthStart(now), !.payable = 0, !.remainder = 0]

Deposit(o, amount) ==
    /\ ByOwner("deposit", o)
    /\ pos[o].open /\ ~config.paused /\ pos[o].allowlisted /\ pos[o].requestedAt = 0
    /\ config.total + amount <= MaxPrincipal
    /\ LET p == CheckpointCoupon(Opened(pos[o]), now)
       IN  Book(o, [p EXCEPT !.principal = @ + amount, !.lockEnd = Later(@, now + p.lock)])
    /\ emitted' = [event |-> "deposited", owner |-> o, amount |-> amount, principalAfter |-> pos'[o].principal,
                   lockEnd |-> pos'[o].lockEnd, totalPrincipal |-> config'.total,
                   positionDrawn |-> pos'[o].drawn, couponOwed |-> pos'[o].owed,
                   couponPayable |-> pos'[o].payable, couponAccruedThrough |-> pos'[o].through, ts |-> now]
    /\ vault' = vault + amount
    /\ LET afresh == pos[o].principal = 0 /\ pos[o].owed = 0
       IN  /\ credit' = IF afresh THEN [credit EXCEPT ![o] = 0] ELSE credit
           /\ due' = IF afresh THEN [due EXCEPT ![o] = 0] ELSE due
    /\ UNCHANGED <<now, pool, orders>>

RequestWithdrawal(o) ==
    /\ ByOwner("requestWithdrawal", o)
    /\ pos[o].principal > 0 /\ pos[o].requestedAt = 0
    /\ pos' = [pos EXCEPT ![o].requestedAt = now,
                          ![o].eligibleAt = Later(now + pos[o].notice, pos[o].lockEnd)]
    /\ emitted' = [event |-> "withdrawalRequested", owner |-> o, eligibleAt |-> pos'[o].eligibleAt, ts |-> now]
    /\ UNCHANGED <<now, config, vault, pool, credit, due, orders>>

CancelWithdrawal(o) ==
    /\ ByOwner("cancelWithdrawal", o)
    /\ pos[o].requestedAt # 0
    /\ pos' = [pos EXCEPT ![o].requestedAt = 0, ![o].eligibleAt = 0]
    /\ emitted' = [event |-> "withdrawalCancelled", owner |-> o, ts |-> now]
    /\ Order /\ UNCHANGED <<now, config, vault, pool, credit, due>>

Withdraw(o, amount) ==
    /\ ByOwner("withdraw", o)
    /\ pos[o].eligibleAt # 0 /\ now >= pos[o].eligibleAt
    /\ amount <= pos[o].principal /\ pos[o].drawn <= pos[o].principal - amount /\ vault >= amount
    /\ config.drawn <= config.total - amount
    /\ LET p == [CheckpointCoupon(pos[o], now) EXCEPT !.principal = @ - amount]
       IN  Book(o, IF p.principal = 0
                   THEN [p EXCEPT !.lockEnd = 0, !.requestedAt = 0, !.eligibleAt = 0] ELSE p)
    /\ emitted' = [event |-> "withdrawn", owner |-> o, amount |-> amount, principalAfter |-> pos'[o].principal,
                   totalPrincipal |-> config'.total, positionDrawn |-> pos'[o].drawn,
                   couponOwed |-> pos'[o].owed, couponPayable |-> pos'[o].payable,
                   couponAccruedThrough |-> pos'[o].through, ts |-> now]
    /\ vault' = vault - amount
    /\ UNCHANGED <<now, pool, credit, due, orders>>

ClosePosition(o) ==
    /\ ByOwner("closePosition", o)
    /\ pos[o].open /\ pos[o].principal = 0 /\ pos[o].drawn = 0 /\ pos[o].owed = 0 /\ pos[o].requestedAt = 0
    /\ pos' = [pos EXCEPT ![o] = NoPosition] /\ config' = [config EXCEPT !.positions = @ - 1]
    /\ emitted' = [event |-> "positionClosed", owner |-> o, ts |-> now]
    /\ credit' = [credit EXCEPT ![o] = 0] /\ due' = [due EXCEPT ![o] = 0]
    /\ UNCHANGED <<now, vault, pool, orders>>

(* ----------------------------- treasury.rs ----------------------------- *)

DrawToTreasury(o, amount) ==
    /\ By("treasuryAuthority", "drawToTreasury", o)
    /\ ~config.paused /\ (pos[o].requestedAt = 0 \/ now < pos[o].lockEnd)
    /\ config.drawn + amount <= config.total /\ pos[o].drawn + amount <= pos[o].principal
    /\ vault >= amount
    /\ Book(o, [pos[o] EXCEPT !.drawn = @ + amount]) /\ vault' = vault - amount
    /\ emitted' = [event |-> "treasuryDraw", owner |-> o, amount |-> amount, drawnAfter |-> config'.drawn,
                   positionDrawnAfter |-> pos'[o].drawn, ts |-> now]
    /\ UNCHANGED <<now, pool, credit, due, orders>>

ReturnPrincipal(o, amount) ==
    /\ By("treasuryAuthority", "returnPrincipal", o)
    /\ amount <= pos[o].drawn
    /\ Book(o, [pos[o] EXCEPT !.drawn = @ - amount]) /\ vault' = vault + amount
    /\ emitted' = [event |-> "principalReturned", owner |-> o, amount |-> amount, drawnAfter |-> config'.drawn,
                   positionDrawnAfter |-> pos'[o].drawn, ts |-> now]
    /\ UNCHANGED <<now, pool, credit, due, orders>>

Accounted == config.funded - config.paid

FundCoupons(amount) ==
    /\ By("treasuryAuthority", "fundCoupons", NoKey)
    /\ pool + amount <= MaxPool
    /\ pool' = pool + amount /\ config' = [config EXCEPT !.funded = @ + amount]
    /\ emitted' = [event |-> "couponsFunded", amount |-> amount, couponFunded |-> config'.funded, ts |-> now]
    /\ UNCHANGED <<now, pos, vault, credit, due, orders>>

\* Only what was donated can be swept while there are positions.
SweepCoupons(amount) ==
    /\ By("treasuryAuthority", "sweepCoupons", NoKey)
    /\ amount <= pool - Accounted /\ pool' = pool - amount
    /\ emitted' = [event |-> "couponsSwept", amount |-> amount, couponFunded |-> config.funded, ts |-> now]
    /\ UNCHANGED <<now, config, pos, vault, credit, due, orders>>

WithdrawUnused(amount) ==
    /\ By("treasuryAuthority", "withdrawUnusedCouponFunding", NoKey)
    /\ ~config.paused /\ config.positions = 0 /\ config.owed = 0 /\ amount <= Accounted
    /\ pool' = pool - amount /\ config' = [config EXCEPT !.funded = @ - amount]
    /\ emitted' = [event |-> "couponFundingWithdrawn", amount |-> amount, couponFunded |-> config'.funded,
                   ts |-> now]
    /\ UNCHANGED <<now, pos, vault, credit, due, orders>>

SweepPrincipalSurplus(amount) ==
    /\ By("treasuryAuthority", "sweepPrincipalSurplus", NoKey)
    /\ amount <= vault - (config.total - config.drawn) /\ vault' = vault - amount
    /\ emitted' = [event |-> "principalSurplusSwept", amount |-> amount, ts |-> now]
    /\ UNCHANGED <<now, config, pos, pool, credit, due, orders>>

Matured(p) == IF p.through # 0 THEN MatureCoupon(p, MonthStart(now)) ELSE p

PayCoupon(o) ==
    /\ ByAnyone("payCoupon", o)
    /\ pos[o].open /\ ~pos[o].halted /\ MonthStart(now) > pos[o].paidThrough
    /\ LET p == Matured(pos[o])
           amount == p.payable
       IN  /\ amount > 0 /\ pool >= amount
           /\ pos' = [pos EXCEPT ![o] = [p EXCEPT !.owed = @ - amount, !.payable = 0,
                                                  !.paidThrough = MonthStart(now)]]
           /\ config' = [config EXCEPT !.owed = @ + p.owed - pos[o].owed - amount, !.paid = @ + amount,
                                       !.funded = @ + Later(amount - Accounted, 0)]
           /\ emitted' = [event |-> "couponPaid", owner |-> o, periodEnd |-> MonthStart(now), amount |-> amount,
                          couponPaid |-> config'.paid, couponOwedAfter |-> pos'[o].owed,
                          couponPayableAfter |-> 0, couponAccruedThrough |-> p.through,
                          surplusRecognized |-> Later(amount - Accounted, 0), ts |-> now]
           /\ pool' = pool - amount
           /\ credit' = [credit EXCEPT ![o] = @ - Slice * amount]
           /\ due' = [due EXCEPT ![o] = @ - Slice * amount]
    /\ UNCHANGED <<now, vault, orders>>

LossRecorded(o, amount) ==
    emitted' = [event |-> "lossRecorded", owner |-> o, amount |-> amount, principalAfter |-> pos'[o].principal,
                positionDrawnAfter |-> pos'[o].drawn, couponOwed |-> pos'[o].owed,
                couponPayable |-> pos'[o].payable, couponAccruedThrough |-> pos'[o].through,
                evidenceHash |-> "evidence", ts |-> now]

RecordLossUnsettled(o, amount) ==                                          \* mutant
    /\ By("admin", "recordLoss", o)
    /\ config.atRisk /\ amount <= pos[o].principal /\ amount <= pos[o].drawn
    /\ Book(o, [pos[o] EXCEPT !.principal = @ - amount, !.drawn = @ - amount])
    /\ LossRecorded(o, amount) /\ UNCHANGED <<now, vault, pool, credit, due, orders>>
RecordLoss(o, amount) ==
    /\ By("admin", "recordLoss", o)
    /\ config.atRisk /\ amount <= pos[o].principal /\ amount <= pos[o].drawn
    /\ Book(o, [CheckpointCoupon(pos[o], now) EXCEPT !.principal = @ - amount, !.drawn = @ - amount])
    /\ LossRecorded(o, amount) /\ UNCHANGED <<now, vault, pool, credit, due, orders>>

(* -------------------------- admin.rs, the world -------------------------- *)

SetRate(bps, start) ==
    /\ By("admin", "setRate", NoKey)
    /\ Len(config.epochs) < MaxEpochs
    /\ start > config.epochs[Len(config.epochs)].start /\ start >= now /\ start <= now + MaxAhead
    /\ config' = [config EXCEPT !.epochs = Append(@, [start |-> start, bps |-> bps])]
    /\ emitted' = [event |-> "rateEpochAdded", index |-> Len(config.epochs), startTs |-> start, bps |-> bps]
    /\ Order /\ UNCHANGED <<now, pos, vault, pool, credit, due>>

SetTerms(lock, notice) ==
    /\ By("admin", "setTerms", NoKey)
    /\ config' = [config EXCEPT !.lock = lock, !.notice = notice]
    /\ emitted' = [event |-> "termsChanged", lockSeconds |-> lock, noticeSeconds |-> notice]
    /\ Order /\ UNCHANGED <<now, pos, vault, pool, credit, due>>

Pauses(paused) ==
    /\ config' = [config EXCEPT !.paused = paused]
    /\ emitted' = [event |-> "pauseChanged", paused |-> paused, actor |-> executed'.key, ts |-> now]
    /\ Order /\ UNCHANGED <<now, pos, vault, pool, credit, due>>

SetPaused(paused) == By("admin", "setPaused", NoKey) /\ Pauses(paused)

EmergencyPause == By("emergencyAuthority", "emergencyPause", NoKey) /\ Pauses(TRUE)

\* An appointment names the three working authorities at once; the token account of the
\* treasury is one its authority owns, and known by that.
SetAuthorities(appointment) ==
    /\ \E key \in Keys : HasOne("admin", key) /\ Executes("setAuthorities", key, NoKey)
    /\ roles' = appointment @@ roles
    /\ emitted' = [event |-> "authoritiesChanged", allowlistAuthority |-> appointment.allowlistAuthority,
                   treasuryAuthority |-> appointment.treasuryAuthority,
                   emergencyAuthority |-> appointment.emergencyAuthority,
                   treasuryAta |-> appointment.treasuryAuthority]
    /\ Order /\ UNCHANGED <<now, config, pos, vault, pool, credit, due>>

ProposeAdmin(newAdmin) ==
    /\ \E key \in Keys : HasOne("admin", key) /\ Executes("proposeAdmin", key, NoKey)
    /\ roles' = [roles EXCEPT !.pendingAdmin = newAdmin]
    /\ emitted' = [event |-> "adminTransferProposed", admin |-> roles.admin, pendingAdmin |-> newAdmin]
    /\ Order /\ UNCHANGED <<now, config, pos, vault, pool, credit, due>>

AcceptAdmin(key) ==
    /\ roles.pendingAdmin = key /\ Executes("acceptAdmin", key, NoKey)
    /\ roles' = [roles EXCEPT !.admin = key, !.pendingAdmin = NoKey]
    /\ emitted' = [event |-> "adminTransferAccepted", previousAdmin |-> roles.admin, admin |-> key]
    /\ UNCHANGED <<now, config, pos, vault, pool, credit, due, orders>>

\* Anyone may transfer to the program's token accounts.
Donate ==
    /\ ByNobody
    /\ \/ vault < MaxPrincipal + 1 /\ vault' = vault + 1 /\ UNCHANGED pool
       \/ pool < MaxPool /\ pool' = pool + 1 /\ UNCHANGED vault
    /\ Order /\ UNCHANGED <<now, config, pos, credit, due>>

RateAt(t) == LET started == {i \in DOMAIN config.epochs : config.epochs[i].start <= t}
             IN  config.epochs[Max(started)].bps

Elapse ==
    /\ ByNobody
    /\ now < MaxTime /\ now' = now + 1
    /\ credit' = [o \in Owners |-> credit[o] + pos[o].principal * RateAt(now)]
    /\ due' = IF MonthStart(now') = now' THEN credit' ELSE due
    /\ UNCHANGED <<config, pos, vault, pool, orders>>

VaultNext ==
    \/ Elapse \/ Donate \/ EmergencyPause
    \/ \E bps \in Rates, start \in now..(now + MaxAhead) : SetRate(bps, start)
    \/ \E lock, notice \in Terms : SetTerms(lock, notice)
    \/ \E paused \in BOOLEAN : SetPaused(paused)
    \/ \E appointment \in Appointments : SetAuthorities(appointment)
    \/ \E key \in Keys : ProposeAdmin(key) \/ AcceptAdmin(key)
    \/ \E amount \in 1..MaxPool : FundCoupons(amount) \/ SweepCoupons(amount) \/ WithdrawUnused(amount)
    \/ \E amount \in 1..(MaxPrincipal + 1) : SweepPrincipalSurplus(amount)
    \/ \E o \in Owners :
         \/ RevokeAllowlist(o) \/ EmergencyHalt(o) \/ RequestWithdrawal(o) \/ CancelWithdrawal(o)
         \/ ClosePosition(o) \/ PayCoupon(o)
         \/ \E agreement \in Agreements : Allowlist(o, agreement)
         \/ \E halted \in BOOLEAN : SetPayoutHalt(o, halted)
         \/ \E amount \in 1..MaxPrincipal :
              \/ Deposit(o, amount) \/ Withdraw(o, amount) \/ DrawToTreasury(o, amount)
              \/ ReturnPrincipal(o, amount) \/ RecordLoss(o, amount)

VaultSpec == VaultInit /\ [][VaultNext]_vaultVars

(* ------------------------- curatorVaultMath.ts ------------------------- *)

\* couponView: what the page says is claimable, and pending for the next boundary.
CouponView(p) ==
    LET boundary == MonthStart(now)
        payableNow == boundary > p.paidThrough
        settled == IF payableNow /\ p.through # 0 THEN MatureCoupon(p, boundary) ELSE p
        parts == settled.remainder + Accrued(p.principal, config.epochs, settled.through, now)
    IN  [claimable |-> IF payableNow THEN settled.payable ELSE 0,
         pending |-> settled.owed - settled.payable + parts \div Slice]

\* The panel's "earned and unpaid".
EarnedUnpaid(p) == p.owed + (p.remainder + Accrued(p.principal, config.epochs, p.through, now)) \div Slice

(* ------------------------ what the accounts hold ------------------------ *)

\* The accounts as a client decodes them, but for layout, the mint, the day count and two
\* fields nothing reads back (depositedAt, lossesRecorded).
LeftOut == {"version", "bump", "reserved", "dayCount", "usdcMint", "depositedAt", "lossesRecorded"}

PositionAccount(o) ==
    LET p == pos[o]
    IN  [owner |-> o, agreementHash |-> p.agreement, allowlisted |-> p.allowlisted,
         lockSeconds |-> p.lock, noticeSeconds |-> p.notice, principal |-> p.principal, drawn |-> p.drawn,
         lockEnd |-> p.lockEnd, noticeRequestedAt |-> p.requestedAt, withdrawalEligibleAt |-> p.eligibleAt,
         couponAccruedThrough |-> p.through, couponPaidThrough |-> p.paidThrough, couponOwed |-> p.owed,
         couponPayable |-> p.payable, couponRemainder |-> p.remainder, payoutHalted |-> p.halted]

ConfigAccount ==
    [admin |-> roles.admin, pendingAdmin |-> roles.pendingAdmin, allowlistAuthority |-> roles.allowlistAuthority,
     treasuryAuthority |-> roles.treasuryAuthority, emergencyAuthority |-> roles.emergencyAuthority,
     vaultAta |-> "vaultAta", couponAta |-> "couponAta", treasuryAta |-> roles.treasuryAuthority,
     lockSeconds |-> config.lock, noticeSeconds |-> config.notice, principalAtRisk |-> config.atRisk,
     paused |-> config.paused, rateEpochs |-> config.epochs, rateEpochCount |-> Len(config.epochs),
     totalPrincipal |-> config.total, drawn |-> config.drawn, couponFunded |-> config.funded,
     couponPaid |-> config.paid, couponOwedTotal |-> config.owed, positions |-> config.positions]

(* ------------------------------ properties ------------------------------ *)

\* A sum over the owners, in some order.
Listed == CHOOSE s \in Bijection(1..Cardinality(Owners), Owners) : TRUE
Sum(f) == SumTo([i \in 1..Cardinality(Owners) |-> f[Listed[i]]], Cardinality(Owners))

\* The principal account always holds the undrawn principal and the coupon account what was
\* funded and not paid, and the totals are those of the positions, whatever was drawn, lost,
\* returned, swept or donated (invariants I1 to I4 of the instructions).
VaultBacked ==
    /\ vault >= config.total - config.drawn /\ pool >= Accounted /\ Accounted >= 0
    /\ config.total = Sum([o \in Owners |-> pos[o].principal])
    /\ config.drawn = Sum([o \in Owners |-> pos[o].drawn])
    /\ config.owed = Sum([o \in Owners |-> pos[o].owed])
    /\ \A o \in Owners : pos[o].drawn <= pos[o].principal /\ pos[o].payable <= pos[o].owed

\* Coupon is neither lost nor made: however often and whenever a position is settled, what is
\* owed, carried and still to be settled is exactly what its principal earned and was not
\* paid, and what the crank pays is exactly the part earned by the last month boundary.
CouponConserved ==
    \A o \in Owners :
        LET p == pos[o]
        IN  /\ Slice * p.owed + p.remainder + Accrued(p.principal, config.epochs, p.through, now) = credit[o]
            /\ MonthStart(now) > p.paidThrough => Matured(p).payable = due[o] \div Slice

\* The page shows as claimable what the crank would pay, and with the pending part all that was
\* earned (couponView and the panel against handle_pay_coupon).
ClaimableIsPaid ==
    \A o \in Owners :
        LET view == CouponView(pos[o])
            paid == IF MonthStart(now) > pos[o].paidThrough THEN Matured(pos[o]).payable ELSE 0
        IN  /\ view.claimable = paid
            /\ view.claimable + view.pending = EarnedUnpaid(pos[o])
            /\ EarnedUnpaid(pos[o]) = credit[o] \div Slice

\* An instruction changes only accounts its interface sends writable, of the positions only the
\* one it names, and was signed by the key that held the role when it ran.
AsInterfaced ==
    LET call == executed'.call
        sent == Interface!Instructions[call]
        Touches(accounts) == sent.writes \intersect accounts # {}
    IN  call # "none" =>
          /\ <<config, roles>>' # <<config, roles>> => Touches({"config"})
          /\ vault' # vault => Touches({"vaultAta"})
          /\ pool' # pool => Touches({"couponAta", "destination"})
          /\ \A o \in Owners : pos'[o] # pos[o] => Touches({"position"}) /\ executed'.of = o
          /\ sent.signer = "owner" => executed'.key = executed'.of
          /\ sent.signer \in DOMAIN roles => executed'.key = roles[sent.signer]

\* What an indexer that has followed the events so far concludes from the next one, of the
\* position it names (p) and of the configuration (c).
Says(event, fields, before) ==
    IF fields \intersect DOMAIN event = {} THEN before
    ELSE event[CHOOSE field \in fields : field \in DOMAIN event]

FollowPosition(p, c, event) ==
    LET told == [p EXCEPT
            !.agreementHash        = Says(event, {"agreementHash"}, @),
            !.principal            = Says(event, {"principalAfter"}, @),
            !.drawn                = Says(event, {"positionDrawn", "positionDrawnAfter"}, @),
            !.lockEnd              = Says(event, {"lockEnd"}, @),
            !.withdrawalEligibleAt = Says(event, {"eligibleAt"}, @),
            !.couponAccruedThrough = Says(event, {"couponAccruedThrough"}, @),
            !.couponPaidThrough    = Says(event, {"periodEnd"}, @),
            !.couponOwed           = Says(event, {"couponOwed", "couponOwedAfter"}, @),
            !.couponPayable        = Says(event, {"couponPayable", "couponPayableAfter"}, @),
            !.payoutHalted         = Says(event, {"halted"}, @)]
        noNotice == [told EXCEPT !.noticeRequestedAt = 0, !.withdrawalEligibleAt = 0]
    IN  CASE event.event \in {"allowlisted", "allowlistRevoked"} ->
               [told EXCEPT !.allowlisted = event.event = "allowlisted"]
          [] event.event = "withdrawalRequested" -> [told EXCEPT !.noticeRequestedAt = event.ts]
          [] event.event = "withdrawalCancelled" -> noNotice
          [] event.event = "withdrawn" /\ told.principal = 0 -> [noNotice EXCEPT !.lockEnd = 0]
          [] event.event = "deposited" /\ p.principal = 0 ->
               [told EXCEPT !.lockSeconds = c.lockSeconds, !.noticeSeconds = c.noticeSeconds,
                            !.couponPaidThrough = IF p.couponOwed = 0 THEN MonthStart(event.ts) ELSE @]
          [] OTHER -> told

FollowConfig(p, isOpen, c, event) ==
    LET lost == IF event.event = "lossRecorded" THEN event.amount ELSE 0
        opens  == IF event.event = "allowlisted" /\ ~isOpen THEN 1 ELSE 0
        closes == IF event.event = "positionClosed" THEN 1 ELSE 0
        grows == event.event = "rateEpochAdded"
    IN  [c EXCEPT
            !.admin              = IF event.event = "adminTransferAccepted" THEN event.admin ELSE @,
            !.pendingAdmin       = IF event.event = "adminTransferAccepted" THEN NoKey
                                   ELSE Says(event, {"pendingAdmin"}, @),
            !.allowlistAuthority = Says(event, {"allowlistAuthority"}, @),
            !.treasuryAuthority  = Says(event, {"treasuryAuthority"}, @),
            !.emergencyAuthority = Says(event, {"emergencyAuthority"}, @),
            !.treasuryAta        = Says(event, {"treasuryAta"}, @),
            !.lockSeconds        = Says(event, {"lockSeconds"}, @),
            !.noticeSeconds      = Says(event, {"noticeSeconds"}, @),
            !.paused             = Says(event, {"paused"}, @),
            !.rateEpochs         = IF grows THEN Append(@, [start |-> event.startTs, bps |-> event.bps]) ELSE @,
            !.rateEpochCount     = IF grows THEN event.index + 1 ELSE @,
            !.totalPrincipal     = Says(event, {"totalPrincipal"}, @) - lost,
            !.drawn              = Says(event, {"drawnAfter"}, @) - lost,
            !.couponFunded       = Says(event, {"couponFunded"}, @) + Says(event, {"surplusRecognized"}, 0),
            !.couponPaid         = Says(event, {"couponPaid"}, @),
            !.positions          = @ + opens - closes,
            !.couponOwedTotal    = @ + Says(event, {"couponOwed", "couponOwedAfter"}, p.couponOwed) - p.couponOwed]

\* The events are complete: with the fields the interface declares, one per instruction, they
\* give both accounts after every instruction, but for the coupon remainder ("complete
\* transition records for operations and indexing", README of the program).
EventsComplete ==
    LET event == emitted'
    IN  executed'.call # "none" =>
          /\ DOMAIN event = Interface!Events[event.event] \union {"event"}
          /\ executed'.of = NoKey => FollowConfig([couponOwed |-> 0], FALSE, ConfigAccount, event) = ConfigAccount'
          /\ \A o \in Owners :
               LET after == PositionAccount(o)'
               IN  executed'.of = o =>
                     /\ event.owner = o
                     /\ FollowConfig(PositionAccount(o), pos[o].open, ConfigAccount, event) = ConfigAccount'
                     /\ IF event.event = "positionClosed" THEN ~pos'[o].open
                        ELSE after = [FollowPosition(PositionAccount(o), ConfigAccount, event)
                                        EXCEPT !.couponRemainder = after.couponRemainder]
                     /\ DOMAIN after = Interface!position \ LeftOut
          /\ DOMAIN ConfigAccount = Interface!config \ LeftOut

\* Whoever has held which role: principal leaves a position only to its owner, as a loss the
\* admin records, or as a draw that leaves it owed; the brakes of the emergency key are lifted
\* only by the admin and the allowlist authority; the admin changes only to a key that signed
\* for itself after the admin in office proposed it; an open notice is taken back only by the
\* owner; and the terms of capital at work never change.
StepAsSigned ==
    LET Signed(call, key) == executed'.call = call /\ executed'.key = key
    IN  /\ AsInterfaced /\ EventsComplete
        /\ config.paused /\ ~config.paused' => Signed("setPaused", roles.admin)
        /\ roles'.admin # roles.admin => Signed("acceptAdmin", roles'.admin) /\ roles.pendingAdmin = roles'.admin
        /\ roles'.pendingAdmin \notin {roles.pendingAdmin, NoKey} => Signed("proposeAdmin", roles.admin)
        /\ \A o \in Owners :
             LET p == pos[o]
                 q == pos'[o]
             IN  /\ q.principal < p.principal => Signed("withdraw", o) \/ Signed("recordLoss", roles.admin)
                 /\ q.drawn > p.drawn => Signed("drawToTreasury", roles.treasuryAuthority)
                 /\ p.open /\ p.halted /\ ~q.halted =>
                      Signed("setPayoutHalt", roles.allowlistAuthority) \/ Signed("closePosition", o)
                 /\ p.requestedAt # 0 /\ q.requestedAt # p.requestedAt =>
                      Signed("cancelWithdrawal", o) \/ Signed("withdraw", o)
                 /\ p.principal > 0 /\ q.principal > 0 =>
                      q.lock = p.lock /\ q.notice = p.notice /\ q.lockEnd >= p.lockEnd
=============================================================================
