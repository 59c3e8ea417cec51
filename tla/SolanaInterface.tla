-------------------------- MODULE SolanaInterface --------------------------
(***************************************************************************)
(* The interface of the curator program as its clients have it              *)
(* (frontend/src/config/curator-vault.types.ts, generated from a build):    *)
(* who signs an instruction and which of its accounts are sent writable,    *)
(* and the fields of the events and accounts it decodes.  The runtime       *)
(* refuses an instruction that writes any other account.  Discriminators,   *)
(* arguments, fixed addresses and the bytes of the seeds are left out.      *)
(***************************************************************************)
EXTENDS TLC

Instruction(signer, writes) == [signer |-> signer, writes |-> writes]

\* The position is derived from the owner who signs, or is any position (its own owner's seed).
acceptAdmin           == Instruction("pendingAdmin", {"config"})
allowlist             == Instruction("allowlistAuthority", {"allowlistAuthority", "config", "position"})
cancelWithdrawal      == Instruction("owner", {"config", "position"})
closePosition         == Instruction("owner", {"owner", "config", "position"})
deposit               == Instruction("owner", {"config", "position", "vaultAta", "ownerAta"})
drawToTreasury        == Instruction("treasuryAuthority", {"config", "position", "vaultAta", "treasuryAta"})
emergencyHalt         == Instruction("emergencyAuthority", {"position"})
emergencyPause        == Instruction("emergencyAuthority", {"config"})
fundCoupons           == Instruction("treasuryAuthority", {"config", "source", "destination"})
initialize            == Instruction("admin", {"admin", "config", "vaultAta", "couponAta"})
payCoupon             == Instruction("cranker", {"config", "position", "couponAta", "ownerAta"})
proposeAdmin          == Instruction("admin", {"config"})
recordLoss            == Instruction("admin", {"config", "position"})
requestWithdrawal     == Instruction("owner", {"config", "position"})
returnPrincipal       == Instruction("treasuryAuthority", {"config", "position", "source", "vaultAta"})
revokeAllowlist       == Instruction("allowlistAuthority", {"position"})
setAuthorities        == Instruction("admin", {"config"})
setPaused             == Instruction("admin", {"config"})
setPayoutHalt         == Instruction("allowlistAuthority", {"position"})
setRate               == Instruction("admin", {"config"})
setTerms              == Instruction("admin", {"config"})
sweepCoupons          == Instruction("treasuryAuthority", {"config", "couponAta", "treasuryAta"})
sweepPrincipalSurplus == Instruction("treasuryAuthority", {"config", "vaultAta", "treasuryAta"})
withdraw              == Instruction("owner", {"config", "position", "vaultAta", "ownerAta"})
withdrawUnusedCouponFunding == Instruction("treasuryAuthority", {"config", "couponAta", "treasuryAta"})

Instructions ==
    [acceptAdmin |-> acceptAdmin, allowlist |-> allowlist, cancelWithdrawal |-> cancelWithdrawal,
     closePosition |-> closePosition, deposit |-> deposit, drawToTreasury |-> drawToTreasury,
     emergencyHalt |-> emergencyHalt, emergencyPause |-> emergencyPause, fundCoupons |-> fundCoupons,
     initialize |-> initialize, payCoupon |-> payCoupon, proposeAdmin |-> proposeAdmin,
     recordLoss |-> recordLoss, requestWithdrawal |-> requestWithdrawal,
     returnPrincipal |-> returnPrincipal, revokeAllowlist |-> revokeAllowlist,
     setAuthorities |-> setAuthorities, setPaused |-> setPaused, setPayoutHalt |-> setPayoutHalt,
     setRate |-> setRate, setTerms |-> setTerms, sweepCoupons |-> sweepCoupons,
     sweepPrincipalSurplus |-> sweepPrincipalSurplus, withdraw |-> withdraw,
     withdrawUnusedCouponFunding |-> withdrawUnusedCouponFunding]

(* The fields of each event, and of the two accounts a client decodes. *)
adminTransferAccepted == {"previousAdmin", "admin"}
adminTransferProposed == {"admin", "pendingAdmin"}
allowlistRevoked == {"owner", "ts"}
allowlisted == {"owner", "agreementHash", "ts"}
authoritiesChanged == {"allowlistAuthority", "treasuryAuthority", "emergencyAuthority", "treasuryAta"}
couponFundingWithdrawn == {"amount", "couponFunded", "ts"}
couponPaid == {"owner", "periodEnd", "amount", "couponPaid", "couponOwedAfter", "couponPayableAfter",
               "couponAccruedThrough", "surplusRecognized", "ts"}
couponsFunded == {"amount", "couponFunded", "ts"}
couponsSwept == {"amount", "couponFunded", "ts"}
deposited == {"owner", "amount", "principalAfter", "lockEnd", "totalPrincipal", "positionDrawn", "couponOwed",
              "couponPayable", "couponAccruedThrough", "ts"}
initialized == {"version", "admin", "allowlistAuthority", "treasuryAuthority", "emergencyAuthority", "usdcMint",
                "vaultAta", "couponAta", "treasuryAta", "lockSeconds", "noticeSeconds", "principalAtRisk",
                "initialBps"}
lossRecorded == {"owner", "amount", "principalAfter", "positionDrawnAfter", "couponOwed", "couponPayable",
                 "couponAccruedThrough", "evidenceHash", "ts"}
pauseChanged == {"paused", "actor", "ts"}
payoutHaltChanged == {"owner", "halted", "actor", "ts"}
positionClosed == {"owner", "ts"}
principalReturned == {"owner", "amount", "drawnAfter", "positionDrawnAfter", "ts"}
principalSurplusSwept == {"amount", "ts"}
rateEpochAdded == {"index", "startTs", "bps"}
termsChanged == {"lockSeconds", "noticeSeconds"}
treasuryDraw == {"owner", "amount", "drawnAfter", "positionDrawnAfter", "ts"}
withdrawalCancelled == {"owner", "ts"}
withdrawalRequested == {"owner", "eligibleAt", "ts"}
withdrawn == {"owner", "amount", "principalAfter", "totalPrincipal", "positionDrawn", "couponOwed", "couponPayable",
              "couponAccruedThrough", "ts"}

\* The list of the events in its order, as far as initialized, and all of it.
FirstEvents ==
    [adminTransferAccepted |-> adminTransferAccepted, adminTransferProposed |-> adminTransferProposed,
     allowlistRevoked |-> allowlistRevoked, allowlisted |-> allowlisted,
     authoritiesChanged |-> authoritiesChanged, couponFundingWithdrawn |-> couponFundingWithdrawn,
     couponPaid |-> couponPaid, couponsFunded |-> couponsFunded, couponsSwept |-> couponsSwept,
     deposited |-> deposited, initialized |-> initialized]
Events ==
    FirstEvents @@
    [lossRecorded |-> lossRecorded, pauseChanged |-> pauseChanged, payoutHaltChanged |-> payoutHaltChanged,
     positionClosed |-> positionClosed, principalReturned |-> principalReturned,
     principalSurplusSwept |-> principalSurplusSwept, rateEpochAdded |-> rateEpochAdded,
     termsChanged |-> termsChanged, treasuryDraw |-> treasuryDraw,
     withdrawalCancelled |-> withdrawalCancelled, withdrawalRequested |-> withdrawalRequested,
     withdrawn |-> withdrawn]

config == {"version", "admin", "pendingAdmin", "allowlistAuthority", "treasuryAuthority", "emergencyAuthority",
           "usdcMint", "vaultAta", "couponAta", "treasuryAta", "lockSeconds", "noticeSeconds", "dayCount",
           "principalAtRisk", "paused", "rateEpochs", "rateEpochCount", "totalPrincipal", "drawn", "couponFunded",
           "couponPaid", "couponOwedTotal", "positions", "bump", "reserved"}
position == {"version", "owner", "agreementHash", "allowlisted", "lockSeconds", "noticeSeconds", "principal", "drawn",
             "depositedAt", "lockEnd", "noticeRequestedAt", "withdrawalEligibleAt", "couponAccruedThrough",
             "couponPaidThrough", "couponOwed", "couponPayable", "couponRemainder", "lossesRecorded", "payoutHalted",
             "bump", "reserved"}
=============================================================================
