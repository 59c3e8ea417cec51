------------------------- MODULE TreasuryLiquidity -------------------------
(***************************************************************************)
(* The three operator panels that place the treasury's liquidity under      *)
(* frontend/src/components/app: LiquidityOperation.tsx (a pilot, then the   *)
(* remainder), SusdfrLiquidityOperation.tsx (a seed that opens the pool,    *)
(* then a wall) and SusdfrV2LiquidityOperation.tsx (one deposit that        *)
(* creates the pair).  Each step is planned from a fresh read, signed,      *)
(* simulated, sent and verified against its receipt; a browser record and   *)
(* a refresh bring back what a reload forgot.  The treasury holds the funds *)
(* and both token approvals are one.  What a panel shows is the last write  *)
(* of a refresh or of an operation, so a second operation may run beside    *)
(* the first.                                                               *)
(***************************************************************************)
EXTENDS LiquidityMath, Sequences, FiniteSets, FiniteSetsExt, TLC

CONSTANTS Prices,                 \* prices the pool may move to
          MaxJobs, MaxSends, MaxMishaps    \* bounds: operations at once, transactions sent, disturbances

Panels == {"usdfr", "susdfr", "v2"}
Steps(p) == IF p = "v2" THEN {"first"} ELSE {"first", "second"}

VARIABLES panel,      \* the page
          connected,  \* the treasury's wallet, on mainnet
          mem,        \* pilot/remainder, seed/wall or confirmed: the confirmed transaction, or 0
          stored,     \* localStorage: the last transaction sent for each step, or 0
          view,       \* the snapshot: price, Permit2 nonce and approval
          loading,    \* refresh is running
          shown,      \* status.phase, of whoever wrote it last
          jobs,       \* approveToken or executePlan, as often as it runs
          pool,       \* the chain: price (0 unopened), nonce, approval
          sent,       \* the wallet's transactions, in the order of its nonce
          lost,       \* history: the page gave up on a transaction or an operation that goes on
          mishaps

liquidityVars == <<panel, connected, mem, stored, view, loading, shown, jobs, pool, sent, lost, mishaps>>

Nothing == [first |-> 0, second |-> 0]
NoCall == [opens |-> FALSE, lower |-> 0, upper |-> 0, liquidity |-> 0, usdc |-> 0, other |-> 0, nonce |-> 0]
NoJob == [pc |-> "none", step |-> "none", price |-> 0, plan |-> NoPlan, call |-> NoCall, base |-> 0, tx |-> 0]
NoView == [price |-> 0, nonce |-> 0, approved |-> FALSE, read |-> FALSE]

LiquidityInit ==
    /\ panel \in Panels /\ connected = TRUE /\ mem = Nothing /\ stored = Nothing
    /\ view = NoView /\ loading = TRUE
    /\ shown = "rest" /\ jobs = [j \in 1..MaxJobs |-> NoJob]
    /\ pool \in [price : IF panel = "usdfr" THEN Prices ELSE {0}, nonce : {0}, approved : BOOLEAN]
    /\ sent = <<>> /\ lost = FALSE /\ mishaps = 0

\* loadSnapshot: the pool pages read price, nonces and allowances apart, the pair's page all at
\* one block and no nonce.
ReadPool(price) == view' = [price |-> price, nonce |-> pool.nonce, approved |-> pool.approved, read |-> TRUE]
ReadPair == view' = [NoView EXCEPT !.price = pool.price, !.approved = pool.approved, !.read = TRUE]
Read == IF panel = "v2" THEN ReadPair ELSE ReadPool(pool.price)
Mishap == mishaps < MaxMishaps /\ mishaps' = mishaps + 1

Unresolved(k) == sent[k].fate = "pending"
\* A transaction of this page whose outcome is still open.
Open(k) == k # 0 /\ sent[k].step # "approve"

\* setStatus: idle, success and error are at rest.  A page that shows itself at rest beside a step
\* that still runs has lost sight of it, like of a transaction it gave up.
Plans(job) == job.step \notin {"none", "approve"}
Shows(phase) == shown' = phase
LosesIf(gone) == lost' = (lost \/ gone \/ (shown' = "rest" /\ \E j \in DOMAIN jobs : Plans(jobs'[j])))

(* ------------------------------- refresh ------------------------------- *)

BusyWithoutPending == loading \/ shown = "working"                        \* mutant
Busy == loading \/ shown # "rest"

StartRefresh ==
    /\ connected /\ ~Busy
    /\ loading' = TRUE
    /\ UNCHANGED <<panel, connected, mem, stored, view, shown, jobs, pool, sent, lost, mishaps>>

\* verifyConfirmedMint: the receipt proves the step as planned.
VerifiedUsdfr(k) == sent[k].fate = "ok" /\ sent[k].usdc > 0 /\ sent[k].other > 0
VerifiedSusdfr(k) == sent[k].fate = "ok" /\ (sent[k].step = "first" => sent[k].opened)
VerifiedPair(k) == sent[k].fate = "ok" /\ sent[k].opened
Verified(k) == CASE panel = "usdfr" -> VerifiedUsdfr(k) [] panel = "susdfr" -> VerifiedSusdfr(k)
                 [] panel = "v2" -> VerifiedPair(k)

\* restoreProgress: "not found" is skipped on the first two pages, anything else stops it.
RestoredStep(step) == stored[step] # 0 /\ Verified(stored[step])
Skipped(step) == stored[step] = 0 \/ Unresolved(stored[step])
Keep(step) == IF RestoredStep(step) THEN stored[step] ELSE mem[step]
RestoreUsdfr ==
    mem' = [first  |-> Keep("first"),
            second |-> IF RestoredStep("first") \/ Skipped("first") THEN Keep("second") ELSE mem.second]
RestoreSusdfr ==
    mem' = [first  |-> Keep("first"),
            second |-> IF RestoredStep("first") THEN Keep("second") ELSE mem.second]
RestorePair == mem' = [mem EXCEPT !.first = Keep("first")]

\* A node that lags may not find a transaction that was mined.
EndRefresh ==
    /\ loading /\ loading' = FALSE
    /\ \/ Read /\ UNCHANGED <<lost, mishaps>>
          /\ CASE panel = "usdfr" -> RestoreUsdfr [] panel = "susdfr" -> RestoreSusdfr
               [] panel = "v2" -> RestorePair
       \/ Read /\ Mishap /\ UNCHANGED mem
          /\ lost' = (lost \/ \E step \in Steps(panel) : stored[step] # mem[step])
    /\ UNCHANGED <<panel, connected, stored, shown, jobs, pool, sent>>

\* The error is shown over what an operation showed, and the buttons are back while it goes on.
RefreshFails ==
    /\ loading /\ loading' = FALSE /\ Shows("rest")
    /\ Mishap /\ UNCHANGED jobs
    /\ LosesIf(\E step \in Steps(panel) : stored[step] # mem[step])
    /\ UNCHANGED <<panel, connected, mem, stored, view, pool, sent>>

(* ------------------------------- buttons ------------------------------- *)

Ready == connected /\ view.read /\ ~Busy

\* An operation goes on, with what it shows; each that begins has a place of its own.
Goes(j, job, phase) == jobs' = [jobs EXCEPT ![j] = job] /\ Shows(phase) /\ LosesIf(FALSE)
NextPlace(j) == jobs[j] = NoJob /\ \A i \in 1..(j - 1) : jobs[i] # NoJob

ApproveAllowed == view.read /\ ~view.approved
Approving == [NoJob EXCEPT !.pc = "submitting", !.step = "approve"]

\* approveToken of the pools: without limit, for Permit2.
ApprovePool(j) == Goes(j, Approving, "working") /\ UNCHANGED view
\* approveToken of the pair: exact, on a fresh read, and locked once the pair exists.
ApprovePair(j) == ReadPair /\ IF pool.price = 0 THEN Goes(j, Approving, "working") ELSE Goes(j, NoJob, "rest")
PressApprove(j) ==
    /\ Ready /\ ApproveAllowed /\ NextPlace(j)
    /\ IF panel = "v2" THEN ApprovePair(j) ELSE ApprovePool(j)
    /\ UNCHANGED <<panel, connected, mem, stored, loading, pool, sent, mishaps>>

\* The guards of the buttons, on what was last read.
UsdfrOffers(step) ==
    /\ mem[step] = 0 /\ (step = "second" => mem.first # 0)
    /\ IF step = "first" THEN PilotPlan(view.price) # NoPlan
       ELSE RemainderPlan(view.price, sent[mem.first]) # NoPlan
SusdfrOffers(step) ==
    /\ mem[step] = 0
    /\ IF step = "first" THEN view.price = 0
       ELSE mem.first # 0 /\ WallPlan(view.price, sent[mem.first]) # NoPlan
PairOffers == mem.first = 0 /\ view.price = 0
Offers(step) == CASE panel = "usdfr" -> UsdfrOffers(step) [] panel = "susdfr" -> SusdfrOffers(step)
                  [] panel = "v2" -> PairOffers

Press(j, step) ==
    /\ Ready /\ view.approved /\ Offers(step) /\ NextPlace(j)
    /\ Goes(j, [NoJob EXCEPT !.pc = "reading", !.step = step, !.base = mem.first], "working")
    /\ UNCHANGED <<panel, connected, mem, stored, view, loading, pool, sent, mishaps>>

(* ----------------------------- executePlan ----------------------------- *)

JobEnds(j) == jobs' = [jobs EXCEPT ![j] = NoJob] /\ Shows("rest")
To(j, pc) == Goes(j, [jobs[j] EXCEPT !.pc = pc], "working")

JobFails(j) ==
    /\ jobs[j].pc \in {"reading", "permits", "signing", "simulating", "submitting"}
    /\ JobEnds(j) /\ LosesIf(FALSE)
    /\ UNCHANGED <<panel, connected, mem, stored, view, loading, pool, sent, mishaps>>

\* The plan of a step at a price; the second builds on the confirmed first.
PlanAt(job, price) ==
    CASE panel = "usdfr" -> IF job.step = "first" THEN PilotPlan(price)
                            ELSE RemainderPlan(price, sent[job.base])
      [] panel = "susdfr" -> IF job.step = "first" THEN SeedPlan(price)
                             ELSE WallPlan(price, sent[job.base])
      [] panel = "v2" -> IF price = 0 THEN PairPlan(V2Usdc, V2UsdfrValue) ELSE NoPlan

\* A block may pass between the price and the rest of a pool's snapshot.
ReadPrice(j) ==
    /\ jobs[j].pc = "reading" /\ panel # "v2"
    /\ jobs' = [jobs EXCEPT ![j].price = pool.price, ![j].pc = "permits"]
    /\ UNCHANGED <<panel, connected, mem, stored, view, loading, shown, pool, sent, lost, mishaps>>

\* buildPermitBatchMessage: the maxima of the plan, at the nonces read, for thirty minutes.
Permit(plan, nonce) == [usdc |-> plan.maxUsdc, other |-> plan.maxOther, nonce |-> nonce]
\* assertPlan, before the message and the call of a seed or a wall.
AssertPlan(job, plan) ==
    /\ plan.liquidity > 0
    /\ IF job.step = "first" THEN plan.maxUsdc = PilotCap ELSE plan.maxOther = 0

\* What a transaction asks of the chain.
EncodeUsdfr(plan, permit) ==
    [opens |-> FALSE, lower |-> Lower, upper |-> Upper, liquidity |-> plan.liquidity] @@ permit
EncodeSusdfr(job, plan, permit) ==
    IF job.step = "first" THEN [opens |-> TRUE, lower |-> Lower, upper |-> Upper, liquidity |-> plan.liquidity] @@ permit
    ELSE [opens |-> FALSE, lower |-> WallLower, upper |-> WallUpper, liquidity |-> plan.liquidity] @@ permit
EncodePair(plan) ==
    [opens |-> TRUE, lower |-> 0, upper |-> 0, liquidity |-> plan.liquidity, usdc |-> plan.maxUsdc,
     other |-> plan.maxOther, nonce |-> 0]
Encode(job, plan) ==
    CASE panel = "usdfr" -> EncodeUsdfr(plan, Permit(plan, pool.nonce))
      [] panel = "susdfr" -> EncodeSusdfr(job, plan, Permit(plan, pool.nonce))
      [] panel = "v2" -> EncodePair(plan)

Planned(j, plan) ==
    IF plan # NoPlan /\ (panel = "susdfr" => AssertPlan(jobs[j], plan)) /\ pool.approved
    THEN Goes(j, [jobs[j] EXCEPT !.plan = plan, !.call = Encode(jobs[j], plan),
                                 !.pc = IF panel = "v2" THEN "simulating" ELSE "signing"], "working")
    ELSE Goes(j, NoJob, "rest")

ReadAndPlan(j) ==
    /\ LET price == IF panel = "v2" THEN pool.price ELSE jobs[j].price
       IN  /\ jobs[j].pc = IF panel = "v2" THEN "reading" ELSE "permits"
           /\ IF panel = "v2" THEN ReadPair ELSE ReadPool(price)
           /\ Planned(j, PlanAt(jobs[j], price))
    /\ UNCHANGED <<panel, connected, mem, stored, loading, pool, sent, mishaps>>

SignPermit(j) ==
    /\ jobs[j].pc = "signing" /\ To(j, "simulating")
    /\ UNCHANGED <<panel, connected, mem, stored, view, loading, pool, sent, mishaps>>

\* What the chain does with a call: a used nonce, an exceeded amount, an unopened pool or a
\* missing approval reverts it.
Quoted(call) ==
    IF panel = "v2" THEN [usdc |-> call.usdc, other |-> call.other]
    ELSE QuoteLiquidity(IF pool.price = 0 THEN InitialPrice ELSE pool.price, call.liquidity, call.lower, call.upper)
Mints(call) ==
    /\ pool.approved /\ (panel # "v2" => pool.nonce = call.nonce)
    /\ pool.price # 0 \/ call.opens
    /\ Quoted(call).usdc <= call.usdc /\ Quoted(call).other <= call.other

\* The simulation, and the nonces (or the pair's absence) read once more.
FreshNonces(call) == call.nonce = pool.nonce
PairAbsent == pool.price = 0
Simulate(j) ==
    /\ jobs[j].pc = "simulating"
    /\ IF Mints(jobs[j].call) /\ (IF panel = "v2" THEN PairAbsent ELSE FreshNonces(jobs[j].call))
       THEN To(j, "submitting") ELSE Goes(j, NoJob, "rest")
    /\ UNCHANGED <<panel, connected, mem, stored, view, loading, pool, sent, mishaps>>

Transaction(job) == [step |-> job.step, call |-> job.call, base |-> job.base, fate |-> "pending",
                     usdc |-> 0, other |-> 0, liquidity |-> job.plan.liquidity, opened |-> FALSE]

\* The record is written before the receipt is waited for.
Submit(j) ==
    /\ jobs[j].pc = "submitting" /\ Len(sent) < MaxSends
    /\ sent' = Append(sent, Transaction(jobs[j]))
    /\ Goes(j, [jobs[j] EXCEPT !.pc = "pending", !.tx = Len(sent) + 1], "pending")
    /\ stored' = IF Plans(jobs[j]) THEN [stored EXCEPT ![jobs[j].step] = Len(sent) + 1] ELSE stored
    /\ UNCHANGED <<panel, connected, mem, view, loading, pool, mishaps>>

\* The receipt is in and verified, though the reads after it may fail, or it is not what was
\* planned.
Confirm(j) ==
    /\ jobs[j].pc = "pending" /\ ~Unresolved(jobs[j].tx) /\ JobEnds(j)
    /\ CASE ~Plans(jobs[j]) -> Read /\ LosesIf(FALSE) /\ UNCHANGED <<mem, mishaps>>
         [] Plans(jobs[j]) /\ Verified(jobs[j].tx) ->
              /\ mem' = [mem EXCEPT ![jobs[j].step] = jobs[j].tx] /\ LosesIf(FALSE)
              /\ (Read /\ UNCHANGED mishaps) \/ (Mishap /\ UNCHANGED view)
         [] OTHER -> UNCHANGED <<mem, view, mishaps>> /\ LosesIf(sent[jobs[j].tx].fate = "ok")
    /\ UNCHANGED <<panel, connected, stored, loading, pool, sent>>

\* The wait times out, or a read of the verification fails.
GivesUp(j) ==
    /\ jobs[j].pc = "pending" /\ JobEnds(j)
    /\ Mishap /\ LosesIf(Open(jobs[j].tx))
    /\ UNCHANGED <<panel, connected, mem, stored, view, loading, pool, sent>>

(* ------------------------------ the world ------------------------------ *)

\* Transactions are mined in the order of the account's nonce, a mint before its deadline.
MineNext ==
    /\ \E k \in DOMAIN sent :
         /\ Unresolved(k) /\ \A j \in 1..(k - 1) : ~Unresolved(j)
         /\ LET tx == sent[k]
                quote == Quoted(tx.call)
            IN  \/ /\ tx.step = "approve"
                   /\ sent' = [sent EXCEPT ![k].fate = "ok"] /\ pool' = [pool EXCEPT !.approved = TRUE]
                \/ /\ tx.step # "approve" /\ Mints(tx.call)
                   /\ sent' = [sent EXCEPT ![k].fate = "ok", ![k].usdc = quote.usdc, ![k].other = quote.other,
                                           ![k].opened = (pool.price = 0)]
                   /\ pool' = [price |-> IF pool.price = 0 THEN InitialPrice ELSE pool.price,
                               nonce |-> pool.nonce + 1, approved |-> panel # "v2"]
                \/ tx.step # "approve" /\ sent' = [sent EXCEPT ![k].fate = "reverted"] /\ UNCHANGED pool
    /\ UNCHANGED <<panel, connected, mem, stored, view, loading, shown, jobs, lost, mishaps>>

\* Anyone may trade, or open the pool first.
PriceMoves ==
    /\ \E price \in Prices \ {pool.price} : pool' = [pool EXCEPT !.price = price]
    /\ Mishap
    /\ UNCHANGED <<panel, connected, mem, stored, view, loading, shown, jobs, sent, lost>>

\* The wallet leaves or returns: nothing is forgotten, and an operation goes on beside the refresh.
Reconnect ==
    /\ connected' = ~connected /\ loading' = (loading \/ connected') /\ Mishap
    /\ UNCHANGED <<panel, mem, stored, view, shown, jobs, pool, sent, lost>>

\* A reload keeps only the records; what the wallet was asked may still be sent, unrecorded.
Asked == {j \in DOMAIN jobs : jobs[j].pc = "submitting"}
Reload ==
    /\ mem' = Nothing /\ view' = NoView /\ loading' = connected
    /\ jobs' = [j \in DOMAIN jobs |-> NoJob] /\ Shows("rest")
    /\ \E confirmed \in UNION {[1..n -> Asked] : n \in 0..Cardinality(Asked)} :
         /\ \A i, k \in DOMAIN confirmed : confirmed[i] = confirmed[k] => i = k
         /\ Len(sent) + Len(confirmed) <= MaxSends
         /\ sent' = sent \o [i \in DOMAIN confirmed |-> Transaction(jobs[confirmed[i]])]
         /\ LosesIf(\/ \E i \in DOMAIN confirmed : Plans(jobs[confirmed[i]])
                    \/ \E j \in DOMAIN jobs : jobs[j].pc = "pending" /\ Open(jobs[j].tx))
    /\ Mishap
    /\ UNCHANGED <<panel, connected, stored, pool>>

LiquidityNext ==
    \/ StartRefresh \/ EndRefresh \/ RefreshFails
    \/ \E j \in DOMAIN jobs :
         \/ PressApprove(j) \/ \E step \in Steps(panel) : Press(j, step)
         \/ JobFails(j) \/ ReadPrice(j) \/ ReadAndPlan(j) \/ SignPermit(j) \/ Simulate(j)
         \/ Submit(j) \/ Confirm(j) \/ GivesUp(j)
    \/ MineNext \/ PriceMoves \/ Reconnect \/ Reload

LiquiditySpec == LiquidityInit /\ [][LiquidityNext]_liquidityVars

(* ------------------------------ properties ------------------------------ *)

Minted(step) == {k \in DOMAIN sent : sent[k].step = step /\ sent[k].fate = "ok"}
Cap == CASE panel = "usdfr" -> TargetUsdcMax [] panel = "susdfr" -> TotalUsdcCap [] panel = "v2" -> V2Usdc
Total(ks) == MapThenSumSet(LAMBDA k : sent[k].usdc, ks)

\* Whatever was lost, retried, raced or begun twice: a pair is funded again only under an exact
\* approval of its own, and a second step builds on one mined first step, the two within the
\* reviewed total (the staged plans of the panels).
ApprovedBetween(i, k) == \E a \in (i + 1)..(k - 1) : sent[a].step = "approve" /\ sent[a].fate = "ok"
StagedSteps ==
    /\ panel = "v2" => \A i, k \in Minted("first") : i < k => ApprovedBetween(i, k)
    /\ \A k \in Minted("second") :
         /\ sent[k].base \in Minted("first")
         /\ Total({k, sent[k].base}) <= Cap
         /\ panel = "usdfr" => sent[k].liquidity + sent[sent[k].base].liquidity = TargetLiquidity

\* As long as the page never gave up on a transaction, nor showed itself at rest while a step ran,
\* all that was spent is within the total.
CapKeptUnlessLost ==
    ~lost => /\ Total(Minted("first") \union Minted("second")) <= Cap
             /\ \A step \in Steps(panel) : Cardinality(Minted(step)) <= 1
=============================================================================
