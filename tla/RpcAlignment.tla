---------------------------- MODULE RpcAlignment ----------------------------
(***************************************************************************)
(* Whether the wallet's RPC and the app's show the same chain               *)
(* (frontend/src/lib/rpcAlignment.ts).  A node is what it reports: its      *)
(* chain, its newest block and the branch its blocks above Fork belong to,  *)
(* or that it does not answer.  Header and quantity formats are left out: a *)
(* malformed answer is one more way of not answering.                       *)
(***************************************************************************)
EXTENDS Integers

CONSTANTS Expected,       \* EXPECTED_CHAIN.id
          DriftLimit,     \* RPC_BLOCK_DRIFT_LIMIT
          ExactTip,       \* requireExactTip: a local fork
          Fork            \* blocks up to Fork are common to every branch

HashAt(node, block) == <<IF block <= Fork THEN "common" ELSE node.branch, block>>
Gap(m, n) == IF m > n THEN m - n ELSE n - m
Lower(m, n) == IF m < n THEN m ELSE n

SameState(app, wallet) ==
    /\ Gap(app.tip, wallet.tip) <= (IF ExactTip THEN 0 ELSE DriftLimit)
    /\ LET block == Lower(app.tip, wallet.tip) IN HashAt(app, block) = HashAt(wallet, block)

\* probeRpcAlignment, in the order it asks: only a wallet that answers with another
\* chain is told to switch; a failing side is named; then the state is compared.
ProbeRpcAlignment(app, wallet) ==
    IF ~wallet.up THEN "wallet"
    ELSE IF wallet.chain # Expected THEN "wallet-chain"
    ELSE IF ~app.up \/ app.chain # Expected THEN "app"
    ELSE IF ~SameState(app, wallet) THEN "state"
    ELSE "aligned"
=============================================================================
