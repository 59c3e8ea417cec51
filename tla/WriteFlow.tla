----------------------------- MODULE WriteFlow -----------------------------
(***************************************************************************)
(* The write path of the app (frontend/src/components/app/useWriteFlow.ts   *)
(* and the gate of AppSurface.tsx): every write goes probe, simulate, probe *)
(* again, estimate, wallet, receipt, and each await may be overtaken by an  *)
(* account switch, a change of the wallet's network, a reset, an unmount or *)
(* the user's "stop checking".  The generation counter of the hook is the   *)
(* flag `live` of the runs it invalidates.                                  *)
(***************************************************************************)
EXTENDS Integers, Sequences, FiniteSets, RpcAlignment

CONSTANTS Accounts,
          KeptOps,          \* those run with keepPendingUntilReceipt
          Nodes, AppNode,   \* what the wallet's node may report; what the app's does
          Slots, MaxTxs,    \* bounds: runs alive at once, transactions broadcast
          MaxMoves          \* bound: account and network switches, changes of governance

VARIABLES account,   \* the connected account, "none" if disconnected
          node,      \* the wallet's node
          gate,      \* AppSurface's rpcAlignment phase
          polls,     \* results of its probes still on their way
          status,    \* the hook's WriteStatus, with whose it is and its transaction
          runs,      \* [Slots -> continuation of `run`]
          txs,       \* transactions the wallet broadcast
          moves      \* switches and changes so far

flowVars == <<account, node, gate, polls, status, runs, txs, moves>>

NoOne == "none"
IdleStatus == [phase |-> "idle", by |-> NoOne, tx |-> 0, delayed |-> FALSE, stopped |-> FALSE]
NoRun == [pc |-> "none", op |-> "none", by |-> NoOne, live |-> FALSE, switched |-> FALSE, tx |-> 0]

FlowInit ==
    /\ account \in Accounts /\ node = AppNode /\ gate = "idle" /\ polls = {}
    /\ status = IdleStatus /\ runs = [i \in Slots |-> NoRun] /\ txs = <<>> /\ moves = 0

(* -------------------- AppSurface: the alignment gate -------------------- *)

RightNetwork == node.up /\ node.chain = Expected
ChainOk == account # NoOne /\ RightNetwork /\ gate = "aligned"

\* The effect runs again: earlier probes are cancelled and the gate is checked anew.
Recheck ==
    /\ polls' = IF account # NoOne /\ RightNetwork THEN {ProbeRpcAlignment(AppNode, node)} ELSE {}
    /\ gate' = IF account # NoOne /\ RightNetwork THEN "checking" ELSE "idle"
    /\ UNCHANGED <<account, node, status, runs, txs, moves>>

\* The interval probes again while an earlier probe may still be on its way.
Poll ==
    /\ account # NoOne /\ RightNetwork
    /\ polls' = polls \union {ProbeRpcAlignment(AppNode, node)}
    /\ UNCHANGED <<account, node, gate, status, runs, txs, moves>>

PollArrives ==
    /\ \E result \in polls : polls' = polls \ {result} /\ gate' = result
    /\ UNCHANGED <<account, node, status, runs, txs, moves>>

(* ------------------------------ the hook ------------------------------ *)

Busy == status.phase \in {"simulating", "signing", "pending"}

Of(r, phase) == [IdleStatus EXCEPT !.phase = phase, !.by = r.by, !.tx = r.tx]
\* What an await comes back to: the same generation, and the same connected account.
CurrentAlways(r) == r.live                                                 \* mutant
Current(r) == r.live /\ r.by = account
\* setCurrentStatus.
Say(r, s) == status' = IF Current(r) THEN s ELSE status

Step(i, r) == runs' = [runs EXCEPT ![i] = r]
Done(i) == Step(i, NoRun)
Killed(rs) == [i \in Slots |-> [rs[i] EXCEPT !.live = FALSE]]

\* run, with the account its closure was made for; whoever calls it holds its own guard.
StartFor(op, owner) ==
    /\ \E i \in Slots :
         /\ runs[i].pc = "none"
         /\ LET r == [NoRun EXCEPT !.pc = "probe", !.op = op, !.by = owner, !.live = TRUE]
            IN  runs' = [Killed(runs) EXCEPT ![i] = r] /\ Say(r, Of(r, "simulating"))
    /\ UNCHANGED <<txs, moves>>
Start(op) == account # NoOne /\ StartFor(op, account)

\* Any request before the wallet may fail, or the simulation revert.
Throws(i) ==
    /\ runs[i].pc \in {"probe", "simulate", "reprobe", "estimate"}
    /\ Say(runs[i], Of(runs[i], "error")) /\ Done(i)
    /\ UNCHANGED <<account, node, gate, polls, txs, moves>>

Aligned == ProbeRpcAlignment(AppNode, node) = "aligned"

Probe(i) ==
    /\ runs[i].pc = "probe"
    /\ IF ~Aligned THEN Say(runs[i], Of(runs[i], "error")) /\ Done(i)
       ELSE /\ IF Current(runs[i]) THEN Step(i, [runs[i] EXCEPT !.pc = "simulate"]) ELSE Done(i)
            /\ UNCHANGED status
    /\ UNCHANGED <<account, node, gate, polls, txs, moves>>

Simulate(i) ==
    /\ runs[i].pc = "simulate"
    /\ Step(i, [runs[i] EXCEPT !.pc = "reprobe"])
    /\ UNCHANGED <<account, node, gate, polls, status, txs, moves>>

Reprobe(i) ==
    /\ runs[i].pc = "reprobe"
    /\ IF ~Aligned THEN Say(runs[i], Of(runs[i], "error")) /\ Done(i)
       ELSE /\ IF Current(runs[i]) THEN Step(i, [runs[i] EXCEPT !.pc = "estimate"]) ELSE Done(i)
            /\ UNCHANGED status
    /\ UNCHANGED <<account, node, gate, polls, txs, moves>>

\* The gas is sized with headroom and the wallet opens.
Estimate(i) ==
    /\ runs[i].pc = "estimate"
    /\ IF Current(runs[i])
       THEN Step(i, [runs[i] EXCEPT !.pc = "signing"]) /\ status' = Of(runs[i], "signing")
       ELSE Done(i) /\ UNCHANGED status
    /\ UNCHANGED <<account, node, gate, polls, txs, moves>>

\* The wallet refuses, or wagmi finds it on another chain.
WalletRefuses(i) ==
    /\ runs[i].pc = "signing"
    /\ Say(runs[i], Of(runs[i], "error")) /\ Done(i)
    /\ UNCHANGED <<account, node, gate, polls, txs, moves>>

\* writeContractAsync with chainId: asserted when the wallet is asked to send.
OnExpectedChain == RightNetwork

WalletSends(i) ==
    /\ runs[i].pc = "signing" /\ OnExpectedChain /\ Len(txs) < MaxTxs
    /\ txs' = Append(txs, [op |-> runs[i].op, by |-> runs[i].by, chain |-> node.chain,
                           fate |-> "pending", forgotten |-> runs[i].switched])
    /\ LET r == [runs[i] EXCEPT !.pc = "receipt", !.tx = Len(txs) + 1]
       IN  /\ Say(r, Of(r, "pending"))
           /\ IF Current(r) THEN Step(i, r) ELSE Done(i)
    /\ UNCHANGED <<account, node, gate, polls, moves>>

\* waitForTransactionReceipt fails or times out: a kept write stays pending and is asked
\* for again until 30 minutes are over; any other write ends in an error.
KeepPending(r) == [Of(r, "pending") EXCEPT !.delayed = TRUE]

NoReceipt(i) ==
    /\ runs[i].pc = "receipt"
    /\ IF runs[i].op \notin KeptOps THEN Say(runs[i], Of(runs[i], "error")) /\ Done(i)
       ELSE \/ ~Current(runs[i]) /\ Done(i) /\ UNCHANGED status
            \/ Current(runs[i]) /\ status' = KeepPending(runs[i]) /\ UNCHANGED runs
            \/ Current(runs[i]) /\ status' = [KeepPending(runs[i]) EXCEPT !.stopped = TRUE] /\ Done(i)
    /\ UNCHANGED <<account, node, gate, polls, txs, moves>>

Receipt(i) ==
    /\ runs[i].pc = "receipt" /\ txs[runs[i].tx].fate # "pending"
    /\ IF txs[runs[i].tx].fate = "reverted" THEN Say(runs[i], Of(runs[i], "error")) /\ Done(i)
       ELSE /\ IF Current(runs[i]) THEN Step(i, [runs[i] EXCEPT !.pc = "refresh"]) ELSE Done(i)
            /\ UNCHANGED status
    /\ UNCHANGED <<account, node, gate, polls, txs, moves>>

\* Every read has been refreshed: only now is success said, and only of the call itself.
Outcome(r) == IF txs[r.tx].fate = "ok" THEN "success" ELSE "error"
Succeeds(i) == runs[i].pc = "refresh" /\ Current(runs[i]) /\ Outcome(runs[i]) = "success"
Refreshed(i) ==
    /\ runs[i].pc = "refresh"
    /\ Say(runs[i], Of(runs[i], Outcome(runs[i]))) /\ Done(i)
    /\ UNCHANGED <<account, node, gate, polls, txs, moves>>

\* The chain decides; "cancelled" and "replaced" are the wallet's own replacements.
Mine(k) ==
    /\ txs[k].fate = "pending"
    /\ \E fate \in {"ok", "reverted", "cancelled", "replaced"} : txs' = [txs EXCEPT ![k].fate = fate]
    /\ UNCHANGED <<account, node, gate, polls, status, runs, moves>>

\* reset, which never orphans a write in flight (RC-05).
ResetFlow == IF Busy THEN UNCHANGED <<runs, status>> ELSE runs' = Killed(runs) /\ status' = IdleStatus

StopWaiting ==
    /\ status.phase = "pending" /\ status.delayed /\ ~status.stopped
    /\ runs' = Killed(runs) /\ status' = [status EXCEPT !.stopped = TRUE]
    /\ UNCHANGED <<account, node, gate, polls, txs, moves>>

Move == moves < MaxMoves /\ moves' = moves + 1

\* An account switch, a disconnection or an unmount ends the session of the card.
NewSession ==
    /\ status' = IdleStatus
    /\ runs' = [i \in Slots |-> [runs[i] EXCEPT !.live = FALSE, !.switched = runs[i].pc # "none"]]
    /\ txs' = [k \in DOMAIN txs |-> [txs[k] EXCEPT !.forgotten = TRUE]]

SwitchAccount ==
    /\ \E a \in (Accounts \union {NoOne}) \ {account} : account' = a
    /\ NewSession
    /\ gate' = (IF account' = NoOne THEN "idle" ELSE "checking")
    /\ polls' = (IF account' = NoOne \/ ~RightNetwork THEN {} ELSE {ProbeRpcAlignment(AppNode, node)})
    /\ Move /\ UNCHANGED node

\* The wallet moves to another node or network; the effect only reruns when the chain changed.
SwitchNode ==
    /\ \E n \in Nodes \ {node} :
         /\ node' = n
         /\ IF n.up /\ node.up /\ n.chain = node.chain THEN UNCHANGED <<gate, polls>>
            ELSE /\ gate' = IF account # NoOne /\ n.up /\ n.chain = Expected THEN "checking" ELSE "idle"
                 /\ polls' = IF account # NoOne /\ n.up /\ n.chain = Expected
                             THEN {ProbeRpcAlignment(AppNode, n)} ELSE {}
    /\ Move /\ UNCHANGED <<account, status, runs, txs>>

\* One step of a run up to its receipt; the card adds what its refresh does.
Advance(i) ==
    \/ Throws(i) \/ Probe(i) \/ Simulate(i) \/ Reprobe(i) \/ Estimate(i)
    \/ WalletRefuses(i) \/ WalletSends(i) \/ NoReceipt(i) \/ Receipt(i)
Surface == Recheck \/ Poll \/ PollArrives \/ SwitchNode

(* ------------------------------ properties ------------------------------ *)

\* What a card says is of the account it shows, and "success" is said only of a transaction
\* of that account that was mined as sent.
StatusIsTrue ==
    /\ status.phase # "idle" => status.by = account
    /\ status.phase \in {"pending", "success"} => txs[status.tx].by = account
    /\ status.phase = "success" => txs[status.tx].fate = "ok"

\* Within one session at most one kept write is with the wallet or unresolved on chain.
OneKeptWrite ==
    LET asked == {i \in Slots : runs[i].pc = "signing" /\ ~runs[i].switched /\ runs[i].op \in KeptOps}
        sent  == {k \in DOMAIN txs : txs[k].fate = "pending" /\ ~txs[k].forgotten /\ txs[k].op \in KeptOps}
    IN  Cardinality(asked) + Cardinality(sent) <= 1
=============================================================================
