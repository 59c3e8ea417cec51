--------------------------- MODULE WriteFlowProofs ---------------------------
(***************************************************************************)
(* What every page built on useWriteFlow keeps, for any accounts, nodes,    *)
(* kept operations and number of runs alive at once: what is said is true   *)
(* of the connected account, and a write that is kept until its receipt is  *)
(* awaited alone.  A page has only to show that it starts a write when the  *)
(* flow is not busy.                                                        *)
(***************************************************************************)
EXTENDS WriteFlow, FiniteSetTheorems, TLAPS

BeforeWallet == {"probe", "simulate", "reprobe", "estimate"}
AfterWallet == {"receipt", "refresh"}

IsRun(r) ==
  /\ r = [pc |-> r.pc, op |-> r.op, by |-> r.by, live |-> r.live, switched |-> r.switched, tx |-> r.tx]
  /\ r.pc \in BeforeWallet \union AfterWallet \union {"signing", "none"}
  /\ r.live \in BOOLEAN /\ r.switched \in BOOLEAN
IsStatus(s) == s = [phase |-> s.phase, by |-> s.by, tx |-> s.tx, delayed |-> s.delayed, stopped |-> s.stopped]
IsTx(t) ==
  /\ t = [op |-> t.op, by |-> t.by, chain |-> t.chain, fate |-> t.fate, forgotten |-> t.forgotten]
  /\ t.forgotten \in BOOLEAN

Shapes ==
  /\ runs = [i \in Slots |-> runs[i]] /\ \A i \in Slots : IsRun(runs[i])
  /\ IsStatus(status)
  /\ \E S : txs \in Seq(S)
  /\ \A k \in DOMAIN txs : IsTx(txs[k])

\* the phase a live run has said, and the transaction it waits for
PhaseAt(pc) == IF pc \in BeforeWallet THEN "simulating" ELSE IF pc = "signing" THEN "signing" ELSE "pending"
Said(r) == status.phase = PhaseAt(r.pc) /\ (r.pc \in AfterWallet => status.tx = r.tx)

Alive(r) == r.live /\ r.pc # "none"

\* a live run has told the status where it is, unless it was started for an account
\* that is gone and has yet to notice
RunsTold ==
  \A i \in Slots : Alive(runs[i]) => IF runs[i].by = account THEN Said(runs[i]) ELSE runs[i].pc = "probe"
OneAlive == \A i, j \in Slots : Alive(runs[i]) /\ Alive(runs[j]) => i = j

\* a run that waits or refreshes does so for its own transaction
OwnTransaction ==
  \A i \in Slots : runs[i].pc \in AfterWallet =>
    /\ runs[i].tx \in DOMAIN txs
    /\ txs[runs[i].tx].by = runs[i].by /\ txs[runs[i].tx].op = runs[i].op
    /\ runs[i].pc = "refresh" => txs[runs[i].tx].fate # "pending"

SaidTruly ==
  /\ status.phase # "idle" => status.by = account
  /\ status.phase \in {"pending", "success"} => status.tx \in DOMAIN txs /\ txs[status.tx].by = account
  /\ status.phase = "success" => txs[status.tx].fate = "ok"

\* whoever asks the wallet in this session is alive
AskedAlive == \A i \in Slots : runs[i].pc = "signing" /\ ~runs[i].switched => runs[i].live

\* a kept write of this session is what the status waits for
Open(k) == txs[k].fate = "pending" /\ ~txs[k].forgotten /\ txs[k].op \in KeptOps
KeptAwaited == \A k \in DOMAIN txs : Open(k) => status.phase = "pending" /\ status.tx = k

FlowInv == Shapes /\ RunsTold /\ OneAlive /\ OwnTransaction /\ SaidTruly /\ AskedAlive /\ KeptAwaited

----------------------------------------------------------------------------
(* What the invariant says of a page *)

\* the flow starts with nothing to tell
LEMMA FlowStarts == FlowInit => FlowInv
<1> SUFFICES ASSUME FlowInit PROVE FlowInv
  OBVIOUS
<1>1. status = IdleStatus /\ runs = [i \in Slots |-> NoRun] /\ txs = <<>>
  BY DEF FlowInit
<1>2. \A i \in Slots : runs[i] = NoRun
  BY <1>1
<1>3. DOMAIN txs = {} /\ txs \in Seq({})
  BY <1>1
<1>4. IsRun(NoRun) /\ IsStatus(IdleStatus) /\ NoRun.pc = "none" /\ IdleStatus.phase = "idle"
  BY DEF IsRun, IsStatus, NoRun, IdleStatus, BeforeWallet, AfterWallet
<1>5. Shapes
  BY <1>1, <1>2, <1>3, <1>4 DEF Shapes
<1> QED
  BY <1>1, <1>2, <1>3, <1>4, <1>5
     DEF FlowInv, RunsTold, OneAlive, OwnTransaction, SaidTruly, AskedAlive, KeptAwaited, Alive, AfterWallet

\* What a card says is of the account it shows, and success is said only of a transaction of that
\* account that was mined as sent (setCurrentStatus of useWriteFlow.ts).
THEOREM FlowSaysTheTruth == FlowInv => StatusIsTrue
BY DEF FlowInv, SaidTruly, StatusIsTrue

\* Within one session one kept write at most is with the wallet or unresolved on chain
\* (keepPendingUntilReceipt of useWriteFlow.ts).
THEOREM FlowKeepsOne == FlowInv => OneKeptWrite
<1> SUFFICES ASSUME FlowInv PROVE OneKeptWrite
  OBVIOUS
<1> DEFINE asked == {i \in Slots : runs[i].pc = "signing" /\ ~runs[i].switched /\ runs[i].op \in KeptOps}
           sent == {k \in DOMAIN txs : txs[k].fate = "pending" /\ ~txs[k].forgotten /\ txs[k].op \in KeptOps}
<1>1. ASSUME NEW i \in asked, NEW j \in asked PROVE i = j
  BY DEF FlowInv, AskedAlive, OneAlive, Alive
<1>2. ASSUME NEW k \in sent PROVE status.phase = "pending" /\ status.tx = k
  BY DEF FlowInv, KeptAwaited, Open
<1>3. ASSUME NEW i \in asked PROVE runs[i].by = account /\ status.phase = "signing"
  BY DEF FlowInv, AskedAlive, RunsTold, Alive, Said, PhaseAt, BeforeWallet
<1>4. asked = {} \/ sent = {}
  BY <1>2, <1>3
<1> HIDE DEF asked, sent
<1>5. asked = {} \/ \E i : asked = {i}
  BY <1>1
<1>6. sent = {} \/ \E k : sent = {k}
  BY <1>2
<1>7. Cardinality(asked) + Cardinality(sent) <= 1
  <2>1. Cardinality({}) = 0 /\ \A x : Cardinality({x}) = 1
    BY FS_EmptySet, FS_Singleton
  <2>2. Cardinality(asked) \in {0, 1} /\ Cardinality(sent) \in {0, 1}
    BY <1>5, <1>6, <2>1
  <2> QED
    BY <1>4, <2>1, <2>2
<1> QED
  BY <1>7 DEF OneKeptWrite, asked, sent

----------------------------------------------------------------------------
(* Records under EXCEPT *)

KilledRun(r) == [r EXCEPT !.live = FALSE]
LeftRun(r, s) == [r EXCEPT !.live = FALSE, !.switched = s]
SentRun(r, n) == [r EXCEPT !.pc = "receipt", !.tx = n]
Forgotten(t) == [t EXCEPT !.forgotten = TRUE]

\* a run that is superseded, or stopped
LEMMA RunKilled ==
  ASSUME NEW r, IsRun(r)
  PROVE  /\ IsRun(KilledRun(r)) /\ KilledRun(r).live = FALSE /\ KilledRun(r).pc = r.pc
         /\ KilledRun(r).op = r.op /\ KilledRun(r).by = r.by /\ KilledRun(r).tx = r.tx
         /\ KilledRun(r).switched = r.switched
<1>1. PICK q : q = [r EXCEPT !.live = FALSE]
  OBVIOUS
<1>2. q = [pc |-> r.pc, op |-> r.op, by |-> r.by, live |-> FALSE, switched |-> r.switched, tx |-> r.tx]
  BY <1>1 DEF IsRun
<1> QED
  BY <1>1, <1>2 DEF IsRun, KilledRun

\* a run whose account was switched away from
LEMMA RunLeft ==
  ASSUME NEW r, IsRun(r), NEW s \in BOOLEAN
  PROVE  /\ IsRun(LeftRun(r, s)) /\ LeftRun(r, s).live = FALSE /\ LeftRun(r, s).pc = r.pc
         /\ LeftRun(r, s).op = r.op /\ LeftRun(r, s).by = r.by /\ LeftRun(r, s).tx = r.tx
         /\ LeftRun(r, s).switched = s
<1>1. PICK q : q = [r EXCEPT !.live = FALSE, !.switched = s]
  OBVIOUS
<1>2. q = [pc |-> r.pc, op |-> r.op, by |-> r.by, live |-> FALSE, switched |-> s, tx |-> r.tx]
  BY <1>1 DEF IsRun
<1> QED
  BY <1>1, <1>2 DEF IsRun, LeftRun

\* a run whose transaction is on its way
LEMMA RunSent ==
  ASSUME NEW r, IsRun(r), NEW n
  PROVE  /\ SentRun(r, n).pc = "receipt" /\ SentRun(r, n).op = r.op /\ SentRun(r, n).by = r.by
         /\ SentRun(r, n).live = r.live /\ SentRun(r, n).switched = r.switched /\ SentRun(r, n).tx = n
         /\ IsRun(SentRun(r, n))
<1>1. PICK q : q = [r EXCEPT !.pc = "receipt", !.tx = n]
  OBVIOUS
<1>2. q = [pc |-> "receipt", op |-> r.op, by |-> r.by, live |-> r.live, switched |-> r.switched, tx |-> n]
  BY <1>1 DEF IsRun
<1> QED
  BY <1>1, <1>2 DEF IsRun, SentRun, AfterWallet

\* a transaction of an earlier session
LEMMA TxForgotten ==
  ASSUME NEW t, IsTx(t)
  PROVE  /\ IsTx(Forgotten(t)) /\ Forgotten(t).forgotten = TRUE /\ Forgotten(t).op = t.op
         /\ Forgotten(t).by = t.by /\ Forgotten(t).fate = t.fate
<1>1. PICK q : q = [t EXCEPT !.forgotten = TRUE]
  OBVIOUS
<1>2. q = [op |-> t.op, by |-> t.by, chain |-> t.chain, fate |-> t.fate, forgotten |-> TRUE]
  BY <1>1 DEF IsTx
<1> QED
  BY <1>1, <1>2 DEF IsTx, Forgotten

----------------------------------------------------------------------------
(* The steps of a run *)

\* a step that leaves the flow's account, status, runs and transactions alone
LEMMA FlowUntouched == ASSUME FlowInv, UNCHANGED <<account, status, runs, txs>> PROVE FlowInv'
BY DEF FlowInv, Shapes, RunsTold, OneAlive, OwnTransaction, SaidTruly, AskedAlive, KeptAwaited, Said, Open

\* a new run in one slot
LEMMA OneSlot ==
  ASSUME Shapes, NEW i \in Slots, NEW r, Step(i, r)
  PROVE  /\ runs' = [j \in Slots |-> runs'[j]]
         /\ runs'[i] = r
         /\ \A j \in Slots : j # i => runs'[j] = runs[j]
BY DEF Shapes, Step

\* a run ends: with nothing to say, or in an error or a success that is its own, or it stops waiting
LEMMA RunEnds ==
  ASSUME FlowInv, NEW i \in Slots, runs[i].pc # "none", Done(i), UNCHANGED <<account, txs>>,
         \/ status' = status
         \/ /\ Current(runs[i]) /\ IsStatus(status') /\ status'.by = account /\ status'.tx = runs[i].tx
            /\ \/ status'.phase = "error" /\ (runs[i].pc \in AfterWallet => ~Open(runs[i].tx))
               \/ status'.phase = "success" /\ runs[i].pc = "refresh" /\ txs[runs[i].tx].fate = "ok"
               \/ status'.phase = "pending" /\ runs[i].pc = "receipt"
  PROVE  FlowInv'
<1>0. Shapes /\ RunsTold /\ OneAlive /\ OwnTransaction /\ SaidTruly /\ AskedAlive /\ KeptAwaited
  BY DEF FlowInv
<1>1. /\ runs' = [j \in Slots |-> runs'[j]]
      /\ runs'[i] = NoRun
      /\ \A j \in Slots : j # i => runs'[j] = runs[j]
  BY <1>0, OneSlot DEF Done
<1>2. NoRun.pc = "none" /\ IsRun(NoRun)
  BY DEF NoRun, IsRun
<1>3. account' = account /\ txs' = txs
  OBVIOUS
<1>4. Shapes'
  BY <1>0, <1>1, <1>2, <1>3 DEF Shapes
<1>5. OneAlive'
  BY <1>0, <1>1, <1>2 DEF OneAlive, Alive
<1>6. RunsTold'
  <2>1. CASE status' = status
    BY <1>0, <1>1, <1>2, <1>3, <2>1 DEF RunsTold, Alive, Said
  <2>2. CASE Current(runs[i])
    <3>1. \A j \in Slots : ~Alive(runs'[j])
      BY <1>0, <1>1, <1>2, <2>2 DEF OneAlive, Alive, Current
    <3> QED
      BY <3>1 DEF RunsTold
  <2> QED
    BY <2>1, <2>2
<1>7. OwnTransaction'
  BY <1>0, <1>1, <1>2, <1>3 DEF OwnTransaction, AfterWallet
<1>8. SaidTruly'
  BY <1>0, <1>3 DEF SaidTruly, OwnTransaction, Current, AfterWallet
<1>9. AskedAlive'
  BY <1>0, <1>1, <1>2 DEF AskedAlive
<1>10. KeptAwaited'
  <2>1. CASE status' = status
    BY <1>0, <1>3, <2>1 DEF KeptAwaited, Open
  <2>2. CASE Current(runs[i])
    <3>1. status.phase = PhaseAt(runs[i].pc) /\ (runs[i].pc \in AfterWallet => status.tx = runs[i].tx)
      BY <1>0, <2>2 DEF RunsTold, Alive, Current, Said
    <3>2. ASSUME NEW k \in DOMAIN txs, Open(k)
          PROVE  k = runs[i].tx /\ runs[i].pc \in AfterWallet
      BY <1>0, <3>1, <3>2 DEF KeptAwaited, PhaseAt, Shapes, IsRun
    <3>3. runs[i].pc = "refresh" => ~Open(runs[i].tx)
      BY <1>0 DEF OwnTransaction, AfterWallet, Open
    <3> QED
      BY <1>0, <1>3, <3>2, <3>3 DEF KeptAwaited, Open
  <2> QED
    BY <2>1, <2>2
<1> QED
  BY <1>4, <1>5, <1>6, <1>7, <1>8, <1>9, <1>10 DEF FlowInv

\* a run goes on: towards the wallet, into it, or from its receipt to the reads
LEMMA RunMoves ==
  ASSUME FlowInv, NEW i \in Slots, NEW p, Step(i, [runs[i] EXCEPT !.pc = p]), UNCHANGED <<account, txs>>,
         \/ /\ runs[i].pc \in BeforeWallet /\ p \in BeforeWallet /\ status' = status
            /\ runs[i].pc = "probe" => Current(runs[i])
         \/ runs[i].pc \in BeforeWallet /\ p = "signing" /\ Current(runs[i]) /\ status' = Of(runs[i], "signing")
         \/ /\ runs[i].pc = "receipt" /\ p = "refresh" /\ status' = status /\ Current(runs[i])
            /\ txs[runs[i].tx].fate # "pending"
  PROVE  FlowInv'
<1>0. Shapes /\ RunsTold /\ OneAlive /\ OwnTransaction /\ SaidTruly /\ AskedAlive /\ KeptAwaited
  BY DEF FlowInv
<1> DEFINE r == [runs[i] EXCEPT !.pc = p]
<1>1. /\ runs' = [j \in Slots |-> runs'[j]]
      /\ runs'[i] = r
      /\ \A j \in Slots : j # i => runs'[j] = runs[j]
  BY <1>0, OneSlot
<1>2. /\ r.pc = p /\ r.op = runs[i].op /\ r.by = runs[i].by /\ r.live = runs[i].live
      /\ r.switched = runs[i].switched /\ r.tx = runs[i].tx /\ IsRun(r)
  BY <1>0 DEF Shapes, IsRun, BeforeWallet, AfterWallet
<1>3. account' = account /\ txs' = txs /\ p # "none" /\ runs[i].pc # "none"
  BY DEF BeforeWallet
<1> HIDE DEF r
<1>4. \/ status' = status
      \/ /\ status'.phase = "signing" /\ status'.by = account /\ IsStatus(status')
         /\ p = "signing" /\ runs[i].pc \in BeforeWallet /\ Current(runs[i])
  BY DEF Of, IdleStatus, IsStatus, Current
<1>5. Shapes'
  BY <1>0, <1>1, <1>2, <1>3, <1>4 DEF Shapes
<1>6. OneAlive'
  BY <1>0, <1>1, <1>2, <1>3 DEF OneAlive, Alive
<1>7. RunsTold'
  <2>1. CASE status' = status
    <3>1. Alive(runs[i]) => runs[i].by = account /\ Said(runs[i])
      BY <1>0, <1>3, <2>1 DEF RunsTold, Alive, Current
    <3>2. PhaseAt(p) = PhaseAt(runs[i].pc) \/ ~Alive(runs[i])
      BY <1>0, <1>4, <2>1, <3>1 DEF PhaseAt, BeforeWallet, AfterWallet, Alive, Said, Of, IdleStatus
    <3>3. p \in AfterWallet => runs[i].pc \in AfterWallet
      BY DEF BeforeWallet, AfterWallet
    <3>4. Alive(runs'[i]) => runs'[i].by = account' /\ Said(runs[i])' 
      BY <1>1, <1>2, <1>3, <2>1, <3>1, <3>2, <3>3 DEF Alive, Said
    <3> QED
      BY <1>0, <1>1, <1>3, <2>1, <3>4 DEF RunsTold, Alive, Said
  <2>2. CASE /\ status'.phase = "signing" /\ status'.by = account /\ IsStatus(status')
             /\ p = "signing" /\ runs[i].pc \in BeforeWallet /\ Current(runs[i])
    <3>1. \A j \in Slots : j # i => ~Alive(runs'[j])
      BY <1>0, <1>1, <1>3, <2>2 DEF OneAlive, Alive, Current
    <3>2. runs'[i].by = account' /\ runs'[i].pc = "signing"
      BY <1>1, <1>2, <1>3, <2>2 DEF Current
    <3> QED
      BY <3>1, <3>2, <2>2 DEF RunsTold, Said, PhaseAt, BeforeWallet, AfterWallet
  <2> QED
    BY <1>4, <2>1, <2>2
<1>8. OwnTransaction'
  <2>1. p \in AfterWallet => p = "refresh" /\ runs[i].pc = "receipt" /\ txs[runs[i].tx].fate # "pending"
    BY DEF BeforeWallet, AfterWallet
  <2>2. "receipt" \in AfterWallet
    BY DEF AfterWallet
  <2> QED
    BY <1>0, <1>1, <1>2, <1>3, <2>1, <2>2 DEF OwnTransaction
<1>9. SaidTruly'
  BY <1>0, <1>3, <1>4 DEF SaidTruly
<1>10. AskedAlive'
  BY <1>0, <1>1, <1>2 DEF AskedAlive, Current, BeforeWallet
<1>11. KeptAwaited'
  <2>1. CASE status' = status
    BY <1>0, <1>3, <2>1 DEF KeptAwaited, Open
  <2>2. CASE runs[i].pc \in BeforeWallet /\ Current(runs[i])
    <3>1. status.phase = "simulating"
      BY <1>0, <1>3, <2>2 DEF RunsTold, Alive, Current, Said, PhaseAt
    <3> QED
      BY <1>0, <1>3, <3>1 DEF KeptAwaited, Open
  <2> QED
    BY <1>4, <2>1, <2>2
<1> QED
  BY <1>5, <1>6, <1>7, <1>8, <1>9, <1>10, <1>11 DEF FlowInv

\* a kept write whose receipt fails is waited for again
LEMMA RunWaits ==
  ASSUME FlowInv, NEW i \in Slots, runs[i].pc = "receipt", Current(runs[i]), status' = KeepPending(runs[i]),
         UNCHANGED <<account, runs, txs>>
  PROVE  FlowInv'
<1>0. Shapes /\ RunsTold /\ OneAlive /\ OwnTransaction /\ SaidTruly /\ AskedAlive /\ KeptAwaited
  BY DEF FlowInv
<1>1. status'.phase = "pending" /\ status'.by = account /\ status'.tx = runs[i].tx /\ IsStatus(status')
  BY DEF KeepPending, Of, IdleStatus, IsStatus, Current
<1>2. status.phase = "pending" /\ status.tx = runs[i].tx
  BY <1>0 DEF RunsTold, Alive, Current, Said, PhaseAt, BeforeWallet, AfterWallet
<1>3. account' = account /\ runs' = runs /\ txs' = txs
  OBVIOUS
<1>4. Shapes' /\ OneAlive' /\ AskedAlive' /\ OwnTransaction'
  BY <1>0, <1>1, <1>3 DEF Shapes, OneAlive, AskedAlive, OwnTransaction
<1>5. RunsTold' /\ KeptAwaited'
  BY <1>0, <1>1, <1>2, <1>3 DEF RunsTold, KeptAwaited, Said, Open
<1>6. SaidTruly'
  BY <1>0, <1>1, <1>2, <1>3 DEF SaidTruly
<1> QED
  BY <1>4, <1>5, <1>6 DEF FlowInv

\* the wallet sends: a run nobody waits for any more was switched away from, and so is its transaction
LEMMA RunSends == ASSUME FlowInv, NEW i \in Slots, WalletSends(i) PROVE FlowInv'
<1>0. Shapes /\ RunsTold /\ OneAlive /\ OwnTransaction /\ SaidTruly /\ AskedAlive /\ KeptAwaited
  BY DEF FlowInv
<1> DEFINE n == Len(txs) + 1
           t == [op |-> runs[i].op, by |-> runs[i].by, chain |-> node.chain,
                 fate |-> "pending", forgotten |-> runs[i].switched]
           r == [runs[i] EXCEPT !.pc = "receipt", !.tx = n]
<1>1. PICK S : txs \in Seq(S)
  BY <1>0 DEF Shapes
<1>2. /\ txs' = Append(txs, t) /\ account' = account /\ runs[i].pc = "signing"
      /\ Say(r, Of(r, "pending"))
      /\ IF Current(r) THEN Step(i, r) ELSE Done(i)
  BY DEF WalletSends
<1>3. /\ r.pc = "receipt" /\ r.op = runs[i].op /\ r.by = runs[i].by /\ r.live = runs[i].live
      /\ r.switched = runs[i].switched /\ r.tx = n /\ IsRun(r)
  <2>1. IsRun(runs[i])
    BY <1>0 DEF Shapes
  <2>2. r = SentRun(runs[i], n)
    BY DEF SentRun
  <2> HIDE DEF r
  <2> QED
    BY <2>1, <2>2, RunSent
<1>4. /\ t.op = runs[i].op /\ t.by = runs[i].by /\ t.fate = "pending" /\ t.forgotten = runs[i].switched /\ IsTx(t)
  BY <1>0 DEF IsTx, Shapes, IsRun
<1> HIDE DEF r, t
<1>5. /\ n \in Nat /\ DOMAIN txs' = DOMAIN txs \union {n} /\ n \notin DOMAIN txs
      /\ txs'[n] = t /\ \A k \in DOMAIN txs : txs'[k] = txs[k]
      /\ txs' \in Seq(S \union {t})
  <2>1. Len(txs) \in Nat /\ DOMAIN txs = 1..Len(txs)
    BY <1>1
  <2>2. txs \in Seq(S \union {t}) /\ t \in S \union {t}
    BY <1>1
  <2> QED
    BY <1>1, <1>2, <2>1, <2>2
<1> HIDE DEF n
<1>6. Alive(runs[i]) => runs[i].by = account /\ status.phase = "signing"
  BY <1>0, <1>2 DEF RunsTold, Said, PhaseAt, BeforeWallet
<1>7. Current(r) <=> Alive(runs[i])
  BY <1>2, <1>3, <1>6 DEF Current, Alive
<1>8. CASE Alive(runs[i])
  <2>1. /\ runs' = [j \in Slots |-> runs'[j]] /\ runs'[i] = r
        /\ \A j \in Slots : j # i => runs'[j] = runs[j]
    BY <1>0, <1>2, <1>7, <1>8, OneSlot
  <2>2. status' = Of(r, "pending")
    BY <1>2, <1>7, <1>8 DEF Say
  <2>3. status'.phase = "pending" /\ status'.by = account /\ status'.tx = n /\ IsStatus(status')
    BY <1>3, <1>6, <1>8, <2>2 DEF Of, IdleStatus, IsStatus
  <2>4. Shapes'
    BY <1>0, <1>3, <1>4, <1>5, <2>1, <2>3 DEF Shapes
  <2>5. \A j \in Slots : j # i => ~Alive(runs'[j])
    BY <1>0, <1>8, <2>1 DEF OneAlive, Alive
  <2>6. OneAlive'
    BY <2>5 DEF OneAlive, Alive
  <2>7. RunsTold'
    BY <1>2, <1>3, <1>6, <1>8, <2>1, <2>3, <2>5 DEF RunsTold, Said, PhaseAt, BeforeWallet, AfterWallet
  <2>8. OwnTransaction'
    BY <1>0, <1>3, <1>4, <1>5, <2>1 DEF OwnTransaction, AfterWallet
  <2>9. SaidTruly'
    BY <1>2, <1>4, <1>5, <1>6, <1>8, <2>3 DEF SaidTruly
  <2>10. AskedAlive'
    BY <1>0, <1>3, <2>1 DEF AskedAlive
  <2>11. KeptAwaited'
    BY <1>0, <1>5, <1>6, <1>8, <2>3 DEF KeptAwaited, Open
  <2> QED
    BY <2>4, <2>6, <2>7, <2>8, <2>9, <2>10, <2>11 DEF FlowInv
<1>9. CASE ~Alive(runs[i])
  <2>1. /\ runs' = [j \in Slots |-> runs'[j]] /\ runs'[i] = NoRun
        /\ \A j \in Slots : j # i => runs'[j] = runs[j]
    BY <1>0, <1>2, <1>7, <1>9, OneSlot DEF Done
  <2>2. status' = status /\ account' = account
    BY <1>2, <1>7, <1>9 DEF Say
  <2>3. NoRun.pc = "none" /\ IsRun(NoRun)
    BY DEF NoRun, IsRun
  <2>4. t.forgotten = TRUE
    BY <1>0, <1>2, <1>4, <1>9 DEF AskedAlive, Alive, Shapes, IsRun
  <2>5. Shapes'
    BY <1>0, <1>4, <1>5, <2>1, <2>2, <2>3 DEF Shapes
  <2>6. OneAlive' /\ RunsTold' /\ AskedAlive'
    BY <1>0, <2>1, <2>2, <2>3 DEF OneAlive, RunsTold, AskedAlive, Alive, Said
  <2>7. OwnTransaction'
    BY <1>0, <1>5, <2>1, <2>3 DEF OwnTransaction, AfterWallet
  <2>8. SaidTruly'
    BY <1>0, <1>5, <2>2 DEF SaidTruly
  <2>9. KeptAwaited'
    BY <1>0, <1>5, <2>2, <2>4 DEF KeptAwaited, Open
  <2> QED
    BY <2>5, <2>6, <2>7, <2>8, <2>9 DEF FlowInv
<1> QED
  BY <1>8, <1>9

\* what killing all runs does
LEMMA KilledRuns ==
  ASSUME Shapes
  PROVE  \A i \in Slots : /\ IsRun(Killed(runs)[i]) /\ Killed(runs)[i].live = FALSE
                          /\ Killed(runs)[i].pc = runs[i].pc /\ Killed(runs)[i].op = runs[i].op
                          /\ Killed(runs)[i].by = runs[i].by /\ Killed(runs)[i].tx = runs[i].tx
                          /\ Killed(runs)[i].switched = runs[i].switched
<1> SUFFICES ASSUME NEW i \in Slots
             PROVE  /\ IsRun(Killed(runs)[i]) /\ Killed(runs)[i].live = FALSE
                    /\ Killed(runs)[i].pc = runs[i].pc /\ Killed(runs)[i].op = runs[i].op
                    /\ Killed(runs)[i].by = runs[i].by /\ Killed(runs)[i].tx = runs[i].tx
                    /\ Killed(runs)[i].switched = runs[i].switched
  OBVIOUS
<1>1. Killed(runs)[i] = KilledRun(runs[i])
  BY DEF Killed, KilledRun
<1>2. IsRun(runs[i]) /\ runs[i].switched \in BOOLEAN
  BY DEF Shapes, IsRun
<1>3. PICK r : r = runs[i]
  OBVIOUS
<1>4. /\ IsRun(KilledRun(r)) /\ KilledRun(r).live = FALSE /\ KilledRun(r).pc = r.pc
      /\ KilledRun(r).op = r.op /\ KilledRun(r).by = r.by /\ KilledRun(r).tx = r.tx
      /\ KilledRun(r).switched = r.switched
  BY <1>2, <1>3, RunKilled
<1> QED
  BY <1>1, <1>3, <1>4

\* a flow that is not busy has nobody at the wallet and nothing kept in flight
LEMMA NotBusy ==
  ASSUME FlowInv, ~Busy
  PROVE  /\ \A i \in Slots : runs[i].pc = "signing" => runs[i].switched
         /\ \A k \in DOMAIN txs : ~Open(k)
<1>1. ASSUME NEW i \in Slots, runs[i].pc = "signing", ~runs[i].switched PROVE FALSE
  BY <1>1 DEF FlowInv, AskedAlive, RunsTold, Alive, Said, PhaseAt, BeforeWallet, Busy
<1>2. \A k \in DOMAIN txs : ~Open(k)
  BY DEF FlowInv, KeptAwaited, Busy
<1> QED
  BY <1>1, <1>2

\* a write starts when the flow is not busy, and supersedes the run before it
LEMMA RunStarts == ASSUME FlowInv, ~Busy, NEW op, NEW owner, StartFor(op, owner), UNCHANGED account PROVE FlowInv'
<1>0. Shapes /\ RunsTold /\ OneAlive /\ OwnTransaction /\ SaidTruly /\ AskedAlive /\ KeptAwaited
  BY DEF FlowInv
<1> DEFINE r == [NoRun EXCEPT !.pc = "probe", !.op = op, !.by = owner, !.live = TRUE]
<1>1. PICK i \in Slots : runs[i].pc = "none" /\ runs' = [Killed(runs) EXCEPT ![i] = r] /\ Say(r, Of(r, "simulating"))
  BY DEF StartFor
<1>2. txs' = txs /\ account' = account
  BY DEF StartFor
<1>3. r.pc = "probe" /\ r.op = op /\ r.by = owner /\ r.live = TRUE /\ r.switched = FALSE /\ IsRun(r)
  <2>1. PICK q : q = [NoRun EXCEPT !.pc = "probe", !.op = op, !.by = owner, !.live = TRUE]
    OBVIOUS
  <2>2. q = [pc |-> "probe", op |-> op, by |-> owner, live |-> TRUE, switched |-> FALSE, tx |-> 0]
    BY <2>1 DEF NoRun
  <2>3. r = q
    BY <2>1
  <2> HIDE DEF r
  <2> QED
    BY <2>2, <2>3 DEF IsRun, BeforeWallet
<1> HIDE DEF r
<1>4. /\ runs' = [j \in Slots |-> runs'[j]] /\ runs'[i] = r
      /\ \A j \in Slots : j # i => runs'[j] = Killed(runs)[j]
  <2>1. Killed(runs) = [j \in Slots |-> Killed(runs)[j]]
    BY DEF Killed
  <2> QED
    BY <1>1, <2>1
<1>5. \A j \in Slots : /\ IsRun(runs'[j])
                       /\ j # i => /\ runs'[j].live = FALSE /\ runs'[j].pc = runs[j].pc /\ runs'[j].op = runs[j].op
                                   /\ runs'[j].by = runs[j].by /\ runs'[j].tx = runs[j].tx
                                   /\ runs'[j].switched = runs[j].switched
  <2>1. \A j \in Slots : /\ IsRun(Killed(runs)[j]) /\ Killed(runs)[j].live = FALSE
                          /\ Killed(runs)[j].pc = runs[j].pc /\ Killed(runs)[j].op = runs[j].op
                          /\ Killed(runs)[j].by = runs[j].by /\ Killed(runs)[j].tx = runs[j].tx
                          /\ Killed(runs)[j].switched = runs[j].switched
    BY <1>0, KilledRuns
  <2> SUFFICES ASSUME NEW j \in Slots
               PROVE  /\ IsRun(runs'[j])
                      /\ j # i => /\ runs'[j].live = FALSE /\ runs'[j].pc = runs[j].pc /\ runs'[j].op = runs[j].op
                                  /\ runs'[j].by = runs[j].by /\ runs'[j].tx = runs[j].tx
                                  /\ runs'[j].switched = runs[j].switched
    OBVIOUS
  <2>2. CASE j = i
    BY <1>3, <1>4, <2>2
  <2>3. CASE j # i
    <3>1. runs'[j] = Killed(runs)[j]
      BY <1>4, <2>3
    <3> QED
      BY <2>1, <2>3, <3>1
  <2> QED
    BY <2>2, <2>3
<1>6. Current(r) <=> owner = account
  BY <1>3 DEF Current
<1>7. \/ owner # account /\ status' = status
      \/ owner = account /\ status'.phase = "simulating" /\ status'.by = account /\ IsStatus(status')
  BY <1>1, <1>3, <1>6 DEF Say, Of, IdleStatus, IsStatus
<1>8. Shapes'
  BY <1>0, <1>2, <1>4, <1>5, <1>7 DEF Shapes
<1>9. OneAlive'
  BY <1>5 DEF OneAlive, Alive
<1>10. RunsTold'
  BY <1>2, <1>3, <1>4, <1>5, <1>7 DEF RunsTold, Alive, Said, PhaseAt, BeforeWallet, AfterWallet
<1>11. OwnTransaction'
  BY <1>0, <1>2, <1>3, <1>4, <1>5 DEF OwnTransaction, AfterWallet
<1>12. SaidTruly'
  BY <1>0, <1>2, <1>7 DEF SaidTruly
<1>13. AskedAlive'
  BY <1>3, <1>4, <1>5, NotBusy DEF AskedAlive
<1>14. KeptAwaited'
  BY <1>2, NotBusy DEF KeptAwaited, Open
<1> QED
  BY <1>8, <1>9, <1>10, <1>11, <1>12, <1>13, <1>14 DEF FlowInv

\* a flow that is not busy may be reset; one that is busy is left alone
LEMMA FlowResets == ASSUME FlowInv, ResetFlow, UNCHANGED <<account, txs>> PROVE FlowInv'
<1>0. Shapes /\ RunsTold /\ OneAlive /\ OwnTransaction /\ SaidTruly /\ AskedAlive /\ KeptAwaited
  BY DEF FlowInv
<1>1. CASE Busy
  BY <1>1, FlowUntouched DEF ResetFlow
<1>2. CASE ~Busy
  <2>1. runs' = Killed(runs) /\ status' = IdleStatus /\ txs' = txs /\ account' = account
    BY <1>2 DEF ResetFlow
  <2>2. runs' = [j \in Slots |-> runs'[j]]
    BY <2>1 DEF Killed
  <2>3. status'.phase = "idle" /\ IsStatus(status')
    BY <2>1 DEF IdleStatus, IsStatus
  <2>4. Shapes'
    BY <1>0, <2>1, <2>2, <2>3, KilledRuns DEF Shapes
  <2>5. OneAlive' /\ RunsTold' /\ OwnTransaction'
    BY <1>0, <2>1, KilledRuns DEF OneAlive, RunsTold, OwnTransaction, Alive
  <2>6. SaidTruly'
    BY <2>3 DEF SaidTruly
  <2>7. AskedAlive' /\ KeptAwaited'
    BY <1>0, <1>2, <2>1, NotBusy, KilledRuns DEF AskedAlive, KeptAwaited, Open
  <2> QED
    BY <2>4, <2>5, <2>6, <2>7 DEF FlowInv
<1> QED
  BY <1>1, <1>2

\* a user who stops waiting keeps the transaction on screen, and the flow busy
LEMMA FlowStops == ASSUME FlowInv, StopWaiting PROVE FlowInv'
<1>0. Shapes /\ RunsTold /\ OneAlive /\ OwnTransaction /\ SaidTruly /\ AskedAlive /\ KeptAwaited
  BY DEF FlowInv
<1>1. /\ runs' = Killed(runs) /\ status' = [status EXCEPT !.stopped = TRUE] /\ txs' = txs /\ account' = account
      /\ status.phase = "pending"
  BY DEF StopWaiting
<1>2. runs' = [j \in Slots |-> runs'[j]]
  BY <1>1 DEF Killed
<1>3. status'.phase = "pending" /\ status'.by = status.by /\ status'.tx = status.tx /\ IsStatus(status')
  BY <1>0, <1>1 DEF Shapes, IsStatus
<1>4. Shapes'
  BY <1>0, <1>1, <1>2, <1>3, KilledRuns DEF Shapes
<1>5. OneAlive' /\ RunsTold' /\ OwnTransaction'
  BY <1>0, <1>1, KilledRuns DEF OneAlive, RunsTold, OwnTransaction, Alive
<1>6. SaidTruly' /\ KeptAwaited'
  BY <1>0, <1>1, <1>3 DEF SaidTruly, KeptAwaited, Open
<1>7. AskedAlive'
  <2>1. \A i \in Slots : runs[i].pc = "signing" => runs[i].switched
    BY <1>0, <1>1 DEF AskedAlive, RunsTold, Alive, Said, PhaseAt, BeforeWallet
  <2> QED
    BY <1>0, <1>1, <2>1, KilledRuns DEF AskedAlive
<1> QED
  BY <1>4, <1>5, <1>6, <1>7 DEF FlowInv

\* another account, or none: nothing of the old session is alive, and its writes are forgotten
LEMMA FlowSwitches == ASSUME FlowInv, SwitchAccount PROVE FlowInv'
<1>0. Shapes /\ RunsTold /\ OneAlive /\ OwnTransaction /\ SaidTruly /\ AskedAlive /\ KeptAwaited
  BY DEF FlowInv
<1>1. /\ status' = IdleStatus
      /\ runs' = [i \in Slots |-> [runs[i] EXCEPT !.live = FALSE, !.switched = runs[i].pc # "none"]]
      /\ txs' = [k \in DOMAIN txs |-> [txs[k] EXCEPT !.forgotten = TRUE]]
  BY DEF SwitchAccount, NewSession
<1>2. \A i \in Slots : /\ IsRun(runs'[i]) /\ runs'[i].live = FALSE
                       /\ runs'[i].pc = runs[i].pc /\ runs'[i].op = runs[i].op
                       /\ runs'[i].by = runs[i].by /\ runs'[i].tx = runs[i].tx
                       /\ runs[i].pc # "none" => runs'[i].switched
  <2> SUFFICES ASSUME NEW i \in Slots
               PROVE  /\ IsRun(runs'[i]) /\ runs'[i].live = FALSE
                      /\ runs'[i].pc = runs[i].pc /\ runs'[i].op = runs[i].op
                      /\ runs'[i].by = runs[i].by /\ runs'[i].tx = runs[i].tx
                      /\ runs[i].pc # "none" => runs'[i].switched
    OBVIOUS
  <2> DEFINE s == runs[i].pc # "none"
  <2>1. runs'[i] = LeftRun(runs[i], s)
    BY <1>1 DEF LeftRun
  <2>2. IsRun(runs[i]) /\ s \in BOOLEAN
    BY <1>0 DEF Shapes
  <2> HIDE DEF s
  <2>3. /\ IsRun(runs'[i]) /\ runs'[i].live = FALSE
        /\ runs'[i].pc = runs[i].pc /\ runs'[i].op = runs[i].op
        /\ runs'[i].by = runs[i].by /\ runs'[i].tx = runs[i].tx /\ runs'[i].switched = s
    <3>1. PICK r : r = runs[i]
      OBVIOUS
    <3>2. /\ IsRun(LeftRun(r, s)) /\ LeftRun(r, s).live = FALSE /\ LeftRun(r, s).pc = r.pc
          /\ LeftRun(r, s).op = r.op /\ LeftRun(r, s).by = r.by /\ LeftRun(r, s).tx = r.tx
          /\ LeftRun(r, s).switched = s
      BY <2>2, <3>1, RunLeft
    <3> QED
      BY <2>1, <3>1, <3>2
  <2> QED
    BY <2>3 DEF s
<1>3. \A k \in DOMAIN txs : /\ IsTx(txs'[k]) /\ txs'[k].forgotten = TRUE
                            /\ txs'[k].op = txs[k].op /\ txs'[k].by = txs[k].by /\ txs'[k].fate = txs[k].fate
  <2> SUFFICES ASSUME NEW k \in DOMAIN txs
               PROVE  /\ IsTx(txs'[k]) /\ txs'[k].forgotten = TRUE
                      /\ txs'[k].op = txs[k].op /\ txs'[k].by = txs[k].by /\ txs'[k].fate = txs[k].fate
    OBVIOUS
  <2>1. txs'[k] = Forgotten(txs[k])
    BY <1>1 DEF Forgotten
  <2>2. IsTx(txs[k])
    BY <1>0 DEF Shapes
  <2> QED
    BY <2>1, <2>2, TxForgotten
<1>4. DOMAIN txs' = DOMAIN txs /\ \E S : txs' \in Seq(S)
  <2>1. PICK S : txs \in Seq(S)
    BY <1>0 DEF Shapes
  <2> DEFINE T == {txs'[k] : k \in DOMAIN txs}
  <2>2. Len(txs) \in Nat /\ DOMAIN txs = 1..Len(txs)
    BY <2>1
  <2>3. DOMAIN txs' = 1..Len(txs) /\ txs' = [k \in 1..Len(txs) |-> txs'[k]]
    <3> DEFINE F(k) == [txs[k] EXCEPT !.forgotten = TRUE]
    <3>1. txs' = [k \in 1..Len(txs) |-> F(k)]
      BY <1>1, <2>2
    <3> HIDE DEF F
    <3> QED
      BY <3>1
  <2>4. \A k \in 1..Len(txs) : txs'[k] \in T
    BY <2>2
  <2> HIDE DEF T
  <2>5. txs' \in Seq(T)
    BY <2>2, <2>3, <2>4
  <2> QED
    BY <2>2, <2>3, <2>5
<1>5. status'.phase = "idle" /\ IsStatus(status')
  BY <1>1 DEF IdleStatus, IsStatus
<1>6. Shapes'
  BY <1>1, <1>2, <1>3, <1>4, <1>5 DEF Shapes
<1>7. OneAlive' /\ RunsTold' /\ AskedAlive'
  BY <1>2 DEF OneAlive, RunsTold, AskedAlive, Alive
<1>8. OwnTransaction'
  BY <1>0, <1>2, <1>3, <1>4 DEF OwnTransaction
<1>9. SaidTruly' /\ KeptAwaited'
  BY <1>3, <1>4, <1>5 DEF SaidTruly, KeptAwaited, Open
<1> QED
  BY <1>6, <1>7, <1>8, <1>9 DEF FlowInv

\* the chain decides on a transaction that was pending
LEMMA FlowMines == ASSUME FlowInv, NEW k \in DOMAIN txs, Mine(k) PROVE FlowInv'
<1>0. Shapes /\ RunsTold /\ OneAlive /\ OwnTransaction /\ SaidTruly /\ AskedAlive /\ KeptAwaited
  BY DEF FlowInv
<1>1. PICK fate \in {"ok", "reverted", "cancelled", "replaced"} : txs' = [txs EXCEPT ![k].fate = fate]
  BY DEF Mine
<1>2. txs[k].fate = "pending" /\ account' = account /\ status' = status /\ runs' = runs
  BY DEF Mine
<1>3. PICK S : txs \in Seq(S)
  BY <1>0 DEF Shapes
<1> DEFINE t == [txs[k] EXCEPT !.fate = fate]
<1>4. IsTx(t) /\ t.op = txs[k].op /\ t.by = txs[k].by /\ t.fate = fate /\ t.forgotten = txs[k].forgotten
  BY <1>0 DEF Shapes, IsTx
<1>5. /\ DOMAIN txs' = DOMAIN txs /\ txs'[k] = t /\ \A j \in DOMAIN txs : j # k => txs'[j] = txs[j]
  BY <1>1, <1>3
<1>6. txs' \in Seq(S \union {t})
  <2>1. txs \in Seq(S \union {t}) /\ t \in S \union {t}
    BY <1>3
  <2>2. txs' = [txs EXCEPT ![k] = t]
    BY <1>1
  <2> HIDE DEF t
  <2> QED
    BY <2>1, <2>2
<1> HIDE DEF t
<1>7. Shapes'
  BY <1>0, <1>2, <1>4, <1>5, <1>6 DEF Shapes
<1>8. OneAlive' /\ RunsTold' /\ AskedAlive'
  BY <1>0, <1>2 DEF OneAlive, RunsTold, AskedAlive, Said
<1>9. OwnTransaction'
  BY <1>0, <1>1, <1>2, <1>4, <1>5 DEF OwnTransaction
<1>10. SaidTruly'
  BY <1>0, <1>2, <1>4, <1>5 DEF SaidTruly
<1>11. KeptAwaited'
  BY <1>0, <1>2, <1>4, <1>5 DEF KeptAwaited, Open
<1> QED
  BY <1>7, <1>8, <1>9, <1>10, <1>11 DEF FlowInv

----------------------------------------------------------------------------
(* What a page may do with the flow *)

\* a run up to its receipt
LEMMA FlowAdvances == ASSUME FlowInv, NEW i \in Slots, Advance(i) PROVE FlowInv'
<1>0. Shapes /\ RunsTold /\ OwnTransaction /\ KeptAwaited
  BY DEF FlowInv
<1>1. \A p : IsStatus(Of(runs[i], p)) /\ Of(runs[i], p).phase = p /\ Of(runs[i], p).tx = runs[i].tx
  <2> SUFFICES ASSUME NEW p
               PROVE  IsStatus(Of(runs[i], p)) /\ Of(runs[i], p).phase = p /\ Of(runs[i], p).tx = runs[i].tx
    OBVIOUS
  <2>1. PICK q : q = [IdleStatus EXCEPT !.phase = p, !.by = runs[i].by, !.tx = runs[i].tx]
    OBVIOUS
  <2>2. q = [phase |-> p, by |-> runs[i].by, tx |-> runs[i].tx, delayed |-> FALSE, stopped |-> FALSE]
    BY <2>1 DEF IdleStatus
  <2> QED
    BY <2>1, <2>2 DEF Of, IsStatus
<1>2. ASSUME Done(i), UNCHANGED <<account, txs>>, Say(runs[i], Of(runs[i], "error")),
             runs[i].pc \in BeforeWallet \union {"signing", "receipt"},
             runs[i].pc = "receipt" /\ Current(runs[i]) => ~Open(runs[i].tx)
      PROVE  FlowInv'
  <2>1. runs[i].pc # "none" /\ "refresh" # runs[i].pc
    BY <1>2 DEF BeforeWallet
  <2>2. CASE Current(runs[i])
    <3>1. status' = Of(runs[i], "error") /\ runs[i].by = account
      BY <1>2, <2>2 DEF Say, Current
    <3>2. IsStatus(status') /\ status'.by = account /\ status'.tx = runs[i].tx /\ status'.phase = "error"
      BY <1>1, <3>1 DEF Of, IdleStatus
    <3>3. runs[i].pc \in AfterWallet => ~Open(runs[i].tx)
      BY <1>2, <2>1, <2>2 DEF AfterWallet
    <3> QED
      BY <1>2, <2>1, <2>2, <3>2, <3>3, RunEnds
  <2>3. CASE ~Current(runs[i])
    <3>1. status' = status
      BY <1>2, <2>3 DEF Say
    <3> QED
      BY <1>2, <2>1, <3>1, RunEnds
  <2> QED
    BY <2>2, <2>3
<1>3. ASSUME Done(i), UNCHANGED <<account, txs, status>>, runs[i].pc # "none" PROVE FlowInv'
  BY <1>3, RunEnds
<1>4. CASE Throws(i)
  BY <1>2, <1>4 DEF Throws, BeforeWallet
<1>5. CASE Probe(i)
  <2>1. CASE ~Aligned
    BY <1>2, <1>5, <2>1 DEF Probe, BeforeWallet
  <2>2. CASE Aligned /\ Current(runs[i])
    <3>1. Step(i, [runs[i] EXCEPT !.pc = "simulate"]) /\ UNCHANGED <<account, txs>> /\ status' = status
      BY <1>5, <2>2 DEF Probe
    <3>2. runs[i].pc \in BeforeWallet /\ "simulate" \in BeforeWallet
      BY <1>5 DEF Probe, BeforeWallet
    <3> QED
      BY <2>2, <3>1, <3>2, RunMoves
  <2>3. CASE Aligned /\ ~Current(runs[i])
    BY <1>3, <1>5, <2>3 DEF Probe
  <2> QED
    BY <2>1, <2>2, <2>3
<1>6. CASE Simulate(i)
  <2>1. Step(i, [runs[i] EXCEPT !.pc = "reprobe"]) /\ UNCHANGED <<account, txs>> /\ status' = status
    BY <1>6 DEF Simulate
  <2>2. runs[i].pc \in BeforeWallet /\ runs[i].pc # "probe" /\ "reprobe" \in BeforeWallet
    BY <1>6 DEF Simulate, BeforeWallet
  <2> QED
    BY <2>1, <2>2, RunMoves
<1>7. CASE Reprobe(i)
  <2>1. CASE ~Aligned
    BY <1>2, <1>7, <2>1 DEF Reprobe, BeforeWallet
  <2>2. CASE Aligned /\ Current(runs[i])
    <3>1. Step(i, [runs[i] EXCEPT !.pc = "estimate"]) /\ UNCHANGED <<account, txs>> /\ status' = status
      BY <1>7, <2>2 DEF Reprobe
    <3>2. runs[i].pc \in BeforeWallet /\ "estimate" \in BeforeWallet
      BY <1>7 DEF Reprobe, BeforeWallet
    <3> QED
      BY <2>2, <3>1, <3>2, RunMoves
  <2>3. CASE Aligned /\ ~Current(runs[i])
    BY <1>3, <1>7, <2>3 DEF Reprobe
  <2> QED
    BY <2>1, <2>2, <2>3
<1>8. CASE Estimate(i)
  <2>1. CASE Current(runs[i])
    <3>1. /\ Step(i, [runs[i] EXCEPT !.pc = "signing"]) /\ UNCHANGED <<account, txs>>
          /\ status' = Of(runs[i], "signing")
      BY <1>8, <2>1 DEF Estimate
    <3>2. runs[i].pc \in BeforeWallet
      BY <1>8 DEF Estimate, BeforeWallet
    <3> QED
      BY <2>1, <3>1, <3>2, RunMoves
  <2>2. CASE ~Current(runs[i])
    BY <1>3, <1>8, <2>2 DEF Estimate
  <2> QED
    BY <2>1, <2>2
<1>9. CASE WalletRefuses(i)
  BY <1>2, <1>9 DEF WalletRefuses
<1>10. CASE WalletSends(i)
  BY <1>10, RunSends
<1>11. CASE NoReceipt(i)
  <2>1. CASE runs[i].op \notin KeptOps
    <3>1. ~Open(runs[i].tx)
      BY <1>0, <1>11, <2>1 DEF NoReceipt, OwnTransaction, AfterWallet, Open
    <3> QED
      BY <1>2, <1>11, <2>1, <3>1 DEF NoReceipt
  <2>2. CASE ~Current(runs[i]) /\ Done(i) /\ UNCHANGED status
    BY <1>3, <1>11, <2>2 DEF NoReceipt
  <2>3. CASE Current(runs[i]) /\ status' = KeepPending(runs[i]) /\ UNCHANGED runs
    BY <1>11, <2>3, RunWaits DEF NoReceipt
  <2>4. CASE Current(runs[i]) /\ status' = [KeepPending(runs[i]) EXCEPT !.stopped = TRUE] /\ Done(i)
    <3>1. /\ IsStatus(status') /\ status'.by = account /\ status'.tx = runs[i].tx
          /\ status'.phase = "pending"
      BY <2>4 DEF KeepPending, Of, IdleStatus, IsStatus, Current
    <3>2. runs[i].pc = "receipt" /\ UNCHANGED <<account, txs>>
      BY <1>11 DEF NoReceipt
    <3> QED
      BY <2>4, <3>1, <3>2, RunEnds
  <2> QED
    BY <1>11, <2>1, <2>2, <2>3, <2>4 DEF NoReceipt
<1>12. CASE Receipt(i)
  <2>1. runs[i].pc = "receipt" /\ txs[runs[i].tx].fate # "pending" /\ UNCHANGED <<account, txs>>
    BY <1>12 DEF Receipt
  <2>2. CASE txs[runs[i].tx].fate = "reverted"
    <3>1. ~Open(runs[i].tx)
      BY <2>1 DEF Open
    <3> QED
      BY <1>2, <1>12, <2>1, <2>2, <3>1 DEF Receipt
  <2>3. CASE txs[runs[i].tx].fate # "reverted" /\ Current(runs[i])
    <3>1. Step(i, [runs[i] EXCEPT !.pc = "refresh"]) /\ status' = status
      BY <1>12, <2>3 DEF Receipt
    <3> QED
      BY <2>1, <2>3, <3>1, RunMoves
  <2>4. CASE txs[runs[i].tx].fate # "reverted" /\ ~Current(runs[i])
    BY <1>3, <1>12, <2>1, <2>4 DEF Receipt
  <2> QED
    BY <2>2, <2>3, <2>4
<1> QED
  BY <1>4, <1>5, <1>6, <1>7, <1>8, <1>9, <1>10, <1>11, <1>12 DEF Advance

\* a run whose reads are fresh says how its transaction ended
LEMMA FlowRefreshes == ASSUME FlowInv, NEW i \in Slots, Refreshed(i) PROVE FlowInv'
<1>1. /\ runs[i].pc = "refresh" /\ Done(i) /\ UNCHANGED <<account, txs>>
      /\ Say(runs[i], Of(runs[i], Outcome(runs[i])))
  BY DEF Refreshed
<1>2. CASE ~Current(runs[i])
  BY <1>1, <1>2, RunEnds DEF Say
<1>3. CASE Current(runs[i])
  <2>1. status' = Of(runs[i], Outcome(runs[i])) /\ runs[i].by = account
    BY <1>1, <1>3 DEF Say, Current
  <2>2. /\ IsStatus(status') /\ status'.by = account /\ status'.tx = runs[i].tx
        /\ status'.phase = Outcome(runs[i])
    BY <2>1 DEF Of, IdleStatus, IsStatus
  <2>3. ~Open(runs[i].tx)
    BY <1>1 DEF FlowInv, OwnTransaction, AfterWallet, Open
  <2>4. \/ Outcome(runs[i]) = "success" /\ txs[runs[i].tx].fate = "ok"
        \/ Outcome(runs[i]) = "error"
    BY DEF Outcome
  <2> QED
    BY <1>1, <1>3, <2>2, <2>3, <2>4, RunEnds
<1> QED
  BY <1>2, <1>3

\* Whatever a page does with its flow, it goes on with it or starts a write.
FlowGoesOn ==
  \/ UNCHANGED <<account, status, runs, txs>>
  \/ \E i \in Slots : Advance(i) \/ Refreshed(i)
  \/ \E k \in DOMAIN txs : Mine(k)
  \/ ResetFlow /\ UNCHANGED <<account, txs>>
  \/ StopWaiting
  \/ SwitchAccount
FlowBegins == UNCHANGED account /\ \E op, owner : StartFor(op, owner)

\* A page that starts a write only when its flow is not busy keeps the flow's invariant
\* (useWriteFlow.ts), whatever else it does.
THEOREM FlowKeeps == FlowInv /\ (FlowGoesOn \/ (FlowBegins /\ ~Busy)) => FlowInv'
<1> SUFFICES ASSUME FlowInv, FlowGoesOn \/ (FlowBegins /\ ~Busy) PROVE FlowInv'
  OBVIOUS
<1>1. CASE UNCHANGED <<account, status, runs, txs>>
  BY <1>1, FlowUntouched
<1>2. ASSUME NEW i \in Slots, Advance(i) \/ Refreshed(i) PROVE FlowInv'
  BY <1>2, FlowAdvances, FlowRefreshes
<1>3. ASSUME NEW k \in DOMAIN txs, Mine(k) PROVE FlowInv'
  BY <1>3, FlowMines
<1>4. ASSUME ~Busy, UNCHANGED account, NEW op, NEW owner, StartFor(op, owner) PROVE FlowInv'
  BY <1>4, RunStarts
<1>5. CASE ResetFlow /\ UNCHANGED <<account, txs>>
  BY <1>5, FlowResets
<1>6. CASE StopWaiting
  BY <1>6, FlowStops
<1>7. CASE SwitchAccount
  BY <1>7, FlowSwitches
<1> QED
  BY <1>1, <1>2, <1>3, <1>4, <1>5, <1>6, <1>7 DEF FlowGoesOn, FlowBegins

\* only a start makes a flow busy
LEMMA FlowQuiet == FlowInv /\ ~Busy /\ FlowGoesOn => ~Busy'
<1> SUFFICES ASSUME FlowInv, ~Busy, FlowGoesOn PROVE ~Busy'
  OBVIOUS
<1>1. \A i \in Slots : runs[i].pc # "none" => ~Current(runs[i])
  BY DEF FlowInv, RunsTold, Alive, Said, PhaseAt, Current, Busy
<1>2. ASSUME UNCHANGED status PROVE ~Busy'
  BY <1>2 DEF Busy
<1>3. ASSUME NEW i \in Slots, Advance(i) \/ Refreshed(i) PROVE UNCHANGED status
  <2>1. runs[i].pc # "none"
    BY <1>3 DEF Advance, Throws, Probe, Simulate, Reprobe, Estimate, WalletRefuses, WalletSends,
                NoReceipt, Receipt, Refreshed
  <2>2. ~Current(runs[i])
    BY <1>1, <2>1
  <2>3. CASE WalletSends(i)
    <3>1. PICK r : /\ r = SentRun(runs[i], Len(txs) + 1) /\ Say(r, Of(r, "pending"))
      BY <2>3 DEF WalletSends, SentRun
    <3>2. IsRun(runs[i])
      BY DEF FlowInv, Shapes
    <3>3. r.live = runs[i].live /\ r.by = runs[i].by
      BY <3>1, <3>2, RunSent
    <3> QED
      BY <2>2, <3>1, <3>3 DEF Say, Current
  <2>4. CASE Throws(i) \/ Probe(i) \/ Simulate(i) \/ Reprobe(i) \/ Estimate(i)
    BY <2>2, <2>4 DEF Throws, Probe, Simulate, Reprobe, Estimate, Say
  <2>5. CASE WalletRefuses(i) \/ NoReceipt(i) \/ Receipt(i) \/ Refreshed(i)
    BY <2>2, <2>5 DEF WalletRefuses, NoReceipt, Receipt, Refreshed, Say
  <2> QED
    BY <1>3, <2>3, <2>4, <2>5 DEF Advance
<1>4. ASSUME NEW k \in DOMAIN txs, Mine(k) PROVE UNCHANGED status
  BY <1>4 DEF Mine
<1>5. CASE ResetFlow /\ UNCHANGED <<account, txs>>
  BY <1>5 DEF ResetFlow, Busy, IdleStatus
<1>6. ~StopWaiting
  BY DEF StopWaiting, Busy
<1>7. CASE SwitchAccount
  BY <1>7 DEF SwitchAccount, NewSession, Busy, IdleStatus
<1> QED
  BY <1>2, <1>3, <1>4, <1>5, <1>6, <1>7 DEF FlowGoesOn

----------------------------------------------------------------------------
(* What is in flight *)

\* one with this operation runs, or is waited for
InFlight(op) ==
  \/ \E i \in Slots : runs[i].live /\ runs[i].op = op
  \/ status.phase = "pending" /\ txs[status.tx].op = op

\* no run lives where none runs, and each is of the connected account, if the page starts it so
OwnRuns == \A i \in Slots : runs[i].live => runs[i].pc # "none" /\ runs[i].by = account

\* the record of a run that has moved on
AtPc(r, p) == [r EXCEPT !.pc = p]
LEMMA RunAtPc ==
  ASSUME NEW r, IsRun(r), NEW p
  PROVE  AtPc(r, p).pc = p /\ AtPc(r, p).op = r.op /\ AtPc(r, p).by = r.by /\ AtPc(r, p).live = r.live
<1>1. PICK q : q = [r EXCEPT !.pc = p]
  OBVIOUS
<1>2. q = [pc |-> p, op |-> r.op, by |-> r.by, live |-> r.live, switched |-> r.switched, tx |-> r.tx]
  BY <1>1 DEF IsRun
<1> QED
  BY <1>1, <1>2 DEF AtPc

\* what a step of a run does to the runs
LEMMA RunSteps ==
  ASSUME NEW i \in Slots, Advance(i) \/ Refreshed(i)
  PROVE  /\ UNCHANGED account /\ runs[i].pc # "none"
         /\ \/ UNCHANGED runs
            \/ Done(i)
            \/ \E p : p # "none" /\ Step(i, AtPc(runs[i], p))
            \/ Step(i, SentRun(runs[i], Len(txs) + 1))
<1>1. CASE Throws(i) \/ WalletRefuses(i) \/ Refreshed(i) \/ NoReceipt(i)
  BY <1>1 DEF Throws, WalletRefuses, Refreshed, NoReceipt
<1>2. CASE Probe(i) \/ Simulate(i) \/ Reprobe(i)
  BY <1>2 DEF Probe, Simulate, Reprobe, AtPc
<1>3. CASE Estimate(i) \/ Receipt(i)
  BY <1>3 DEF Estimate, Receipt, AtPc
<1>4. CASE WalletSends(i)
  BY <1>4 DEF WalletSends, SentRun
<1> QED
  BY <1>1, <1>2, <1>3, <1>4 DEF Advance

\* nothing but a start brings a run to life, or gives one another account or operation
LEMMA RunsGoOn ==
  ASSUME Shapes, FlowGoesOn, NEW j \in Slots, runs'[j].live
  PROVE  /\ account' = account /\ runs[j].live
         /\ runs'[j].op = runs[j].op /\ runs'[j].by = runs[j].by
         /\ runs[j].pc # "none" => runs'[j].pc # "none"
<1> DEFINE Goal == /\ account' = account /\ runs[j].live
                   /\ runs'[j].op = runs[j].op /\ runs'[j].by = runs[j].by
                   /\ runs[j].pc # "none" => runs'[j].pc # "none"
<1>0. IsRun(runs[j])
  BY DEF Shapes
<1>1. CASE UNCHANGED <<account, runs>>
  BY <1>1
<1>2. ASSUME NEW i \in Slots, Advance(i) \/ Refreshed(i) PROVE Goal
  <2>1. UNCHANGED account /\ runs[i].pc # "none"
    BY <1>2, RunSteps
  <2>2. ASSUME NEW r, Step(i, r), r.live => runs[i].live /\ r.op = runs[i].op /\ r.by = runs[i].by /\ r.pc # "none"
        PROVE  Goal
    <3>1. runs'[i] = r /\ (j # i => runs'[j] = runs[j])
      BY <2>2, OneSlot
    <3> QED
      BY <2>1, <2>2, <3>1
  <2>3. CASE Done(i)
    BY <2>2, <2>3 DEF Done, NoRun
  <2>4. PICK r : r = runs[i]
    OBVIOUS
  <2>5. IsRun(r)
    BY <2>4 DEF Shapes
  <2>6. ASSUME NEW p, p # "none", Step(i, AtPc(r, p)) PROVE Goal
    <3>1. AtPc(r, p).pc = p /\ AtPc(r, p).op = r.op /\ AtPc(r, p).by = r.by /\ AtPc(r, p).live = r.live
      BY <2>5, RunAtPc
    <3> QED
      BY <2>2, <2>4, <2>6, <3>1
  <2>7. CASE Step(i, SentRun(r, Len(txs) + 1))
    <3>1. /\ SentRun(r, Len(txs) + 1).pc = "receipt" /\ SentRun(r, Len(txs) + 1).op = r.op
          /\ SentRun(r, Len(txs) + 1).by = r.by /\ SentRun(r, Len(txs) + 1).live = r.live
      BY <2>5, RunSent
    <3> QED
      BY <2>2, <2>4, <2>7, <3>1
  <2>8. CASE UNCHANGED runs
    BY <2>1, <2>8
  <2> QED
    BY <1>2, <2>3, <2>4, <2>6, <2>7, <2>8, RunSteps
<1>3. ASSUME NEW k \in DOMAIN txs, Mine(k) PROVE Goal
  BY <1>1, <1>3 DEF Mine
<1>4. CASE ResetFlow /\ UNCHANGED <<account, txs>>
  BY <1>1, <1>4, KilledRuns DEF ResetFlow
<1>5. ~StopWaiting
  BY KilledRuns DEF StopWaiting
<1>6. ~SwitchAccount
  <2>1. ASSUME SwitchAccount PROVE runs'[j] = LeftRun(runs[j], runs[j].pc # "none")
    BY <2>1 DEF SwitchAccount, NewSession, LeftRun
  <2>2. PICK r : r = runs[j]
    OBVIOUS
  <2>3. PICK s \in BOOLEAN : s = (runs[j].pc # "none")
    OBVIOUS
  <2>4. LeftRun(r, s).live = FALSE
    BY <1>0, <2>2, RunLeft
  <2> QED
    BY <2>1, <2>2, <2>3, <2>4
<1> QED
  BY <1>1, <1>2, <1>3, <1>4, <1>5, <1>6 DEF FlowGoesOn

\* and after a start only the started run lives
LEMMA RunBegun ==
  ASSUME Shapes, NEW op, NEW owner, StartFor(op, owner), NEW j \in Slots, runs'[j].live
  PROVE  runs'[j].op = op /\ runs'[j].by = owner /\ runs'[j].pc = "probe"
<1>1. PICK i \in Slots : runs' = [Killed(runs) EXCEPT ![i] = [NoRun EXCEPT !.pc = "probe", !.op = op, !.by = owner, !.live = TRUE]]
  BY DEF StartFor
<1>2. PICK r : r = [NoRun EXCEPT !.pc = "probe", !.op = op, !.by = owner, !.live = TRUE]
  OBVIOUS
<1>3. r.op = op /\ r.by = owner /\ r.pc = "probe"
  BY <1>2 DEF NoRun
<1>4. runs'[j] = IF j = i THEN r ELSE Killed(runs)[j]
  BY <1>1, <1>2 DEF Killed
<1>5. Killed(runs)[j].live = FALSE
  BY KilledRuns
<1> QED
  BY <1>3, <1>4, <1>5

\* the runs stay of the connected account as long as the page starts them for it
LEMMA OwnRunsStay ==
  ASSUME Shapes, OwnRuns, FlowGoesOn \/ \E op : StartFor(op, account) /\ UNCHANGED account
  PROVE  OwnRuns'
<1>1. CASE FlowGoesOn
  <2> SUFFICES ASSUME NEW j \in Slots, runs'[j].live PROVE runs'[j].pc # "none" /\ runs'[j].by = account'
    BY DEF OwnRuns
  <2> QED
    BY <1>1, RunsGoOn DEF OwnRuns
<1>2. ASSUME NEW op, StartFor(op, account), UNCHANGED account PROVE OwnRuns'
  <2> SUFFICES ASSUME NEW j \in Slots, runs'[j].live PROVE runs'[j].pc # "none" /\ runs'[j].by = account'
    BY DEF OwnRuns
  <2> QED
    BY <1>2, RunBegun
<1> QED
  BY <1>1, <1>2

\* what is in flight keeps the flow busy
LEMMA FlightIsBusy == ASSUME FlowInv, OwnRuns, NEW op, InFlight(op) PROVE Busy
BY DEF FlowInv, OwnRuns, InFlight, RunsTold, Alive, Said, PhaseAt, Busy

\* and nothing but a start brings it there; what a card waits for is a transaction it saw
LEMMA FlightGoesOn ==
  ASSUME FlowInv, OwnRuns, FlowGoesOn, NEW op, InFlight(op)'
  PROVE  InFlight(op) /\ account' = account
<1>0. Shapes /\ OwnTransaction /\ SaidTruly
  BY DEF FlowInv
<1>1. ASSUME NEW j \in Slots, runs'[j].live, runs'[j].op = op PROVE InFlight(op) /\ account' = account
  BY <1>0, <1>1, RunsGoOn DEF InFlight
<1>2. ASSUME status'.phase = "pending", txs'[status'.tx].op = op PROVE InFlight(op) /\ account' = account
  <2>1. ASSUME UNCHANGED <<account, status, txs>> PROVE InFlight(op) /\ account' = account
    BY <1>2, <2>1 DEF InFlight
  <2>2. ASSUME NEW k \in DOMAIN txs, Mine(k) PROVE InFlight(op) /\ account' = account
    <3>1. status' = status /\ account' = account /\ status.tx \in DOMAIN txs
      BY <1>0, <1>2, <2>2 DEF Mine, SaidTruly
    <3>2. PICK fate : txs' = [txs EXCEPT ![k].fate = fate]
      BY <2>2 DEF Mine
    <3>3. PICK t : t = txs[status.tx]
      OBVIOUS
    <3>4. IsTx(t)
      BY <1>0, <3>1, <3>3 DEF Shapes
    <3>5. PICK u : u = [t EXCEPT !.fate = fate]
      OBVIOUS
    <3>6. u = [op |-> t.op, by |-> t.by, chain |-> t.chain, fate |-> fate, forgotten |-> t.forgotten]
      BY <3>4, <3>5 DEF IsTx
    <3>7. txs'[status.tx] = t \/ txs'[status.tx] = u
      BY <3>1, <3>2, <3>3, <3>5
    <3>8. txs'[status.tx].op = t.op
      BY <3>6, <3>7
    <3> QED
      BY <1>2, <3>1, <3>3, <3>8 DEF InFlight
  <2>3. ASSUME NEW i \in Slots, Advance(i) \/ Refreshed(i) PROVE InFlight(op) /\ account' = account
    <3>1. account' = account
      BY <2>3, RunSteps
    <3>2. CASE WalletSends(i)
      <4>1. PICK r : r = SentRun(runs[i], Len(txs) + 1) /\ Say(r, Of(r, "pending"))
        BY <3>2 DEF WalletSends, SentRun
      <4>2. PICK q : q = runs[i]
        OBVIOUS
      <4>3. IsRun(q)
        BY <1>0, <4>2 DEF Shapes
      <4>4. r.live = q.live /\ r.by = q.by /\ r.tx = Len(txs) + 1
        BY <4>1, <4>2, <4>3, RunSent
      <4>5. txs' = Append(txs, [op |-> runs[i].op, by |-> runs[i].by, chain |-> node.chain,
                                fate |-> "pending", forgotten |-> runs[i].switched])
        BY <3>2 DEF WalletSends
      <4>6. PICK S : txs \in Seq(S)
        BY <1>0 DEF Shapes
      <4>7. CASE Current(r)
        <5>1. status'.tx = Len(txs) + 1
          BY <4>1, <4>4, <4>7 DEF Say, Of, IdleStatus
        <5>2. txs'[Len(txs) + 1].op = runs[i].op
          BY <4>5, <4>6
        <5> QED
          BY <1>2, <3>1, <4>2, <4>4, <4>7, <5>1, <5>2 DEF InFlight, Current
      <4>8. CASE ~Current(r)
        <5>1. status' = status /\ status.tx \in DOMAIN txs
          BY <1>0, <1>2, <4>1, <4>8 DEF Say, SaidTruly
        <5>2. txs'[status.tx] = txs[status.tx]
          BY <4>5, <4>6, <5>1
        <5> QED
          BY <1>2, <3>1, <5>1, <5>2 DEF InFlight
      <4> QED
        BY <4>7, <4>8
    <3>3. CASE NoReceipt(i) /\ status' # status
      <4>1. Current(runs[i]) /\ runs[i].pc = "receipt" /\ txs' = txs
        BY <3>3 DEF NoReceipt, Say
      <4>2. status'.tx = runs[i].tx
        BY <3>3 DEF NoReceipt, Say, KeepPending, Of, IdleStatus
      <4>3. txs[runs[i].tx].op = runs[i].op
        BY <1>0, <4>1 DEF OwnTransaction, AfterWallet
      <4> QED
        BY <1>2, <3>1, <4>1, <4>2, <4>3 DEF InFlight, Current
    <3>4. CASE NoReceipt(i) /\ status' = status
      BY <2>1, <3>1, <3>4 DEF NoReceipt
    <3>5. CASE Throws(i) \/ Probe(i) \/ Simulate(i) \/ Reprobe(i) \/ Estimate(i)
      BY <1>2, <2>1, <3>5 DEF Throws, Probe, Simulate, Reprobe, Estimate, Say, Of, IdleStatus
    <3>6. CASE WalletRefuses(i) \/ Receipt(i) \/ Refreshed(i)
      BY <1>2, <2>1, <3>6 DEF WalletRefuses, Receipt, Refreshed, Say, Of, IdleStatus, Outcome
    <3> QED
      BY <2>3, <3>2, <3>3, <3>4, <3>5, <3>6 DEF Advance
  <2>4. CASE ResetFlow /\ UNCHANGED <<account, txs>>
    BY <1>2, <2>1, <2>4 DEF ResetFlow, IdleStatus
  <2>5. CASE StopWaiting
    <3>1. PICK s : s = [status EXCEPT !.stopped = TRUE]
      OBVIOUS
    <3>2. s.phase = status.phase /\ s.tx = status.tx
      BY <1>0, <3>1 DEF Shapes, IsStatus
    <3> QED
      BY <1>2, <2>5, <3>1, <3>2 DEF StopWaiting, InFlight
  <2>6. ~SwitchAccount
    <3>1. SwitchAccount => status' = IdleStatus
      BY DEF SwitchAccount, NewSession
    <3>2. IdleStatus.phase = "idle"
      BY DEF IdleStatus
    <3> QED
      BY <1>2, <3>1, <3>2
  <2> QED
    BY <2>1, <2>2, <2>3, <2>4, <2>5, <2>6 DEF FlowGoesOn
<1> QED
  BY <1>1, <1>2 DEF InFlight
=============================================================================
