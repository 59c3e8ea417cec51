---------------------------- MODULE CuratorPanel ----------------------------
(***************************************************************************)
(* The page of a Solana curator                                             *)
(* (frontend/src/components/curators/CuratorVaultPanel.tsx): reads that are *)
(* ordered by a sequence number, tagged with the wallet they were made for  *)
(* and overtaken by account switches, and the write path that simulates,    *)
(* sends, polls the signature and announces the outcome together with       *)
(* re-read figures.  The figures themselves are in SolanaVault; here a      *)
(* position is whose it is and which of its writes it reflects.              *)
(***************************************************************************)
EXTENDS Integers, Sequences

CONSTANTS Curators,                \* wallets
          MaxWrites, MaxSwitches   \* bounds: transactions sent, account switches

VARIABLES wallet,      \* publicKey, or none
          timer,       \* the effect's setTimeout(refresh, 0) is due
          read,        \* the read readSeq calls live; older ones change nothing any more
          cluster,     \* clusterOk
          config,      \* the config was read
          position, balance, shownFor,
          failure,     \* readFailureState's wallet
          history,     \* historyState
          notice,      \* noticeState, with the figures it was announced with
          run,         \* the continuation of run, while busy
          txs,         \* transactions sent
          switches

curatorVars == <<wallet, timer, read, cluster, config, position, balance, shownFor, failure, history,
                 notice, run, txs, switches>>
readState == <<cluster, config, position, balance, shownFor, failure, history>>

Nobody == "nobody"
NoFigures == [of |-> Nobody, writes |-> {}]
NoNotice == [by |-> Nobody, tone |-> "none", tx |-> 0, with |-> NoFigures]
NoRead == [pc |-> "none", of |-> Nobody, forRun |-> FALSE]
NoWrite == [pc |-> "none", by |-> Nobody, tx |-> 0, outcome |-> "none"]

Landed(w) == {k \in DOMAIN txs : txs[k].by = w /\ txs[k].fate = "confirmed"}
OnChain(w) == [of |-> w, writes |-> Landed(w)]

CuratorInit ==
    /\ wallet \in Curators /\ timer = TRUE /\ read = NoRead /\ cluster = "unknown"
    /\ config = FALSE /\ position = NoFigures /\ balance = NoFigures /\ shownFor = Nobody
    /\ failure = Nobody /\ history = "loading" /\ notice = NoNotice
    /\ run = NoWrite /\ txs = <<>> /\ switches = 0

(* -------------------------------- refresh -------------------------------- *)

\* A new sequence number: whatever was being read is dropped when it lands.
Refresh(of, forRun) ==
    read' = [pc |-> IF cluster = "unknown" THEN "genesis" ELSE "config", of |-> of, forRun |-> forRun]

Tell(tone) == notice' = [by |-> run.by, tone |-> tone, tx |-> run.tx, with |-> position]
\* What run says once its refresh has returned.
Announce(ok) ==
    /\ run' = NoWrite
    /\ IF run.outcome = "unknown" THEN UNCHANGED notice
       ELSE Tell(IF run.outcome = "confirmed" /\ ok THEN "ok" ELSE "bad")
Returns(ok) == IF read.forRun THEN Announce(ok) ELSE UNCHANGED <<notice, run>>

TimerFires ==
    /\ timer /\ timer' = FALSE /\ Refresh(wallet, FALSE)
    /\ UNCHANGED <<wallet, readState, notice, run, txs, switches>>

Retry ==
    /\ wallet # Nobody /\ (failure = wallet \/ (shownFor = wallet /\ history = "failed" /\ run = NoWrite))
    /\ Refresh(wallet, FALSE)
    /\ UNCHANGED <<wallet, timer, readState, notice, run, txs, switches>>

ReadGenesis ==
    /\ read.pc = "genesis"
    /\ \/ cluster' = "right" /\ read' = [read EXCEPT !.pc = "config"] /\ UNCHANGED <<notice, run>>
       \/ cluster' = "wrong" /\ read' = NoRead /\ Returns(FALSE)
    /\ UNCHANGED <<wallet, timer, config, position, balance, shownFor, failure, history, txs, switches>>

ReadConfig ==
    /\ read.pc = "config" /\ config' = TRUE
    /\ IF read.of = Nobody
       THEN position' = NoFigures /\ failure' = Nobody /\ read' = NoRead /\ Returns(TRUE)
       ELSE read' = [read EXCEPT !.pc = "position"] /\ UNCHANGED <<position, failure, notice, run>>
    /\ UNCHANGED <<wallet, timer, cluster, balance, shownFor, history, txs, switches>>

\* setPosition comes before the balance is awaited.
ReadPosition ==
    /\ read.pc = "position"
    /\ position' = OnChain(read.of) /\ read' = [read EXCEPT !.pc = "balance"]
    /\ UNCHANGED <<wallet, timer, cluster, config, balance, shownFor, failure, history, notice, run, txs, switches>>

\* The history is not awaited: a position has one to load, a wallet without a position none.
ReadBalance ==
    /\ read.pc = "balance"
    /\ balance' = OnChain(read.of) /\ failure' = Nobody /\ shownFor' = read.of
    /\ \/ history' = "loading" /\ read' = [read EXCEPT !.pc = "history", !.forRun = FALSE]
       \/ history' = "ok" /\ read' = NoRead
    /\ Returns(TRUE)
    /\ UNCHANGED <<wallet, timer, cluster, config, position, txs, switches>>

LoadHistory ==
    /\ read.pc = "history" /\ read' = NoRead /\ history' \in {"ok", "failed"}
    /\ UNCHANGED <<wallet, timer, cluster, config, position, balance, shownFor, failure, notice, run, txs, switches>>

ReadFails ==
    /\ read.pc \in {"genesis", "config", "position", "balance"}
    /\ read' = NoRead /\ failure' = read.of /\ shownFor' = Nobody /\ Returns(FALSE)
    /\ UNCHANGED <<wallet, timer, cluster, config, position, balance, history, txs, switches>>

(* ---------------------------------- run ---------------------------------- *)

Shown == wallet # Nobody /\ cluster # "wrong" /\ position # NoFigures /\ config /\ shownFor = wallet

Press ==
    /\ Shown /\ run = NoWrite /\ Len(txs) < MaxWrites
    /\ run' = [NoWrite EXCEPT !.pc = "building", !.by = wallet] /\ notice' = NoNotice
    /\ UNCHANGED <<wallet, timer, read, readState, txs, switches>>

\* The simulation refuses, a request fails or the wallet declines.
WriteRefused ==
    /\ run.pc = "building" /\ Tell("bad") /\ run' = NoWrite
    /\ UNCHANGED <<wallet, timer, read, readState, txs, switches>>

Send ==
    /\ run.pc = "building"
    /\ txs' = Append(txs, [by |-> run.by, fate |-> "pending"])
    /\ run' = [run EXCEPT !.pc = "polling", !.tx = Len(txs) + 1]
    /\ UNCHANGED <<wallet, timer, read, readState, notice, switches>>

AwaitsRefresh(outcome) ==
    IF wallet = run.by
    THEN run' = [run EXCEPT !.pc = "refreshing", !.outcome = outcome] /\ Refresh(run.by, TRUE)
    ELSE run' = NoWrite /\ UNCHANGED read

\* awaitSignature: a transaction seen too late counts as expired although it landed.
SignatureSettles ==
    /\ run.pc = "polling" /\ txs[run.tx].fate # "pending"
    /\ \E outcome \in {txs[run.tx].fate, "expired"} : AwaitsRefresh(outcome)
    /\ UNCHANGED <<wallet, timer, readState, notice, txs, switches>>

SignatureUnreadable ==
    /\ run.pc = "polling"
    /\ Tell("bad") /\ AwaitsRefresh("unknown")
    /\ UNCHANGED <<wallet, timer, readState, txs, switches>>

\* Another read took the sequence over: the refresh of the write returns false.
RefreshOvertaken ==
    /\ run.pc = "refreshing" /\ ~read.forRun /\ Announce(FALSE)
    /\ UNCHANGED <<wallet, timer, read, readState, txs, switches>>

(* ------------------------------- the world ------------------------------- *)

Settle ==
    /\ \E k \in DOMAIN txs, fate \in {"confirmed", "failed", "expired"} :
         txs[k].fate = "pending" /\ txs' = [txs EXCEPT ![k].fate = fate]
    /\ UNCHANGED <<wallet, timer, read, readState, notice, run, switches>>

\* publicKey changes, and with it refresh: the effect clears its timer and sets a new one.
SwitchWallet ==
    /\ switches < MaxSwitches /\ switches' = switches + 1
    /\ wallet' \in (Curators \union {Nobody}) \ {wallet} /\ timer' = TRUE
    /\ UNCHANGED <<read, readState, notice, run, txs>>

CuratorNext ==
    \/ TimerFires \/ Retry \/ ReadGenesis \/ ReadConfig \/ ReadPosition \/ ReadBalance
    \/ LoadHistory \/ ReadFails \/ Press \/ WriteRefused \/ Send \/ SignatureSettles
    \/ SignatureUnreadable \/ RefreshOvertaken \/ Settle \/ SwitchWallet

CuratorSpec == CuratorInit /\ [][CuratorNext]_curatorVars

(* ------------------------------ properties ------------------------------ *)

\* "Everything read is tagged with the wallet it was read for; a switch shows "reading" until
\* the new wallet's own read lands, so the previous wallet's figures never linger."
FiguresAreOfTheWallet == Shown => position.of = wallet /\ balance.of = wallet

\* The outcome is announced together with the re-read figures, never ahead of them: a notice of
\* success is of a transaction of that wallet that landed, and came with a position read after.
NoticeIsTrue ==
    notice.tone = "ok" => /\ txs[notice.tx] = [by |-> notice.by, fate |-> "confirmed"]
                          /\ notice.with.of = notice.by /\ notice.tx \in notice.with.writes
=============================================================================
