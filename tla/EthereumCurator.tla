-------------------------- MODULE EthereumCurator --------------------------
(***************************************************************************)
(* The page of an Ethereum curator                                          *)
(* (frontend/src/components/curators/EthereumCuratorPanel.tsx and           *)
(* lib/curatorModuleView.ts): first-loss capital posted per collateral      *)
(* class.  One amount is typed, which a posting or an allowance covers or   *)
(* not; the wallet's balance covers it.  The page stands outside the app's  *)
(* alignment gate, and which of a class's figures is zero is all the page   *)
(* decides on.                                                              *)
(***************************************************************************)
EXTENDS WriteFlow

CONSTANTS Classes,            \* CLASS_IDS
          Openings            \* what an account may start with, class by class

NoClass == 0                  \* null
ClassesOK == Classes \subseteq Nat \ {NoClass} /\ Classes # {}

VARIABLES module,     \* CuratorModule: its switches, and each account's classes
          known,      \* what the reads last showed of it for the connected account
          selection   \* the chosen class and whose choice it is

curatorPageVars == <<module, known, selection>>

\* A posting is "none", "posted", or left "behind" by closed rounds: it quotes as zero until
\* it is settled.
NoStanding == [approved |-> FALSE, posting |-> "none"]
NothingKnown == [settled |-> FALSE, paused |-> FALSE, frozen |-> FALSE, locked |-> {}, allowance |-> FALSE,
                 of |-> [c \in Classes |-> NoStanding]]

CuratorPageInit ==
    /\ module \in [paused : {FALSE}, frozen : {FALSE}, locked : {{}}, allowed : {{}},
                   of : [Accounts -> Openings]]
    /\ known = NothingKnown /\ selection = [owner |-> account, class |-> NoClass]

(* ------------------------------ what shows ------------------------------ *)

PositionViews(k) == {c \in Classes : k.of[c].approved \/ k.of[c].posting = "posted"}
Least(S) == CHOOSE c \in S : \A d \in S : c <= d
DefaultClass(k) ==
    LET approved == {c \in PositionViews(k) : k.of[c].approved}
    IN  IF PositionViews(k) = {} THEN NoClass ELSE Least(IF approved = {} THEN PositionViews(k) ELSE approved)

Selected == IF selection.owner = account THEN selection.class ELSE NoClass
EffectiveSelected == IF Selected = NoClass THEN DefaultClass(known) ELSE Selected
\* A class that disappeared leaves nothing selected rather than the next default.
CurrentClass == IF EffectiveSelected \in PositionViews(known) THEN EffectiveSelected ELSE NoClass

\* withdrawableNow: locked is a class in default or without headroom.
ExitsBlocked == known.paused \/ known.frozen
WithdrawableNow(c) == ~ExitsBlocked /\ known.of[c].posting = "posted" /\ c \notin known.locked
NeedsAllowance == ~known.allowance

Readable == account # NoOne /\ RightNetwork /\ known.settled
CanWrite == Readable /\ CurrentClass # NoClass /\ ~Busy /\ ~known.paused

(* -------------------------------- reads -------------------------------- *)

\* What a read shows binds the first class to the wallet, in a timeout of zero; a class
\* bound or chosen before is kept although it is gone.
Shows(k, owner) ==
    /\ known' = k
    /\ selection' = IF (selection.owner = owner /\ selection.class # NoClass) \/ DefaultClass(k) = NoClass
                    THEN selection ELSE [owner |-> owner, class |-> DefaultClass(k)]

Truth(m, a) == [settled |-> TRUE, paused |-> m.paused, frozen |-> m.frozen, locked |-> m.locked,
                allowance |-> a \in m.allowed, of |-> m.of[a]]

ReadModule ==
    /\ account # NoOne /\ RightNetwork /\ Shows(Truth(module, account), account)
    /\ UNCHANGED <<flowVars, module>>

\* Calls of a batch fail one by one: the page hides, but what was read still counts.
ReadsFail ==
    /\ account # NoOne /\ RightNetwork
    /\ \E got \in SUBSET Classes \ {Classes} :
         Shows([Truth(module, account) EXCEPT !.settled = FALSE,
                    !.of = [c \in Classes |-> IF c \in got THEN @[c] ELSE NoStanding]], account)
    /\ UNCHANGED <<flowVars, module>>

(* ------------------------------- buttons ------------------------------- *)

\* The select offers the positions, or every class if there is none; not during a write.
Select ==
    /\ Readable /\ ~Busy
    /\ \E c \in IF PositionViews(known) = {} THEN Classes ELSE PositionViews(known) :
         selection' = [owner |-> account, class |-> c]
    /\ UNCHANGED <<flowVars, module, known>>

Begins(what, class) ==
    /\ Start([what |-> what, class |-> class])
    /\ UNCHANGED <<account, node, gate, polls, curatorPageVars>>

Post ==
    /\ CanWrite /\ known.of[CurrentClass].approved
    /\ Begins(IF NeedsAllowance THEN "approve" ELSE "post", CurrentClass)

Withdraw == CanWrite /\ WithdrawableNow(CurrentClass) /\ Begins("withdraw", CurrentClass)

\* claimClosedRound: from the page without positions, or after an error that names the round.
RecoveryClass == IF Selected = NoClass THEN Least(Classes) ELSE Selected
SettleClosedRound ==
    /\ Readable /\ ~Busy
    /\ \/ PositionViews(known) = {} /\ Begins("settle", RecoveryClass)
       \/ CurrentClass # NoClass /\ status.phase = "error" /\ Begins("settle", CurrentClass)

\* Every read is fresh before success is said; a settled class becomes the selected one.
PageRefreshed(i) ==
    /\ Refreshed(i)
    /\ IF runs[i].by # account THEN UNCHANGED <<known, selection>>
       ELSE IF Succeeds(i) /\ runs[i].op.what = "settle"
       THEN known' = Truth(module, account) /\ selection' = [owner |-> account, class |-> runs[i].op.class]
       ELSE Shows(Truth(module, account), account)
    /\ UNCHANGED module

(* ------------------------------ the world ------------------------------ *)

After(standing, what) ==
    CASE what = "approve"  -> standing
      [] what = "post"     -> [standing EXCEPT !.posting = "posted"]
      [] what = "withdraw" -> [standing EXCEPT !.posting = "none"]
      [] what = "settle"   -> [standing EXCEPT !.posting = IF @ = "behind" THEN "posted" ELSE @]

PageMine(k) ==
    /\ Mine(k)
    /\ LET tx == txs[k]
       IN  module' = IF txs'[k].fate # "ok" THEN module
                     ELSE [module EXCEPT !.of[tx.by][tx.op.class] = After(@, tx.op.what),
                                          !.allowed = CASE tx.op.what = "approve" -> @ \union {tx.by}
                                                        [] tx.op.what = "post"    -> @ \ {tx.by}
                                                        [] OTHER                  -> @]
    /\ UNCHANGED <<known, selection>>

\* The guardian, governance and the other curators' losses.
ModuleMoves ==
    /\ \/ module' = [module EXCEPT !.paused = ~@]
       \/ module' = [module EXCEPT !.frozen = ~@]
       \/ \E c \in Classes :
            \/ module' = [module EXCEPT !.locked = IF c \in @ THEN @ \ {c} ELSE @ \union {c}]
            \/ \E a \in Accounts : \/ module' = [module EXCEPT !.of[a][c].approved = ~@]
                                   \/ module.of[a][c].posting = "posted"
                                      /\ module' = [module EXCEPT !.of[a][c].posting = "none"]
    /\ Move /\ UNCHANGED <<account, node, gate, polls, status, runs, txs, known, selection>>

\* Another account has its own reads.
PageSwitchAccount == SwitchAccount /\ known' = NothingKnown /\ UNCHANGED <<module, selection>>

CuratorPageNext ==
    \/ ReadModule \/ ReadsFail \/ Select \/ Post \/ Withdraw \/ SettleClosedRound
    \/ ModuleMoves \/ PageSwitchAccount
    \/ \E i \in Slots : PageRefreshed(i)
    \/ \E k \in DOMAIN txs : PageMine(k)
    \/ \E i \in Slots : Advance(i) /\ UNCHANGED curatorPageVars

CuratorPageSpec == FlowInit /\ CuratorPageInit /\ [][CuratorPageNext]_<<flowVars, curatorPageVars>>

(* ------------------------------ properties ------------------------------ *)

\* "No write may silently retarget the default": while a posting or a withdrawal is being made,
\* the class on the page is the one it is for, or none, whatever the reads showed since.
NeverRetargeted ==
    \A i \in Slots : runs[i].live /\ runs[i].pc # "none" /\ runs[i].op.what # "settle" =>
        CurrentClass \in {NoClass, runs[i].op.class}
=============================================================================
