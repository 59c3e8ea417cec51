------------------------------ MODULE AppCards ------------------------------
(***************************************************************************)
(* The Mint, Stake and Redeem cards of the app (MintCard.tsx, StakeCard.tsx *)
(* and RedeemCard.tsx under frontend/src/components/app): which call a      *)
(* button makes, from reads that lag the chain.  One card is open; its      *)
(* amount is fixed, so an allowance either covers it or not.  The claim     *)
(* buttons are a second instance of the same hook and left out.             *)
(***************************************************************************)
EXTENDS WriteFlow, TLC

CONSTANTS Cooldowns       \* redeemCooldown over time

Modes == {"mint", "stake", "instant", "queue"}

VARIABLES mode,      \* the card, and the redemption route of RedeemCard
          ack,       \* acknowledgedCooldown, "none" for null
          chain,     \* what the chain holds: allowance covers the amount, KYC, cooldown
          seen       \* what the card last read of it; `loaded` once the allowance is known

cardVars == <<mode, ack, chain, seen>>

CardsInit ==
    /\ mode \in Modes \ {"queue"} /\ ack = "none"
    /\ chain = [covers |-> FALSE, kyc |-> TRUE, cooldown |-> CHOOSE c \in Cooldowns : TRUE]
    /\ seen = [loaded |-> FALSE] @@ chain

Refetch ==
    /\ account # NoOne
    /\ seen' = [loaded |-> TRUE] @@ chain
    /\ UNCHANGED <<flowVars, mode, ack, chain>>

WritesEnabled == ChainOk /\ seen.kyc
NeedsApproval == mode # "instant" /\ ~seen.covers
QueueAcknowledged == ack = seen.cooldown

\* canSubmit and act: instant redeem and mint follow the KYC gate, staking and the queue
\* only the chain; a queue request needs the acknowledgement of the hold now shown.
CanSubmit ==
    /\ IF mode \in {"mint", "instant"} THEN WritesEnabled ELSE ChainOk
    /\ ~Busy
    /\ mode = "instant" \/ seen.loaded
    /\ mode = "queue" => NeedsApproval \/ QueueAcknowledged

Press ==
    /\ CanSubmit
    /\ Start(IF NeedsApproval THEN "approve" ELSE mode)
    /\ UNCHANGED <<account, node, gate, polls, cardVars>>

Acknowledge ==
    /\ mode = "queue" /\ ChainOk /\ ~Busy /\ seen.loaded
    /\ ack' = IF QueueAcknowledged THEN "none" ELSE seen.cooldown
    /\ UNCHANGED <<flowVars, mode, chain, seen>>

\* Switching the route resets the card, and is not offered while a write is in flight.
SwitchRoute ==
    /\ mode \in {"instant", "queue"} /\ ~Busy
    /\ mode' = (IF mode = "instant" THEN "queue" ELSE "instant") /\ ack' = "none"
    /\ ResetFlow
    /\ UNCHANGED <<account, node, gate, polls, txs, moves, chain, seen>>

\* invalidateQueries: every read is fresh before success is said; onSuccess clears the form.
CardRefreshed(i) ==
    /\ Refreshed(i)
    /\ seen' = [loaded |-> TRUE] @@ chain
    /\ ack' = IF Succeeds(i) /\ runs[i].op = "queue" THEN "none" ELSE ack
    /\ UNCHANGED <<mode, chain>>

\* A mined approval covers the amount, a mined call uses the allowance up.
CardMine(k) ==
    /\ Mine(k)
    /\ chain' = [chain EXCEPT !.covers = IF txs'[k].fate # "ok" \/ txs[k].by # account THEN @
                                         ELSE txs[k].op = "approve"]
    /\ UNCHANGED <<mode, ack, seen>>

Govern ==
    /\ \E c \in Cooldowns, kyc \in BOOLEAN : chain' = [chain EXCEPT !.cooldown = c, !.kyc = kyc]
    /\ chain' # chain
    /\ Move /\ UNCHANGED <<account, node, gate, polls, status, runs, txs, mode, ack, seen>>

\* Another account has its own reads.
CardSwitchAccount ==
    /\ SwitchAccount
    /\ chain' = [chain EXCEPT !.covers = FALSE] /\ seen' = [seen EXCEPT !.loaded = FALSE]
    /\ UNCHANGED <<mode, ack>>

CardsNext ==
    \/ Press \/ Acknowledge \/ SwitchRoute \/ Refetch \/ Govern \/ CardSwitchAccount
    \/ \E i \in Slots : CardRefreshed(i)
    \/ \E k \in DOMAIN txs : CardMine(k)
    \/ Surface /\ UNCHANGED cardVars
    \/ \E i \in Slots : Advance(i) /\ UNCHANGED cardVars

CardsSpec == CardsInit /\ FlowInit /\ [][CardsNext]_<<flowVars, cardVars>>
=============================================================================
