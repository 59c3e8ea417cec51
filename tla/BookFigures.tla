---------------------------- MODULE BookFigures ----------------------------
(***************************************************************************)
(* The figures of the loan book on the transparency page                    *)
(* (frontend/src/lib/book.ts, transparencyHistory.ts and its server,        *)
(* useBookEconomics, useCollateralValue, TransparencyDashboard.tsx): some   *)
(* come from the state of the facilities, read now, others from the events  *)
(* since the deployment, summed at an archive node's block, cached at the   *)
(* edge and shown after the newest block's request only.  Rates are in      *)
(* units of Bps, marks in units of principal.                               *)
(***************************************************************************)
EXTENDS Integers, Sequences, FiniteSets, FiniteSetsExt

CONSTANTS ClassIds,                     \* VERTICALS
          LaterClasses,                 \* classes governance adds afterwards
          DigitalAssets,                \* DIGITAL_ASSETS_CLASS_ID
          Bps, FeeBps,                  \* BPS, protocolFeeBps
          Rates, Ltvs, Principals,      \* terms of the facilities
          ClientCap,                    \* MAX_CLIENT_FACILITIES
          MaxFacilities, MaxTicks       \* bounds

VARIABLES facilities,  \* on chain, by token id
          log,         \* Originated, Funded and LossRealized, in order
          requests,    \* requests of the history on their way: the block tick each is for
          ticks,       \* block numbers the page has seen
          history      \* revenue, credit and historyBlock

bookVars == <<facilities, log, requests, ticks, history>>

Classes == ClassIds \union LaterClasses
NoFigures == [funded |-> 0, netLoss |-> 0, byClass |-> <<>>]
Nothing == [phase |-> "loading", tick |-> 0, asOf |-> 0, credit |-> NoFigures]

BookInit ==
    /\ facilities = <<>> /\ log = <<>>
    /\ requests = {} /\ ticks = 0 /\ history = Nothing

(* ------------------------------- book.ts ------------------------------- *)

SumOver(S, op(_)) == MapThenSumSet(op, S)

Outstanding(fs) == {t \in DOMAIN fs : fs[t].outstanding > 0}
Performing(fs) == {t \in Outstanding(fs) : fs[t].state \in {"active", "amortizing"}}

\* calculateBookYield; the averages are null on an empty book.
CalculateBookYield(fs) ==
    LET principal(ts) == SumOver(ts, LAMBDA t : fs[t].outstanding)
        weighted(ts) == SumOver(ts, LAMBDA t : fs[t].outstanding * fs[t].rate)
    IN  [outstanding   |-> principal(Outstanding(fs)), gross |-> weighted(Outstanding(fs)) \div Bps,
         performing    |-> principal(Performing(fs)), performingGross |-> weighted(Performing(fs)) \div Bps,
         nonPerforming |-> principal(Outstanding(fs)) - principal(Performing(fs))]

\* calculateProjectedSeniorIncome, facility by facility.
ProjectedSeniorIncome(fs) ==
    SumOver(Performing(fs), LAMBDA t : (((fs[t].outstanding * fs[t].rate) \div Bps) * (Bps - FeeBps)) \div Bps)

\* calculateCollateralValueMetrics: a mark stands until the next, and its age is told.
Marked(fs) == {t \in Outstanding(fs) : fs[t].class = DigitalAssets}
CollateralValue(fs) ==
    LET usable == {t \in Marked(fs) : fs[t].mark # 0}
        receivable == Outstanding(fs) \ Marked(fs)
        value == SumOver(usable, LAMBDA t : fs[t].mark)
                   + SumOver(receivable, LAMBDA t : (fs[t].outstanding * Bps) \div fs[t].ltv)
        complete == usable = Marked(fs)
        principal == SumOver(Outstanding(fs), LAMBDA t : fs[t].outstanding)
    IN  [value |-> value, complete |-> complete,
         coverage |-> IF complete /\ principal > 0 THEN (value * Bps) \div principal ELSE -1]

\* calculateHistoricalNetDefaultMetrics: a class funded or lost in is listed even if unknown.
Listed(events) == ClassIds \union {events[k].class : k \in DOMAIN events}
NetDefaults(events) ==
    LET of(kind, classes) == {k \in DOMAIN events : events[k].kind = kind /\ events[k].class \in classes}
        total(kind, classes) == SumOver(of(kind, classes), LAMBDA k : events[k].amount)
    IN  [funded |-> total("funded", Classes), netLoss |-> total("loss", Classes),
         byClass |-> [c \in Listed(events) |-> [funded |-> total("funded", {c}), netLoss |-> total("loss", {c})]]]

\* summarizeTransparencyHistory: a funded facility takes its class from its origination.
Summarize(events) ==
    LET classOf(t) == events[CHOOSE k \in DOMAIN events : events[k].kind = "originated" /\ events[k].token = t].class
    IN  NetDefaults([k \in DOMAIN events |-> IF events[k].kind = "funded"
                                             THEN [events[k] EXCEPT !.class = classOf(events[k].token)]
                                             ELSE events[k]])

(* -------------------------------- the page -------------------------------- *)

\* useBookEconomics, useCollateralValue: every facility is read, or no figure is shown.
Readable(fs) == Len(fs) <= ClientCap

\* The effect of a new block number cancels the request before.
NewTick ==
    /\ ticks < MaxTicks /\ ticks' = ticks + 1 /\ requests' = requests \union {ticks'}
    /\ history' = Nothing
    /\ UNCHANGED <<facilities, log>>

Cancelled(request) == request # ticks

\* The archive node, or the edge's cache, may be behind.
HistoryLands ==
    /\ \E request \in requests, asOf \in 0..Len(log) :
         /\ requests' = requests \ {request}
         /\ history' = IF Cancelled(request) THEN history
                       ELSE [phase |-> "ready", tick |-> request, asOf |-> asOf,
                             credit |-> Summarize(SubSeq(log, 1, asOf))]
    /\ UNCHANGED <<facilities, log, ticks>>

HistoryFails ==
    /\ \E request \in requests :
         /\ requests' = requests \ {request}
         /\ history' = IF Cancelled(request) THEN history ELSE [Nothing EXCEPT !.phase = "error"]
    /\ UNCHANGED <<facilities, log, ticks>>

(* -------------------------------- the book -------------------------------- *)

Logged(kind, t, class, amount) ==
    log' = Append(log, [kind |-> kind, token |-> t, class |-> class, amount |-> amount])
Chain == UNCHANGED <<requests, ticks, history>>
Becomes(t, f) == facilities' = [facilities EXCEPT ![t] = f]

Originate(class, rate, ltv) ==
    /\ Len(facilities) < MaxFacilities
    /\ facilities' = Append(facilities, [class |-> class, rate |-> rate, ltv |-> ltv, mark |-> 0, state |-> "pending",
                                         outstanding |-> 0, repaid |-> 0])
    /\ Logged("originated", Len(facilities'), class, 0) /\ Chain

Fund(t, principal) ==
    /\ facilities[t].state = "pending"
    /\ Becomes(t, [facilities[t] EXCEPT !.state = "active", !.outstanding = principal])
    /\ Logged("funded", t, 0, principal) /\ Chain

\* A payment of the borrower, or what is recovered after a default.
Repay(t) ==
    /\ facilities[t].outstanding > 0
    /\ Becomes(t, [facilities[t] EXCEPT !.outstanding = @ - 1, !.repaid = @ + 1,
                     !.state = IF @ = "defaulted" THEN @ ELSE IF facilities[t].outstanding = 1 THEN "repaid"
                               ELSE "amortizing"])
    /\ UNCHANGED log /\ Chain

MarkAsset(t) ==
    /\ facilities[t].class = DigitalAssets
    /\ \E mark \in Principals \ {facilities[t].mark} : Becomes(t, [facilities[t] EXCEPT !.mark = mark])
    /\ UNCHANGED log /\ Chain

Default(t) ==
    /\ facilities[t].state \in {"active", "amortizing"}
    /\ Becomes(t, [facilities[t] EXCEPT !.state = "defaulted"])
    /\ UNCHANGED log /\ Chain

RealizeLoss(t) ==
    /\ facilities[t].state = "defaulted" /\ facilities[t].outstanding > 0
    /\ Logged("loss", t, facilities[t].class, facilities[t].outstanding)
    /\ Becomes(t, [facilities[t] EXCEPT !.state = "resolved", !.outstanding = 0]) /\ Chain

BookNext ==
    \/ NewTick \/ HistoryLands \/ HistoryFails
    \/ \E class \in Classes, rate \in Rates, ltv \in Ltvs : Originate(class, rate, ltv)
    \/ \E t \in DOMAIN facilities :
         \/ Repay(t) \/ MarkAsset(t) \/ Default(t) \/ RealizeLoss(t)
         \/ \E principal \in Principals : Fund(t, principal)

BookSpec == BookInit /\ [][BookNext]_bookVars

(* ------------------------------ properties ------------------------------ *)

\* The book adds up: the history is of the page's newest block number, its classes make its
\* totals, and once it has seen every event what it calls funded and not lost is, class by
\* class, what the facilities still owe or have repaid.
HistoryAddsUp ==
    history.phase = "ready" =>
        LET slices == history.credit.byClass
            owedOf(c) == {t \in DOMAIN facilities : facilities[t].class = c}
        IN  /\ history.tick = ticks
            /\ history.credit.funded = SumOver(DOMAIN slices, LAMBDA c : slices[c].funded)
            /\ history.credit.netLoss = SumOver(DOMAIN slices, LAMBDA c : slices[c].netLoss)
            /\ \A c \in DOMAIN slices : slices[c].netLoss <= slices[c].funded
            /\ history.asOf = Len(log) => \A c \in DOMAIN slices :
                 slices[c].funded - slices[c].netLoss =
                     SumOver(owedOf(c), LAMBDA t : facilities[t].outstanding + facilities[t].repaid)

\* The income projected for the vault, rounded facility by facility, is never more than the
\* performing interest after the protocol's fee.
FiguresAreCautious ==
    Readable(facilities) =>
        LET fs == facilities
            yield == CalculateBookYield(fs)
        IN  /\ ProjectedSeniorIncome(fs) * Bps <= yield.performingGross * (Bps - FeeBps)
            /\ CollateralValue(fs).coverage # -1 => yield.performing + yield.nonPerforming > 0
=============================================================================
