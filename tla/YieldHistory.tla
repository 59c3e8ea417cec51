---------------------------- MODULE YieldHistory ----------------------------
(***************************************************************************)
(* The income history of the app's yield panel                              *)
(* (frontend/src/components/app/YieldPositionPanel.tsx, lib/logs.ts): one   *)
(* sweep from the deployment for the connected wallet, then a cursor that   *)
(* each new block advances over the unread blocks only.  The reads of an    *)
(* earlier wallet are still on their way when the next one's begin.  What   *)
(* counts is how often each block was counted and for whom.                 *)
(***************************************************************************)
EXTENDS Integers, FiniteSets

CONSTANTS Holders,                   \* wallets that connect
          Deployment, MaxHead,       \* PROTOCOL_DEPLOYMENT_BLOCK; bound: blocks
          BlockChunk,                \* DEFAULT_BLOCK_CHUNK
          MaxSwitches, MaxFaults     \* bounds: changes of wallet, failed requests

VARIABLES holder,        \* address, or none
          generation,    \* historyGeneration
          cursor,        \* historyCursor, with the generation that made it
          pending,       \* pendingHistoryBlock, 0 for null
          inFlight,      \* incrementalHistoryInFlight
          shown,         \* history: its phase and the cursor it shows
          reads,         \* sweeps and advances awaited
          head, tick,    \* the chain's newest block; what useBlockNumber last said
          faults

yieldVars == <<holder, generation, cursor, pending, inFlight, shown, reads, head, tick, faults>>

NoHolder == "none"
Blocks == Deployment..MaxHead
NoCursor == [gen |-> 0, of |-> NoHolder, counted |-> [b \in Blocks |-> 0], through |-> 0]
Phase(p, c) == [phase |-> p, value |-> c]
Unknown == -1
Sweep(gen, of) == [kind |-> "sweep", gen |-> gen, of |-> of, base |-> NoCursor, from |-> Deployment, to |-> Unknown]

YieldInit ==
    /\ holder \in Holders \union {NoHolder} /\ generation = 1
    /\ cursor = NoCursor /\ pending = 0 /\ inFlight = FALSE /\ shown = Phase("loading", NoCursor)
    /\ reads = {Sweep(1, holder)} /\ head = Deployment /\ tick = 0 /\ faults = 0

\* nextUnreadBlockRange: where it begins; there is none if it would begin past the latest.
NextUnreadOverlapping(lastScanned) == lastScanned                          \* mutant
NextUnread(lastScanned) == lastScanned + 1

\* readBlockRangeChunked: how often each block of an inclusive range is read.
ChunkStarts(from, to) == {c \in from..to : (c - from) % BlockChunk = 0}
ChunkEnd(c, to) == IF c + BlockChunk - 1 < to THEN c + BlockChunk - 1 ELSE to
Delta(from, to) ==
    [b \in Blocks |-> Cardinality({c \in ChunkStarts(from, to) : b \in c..ChunkEnd(c, to)})]

Live(r) == r.gen = generation

(* ------------------------------- the sweep ------------------------------- *)

HeadAnswers ==
    /\ \E r \in reads, latest \in 0..head :
         /\ r.kind = "sweep" /\ r.to = Unknown
         /\ IF latest < Deployment
            THEN /\ reads' = reads \ {r}
                 /\ shown' = IF Live(r) THEN Phase("error", NoCursor) ELSE shown
            ELSE reads' = (reads \ {r}) \union {[r EXCEPT !.to = latest]} /\ UNCHANGED shown
    /\ UNCHANGED <<holder, generation, cursor, pending, inFlight, head, tick, faults>>

SweepLands ==
    /\ \E r \in reads :
         /\ r.kind = "sweep" /\ r.to # Unknown /\ reads' = reads \ {r}
         /\ IF Live(r)
            THEN /\ cursor' = [gen |-> r.gen, of |-> r.of, counted |-> Delta(r.from, r.to), through |-> r.to]
                 /\ pending' = r.to /\ shown' = Phase("ready", cursor')
            ELSE UNCHANGED <<cursor, pending, shown>>
    /\ UNCHANGED <<holder, generation, inFlight, head, tick, faults>>

(* ------------------------------ the advance ------------------------------ *)

\* The loop reads the next unread range up to the pending block, or ends.
Goes(rest, from, block) ==
    LET range == [kind |-> "advance", gen |-> generation, of |-> from.of, base |-> from,
                  from |-> NextUnread(from.through), to |-> block]
    IN  IF block > from.through THEN reads' = rest \union {range} /\ inFlight' = TRUE
        ELSE reads' = rest /\ inFlight' = FALSE

NewBlock == /\ head < MaxHead /\ head' = head + 1
            /\ UNCHANGED <<holder, generation, cursor, pending, inFlight, shown, reads, tick, faults>>

\* useBlockNumber changes; a node may be behind another.
Tick ==
    /\ \E b \in Deployment..head \ {tick} :
         /\ tick' = b /\ pending' = (IF pending = 0 \/ b > pending THEN b ELSE pending)
         /\ IF cursor = NoCursor \/ inFlight THEN UNCHANGED <<reads, inFlight>>
            ELSE Goes(reads, cursor, pending')
    /\ UNCHANGED <<holder, generation, cursor, shown, head, faults>>

AdvanceLands ==
    /\ \E r \in reads :
         /\ r.kind = "advance"
         /\ IF ~Live(r) \/ cursor # r.base
            THEN /\ reads' = reads \ {r} /\ inFlight' = (inFlight /\ ~Live(r))
                 /\ UNCHANGED <<cursor, shown>>
            ELSE /\ cursor' = [cursor EXCEPT !.counted = [b \in Blocks |-> @[b] + Delta(r.from, r.to)[b]],
                                             !.through = r.to]
                 /\ shown' = Phase("ready", cursor')
                 /\ Goes(reads \ {r}, cursor', pending)
    /\ UNCHANGED <<holder, generation, pending, head, tick, faults>>

\* A failed sweep is not repeated for the same wallet; a failed advance is, with the next block.
ReadFails ==
    /\ faults < MaxFaults /\ faults' = faults + 1
    /\ \E r \in reads :
         /\ reads' = reads \ {r}
         /\ shown' = IF Live(r) THEN Phase("error", NoCursor) ELSE shown
         /\ inFlight' = (inFlight /\ ~(Live(r) /\ r.kind = "advance"))
    /\ UNCHANGED <<holder, generation, cursor, pending, head, tick>>

\* Another wallet: both effects run again, the sweep's first.
SwitchHolder ==
    /\ generation <= MaxSwitches /\ generation' = generation + 1
    /\ holder' \in (Holders \union {NoHolder}) \ {holder}
    /\ cursor' = NoCursor /\ inFlight' = FALSE /\ shown' = Phase("loading", NoCursor)
    /\ pending' = tick /\ reads' = reads \union {Sweep(generation', holder')}
    /\ UNCHANGED <<head, tick, faults>>

YieldNext == HeadAnswers \/ SweepLands \/ NewBlock \/ Tick \/ AdvanceLands \/ ReadFails \/ SwitchHolder

YieldSpec == YieldInit /\ [][YieldNext]_yieldVars

(* ------------------------------ properties ------------------------------ *)

\* A history that shows is of the connected wallet and counts each block up to its cursor
\* exactly once, whichever reads of whichever wallet landed in between.
CountedOnce ==
    shown.phase = "ready" =>
        /\ shown.value.of = holder
        /\ \A b \in Blocks : shown.value.counted[b] = IF b <= shown.value.through THEN 1 ELSE 0
=============================================================================
