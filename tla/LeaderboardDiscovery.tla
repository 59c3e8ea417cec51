------------------------ MODULE LeaderboardDiscovery ------------------------
(***************************************************************************)
(* The participant discovery behind the points leaderboard                 *)
(* (frontend/src/lib/pointsLeaderboard.server.ts): which wallets the board *)
(* reads.  One process keeps the discovery; every load extends it to the   *)
(* finalized block it read, chunk by chunk, through an RPC provider that   *)
(* caps, refuses, drops or silently shortens answers, then proves it       *)
(* against the PointsModule's own totals before a board is published.      *)
(* Every await is a step of its own.  Time is kept relative (what is left  *)
(* of a budget or a backoff), so no clock has to be bounded.               *)
(***************************************************************************)
EXTENDS Integers, FiniteSets, Sequences

CONSTANTS Loads,           \* concurrent calls of loadPointsLeaderboard
          Wallets,
          Deployment, Tip, \* protocolDeploymentBlock; the last block of the run
          Named,           \* [Blocks -> SUBSET Wallets]: wallets a block's events name
          Held,            \* [Blocks -> SUBSET Wallets]: wallets tracked after a block
          LogChunk, LogLimit, MaxSplits, MaxParticipants,
          Budget, Backoff, \* REQUEST_BUDGET_MS and REBUILD_BACKOFF_MS, in ticks
          MaxShort,        \* bound: answers the provider silently shortens
          MaxDrops         \* bound: the first discoveries that a proof answered out of shape may drop

Blocks == Deployment .. Tip

ConstantsOK ==
    /\ Deployment \in Nat \ {0} /\ Tip \in Nat /\ Deployment <= Tip
    /\ Named \in [Blocks -> SUBSET Wallets] /\ Held \in [Blocks -> SUBSET Wallets]
    /\ \A b \in Blocks : Held[b] \subseteq UNION {Named[k] : k \in Deployment .. b}
    /\ {LogChunk, LogLimit, MaxParticipants} \subseteq Nat \ {0}
    /\ {MaxSplits, Budget, Backoff, MaxShort, MaxDrops} \subseteq Nat

VARIABLES head,     \* the newest finalized block
          disc,     \* the module's `discovery`; `gen` is its identity, `short` a history field
          backoff,  \* ticks until `rebuildAfter`
          queue,    \* the promise queue: loads that extend, first one running
          load,     \* per load: where it is and its local variables
          served,   \* the last board published (history)
          short,    \* silently shortened answers so far
          outage    \* reads may fail (until they no longer do)

vars == <<head, disc, backoff, queue, load, served, short, outage>>

NamedTo(b) == UNION {Named[k] : k \in Deployment .. b}
Events(from, to) == UNION {{<<b, w>> : w \in Named[b]} : b \in (from .. to) \cap Blocks}
WalletsOf(events) == {e[2] : e \in events}

None == [asOf |-> 0, wallets |-> {}]
Idle == [pc |-> "idle", asOf |-> 0, left |-> 0, gen |-> 0, to |-> 0, todo |-> <<>>,
         splits |-> 0, got |-> {}, cut |-> FALSE, seen |-> {}]

NoDiscovery == [live |-> FALSE, gen |-> 0, scannedTo |-> 0, wallets |-> {}, short |-> FALSE]
AtRest == disc = NoDiscovery /\ load = [r \in Loads |-> Idle] /\ served = None

Init ==
    /\ head = Deployment - 1 /\ backoff = 0 /\ queue = <<>> /\ short = 0 /\ outage = TRUE
    /\ AtRest

(* ---------------------------- one load ---------------------------- *)

\* A load that ends, whatever its answer, also leaves the queue: only the first
\* one in it runs, so no other load of the queue can end.
Without(r) == IF queue # <<>> /\ Head(queue) = r THEN Tail(queue) ELSE queue
End(r) == load' = [load EXCEPT ![r] = Idle] /\ queue' = Without(r)

\* loadPointsLeaderboard: the deadline runs from the start of the request.
Start(r) ==
    /\ load[r].pc = "idle"
    /\ load' = [load EXCEPT ![r] = [Idle EXCEPT !.pc = "asOf", !.left = Budget]]
    /\ UNCHANGED <<head, disc, backoff, queue, served, short>>

\* The finalized block and the wiring are read at it; then the load joins the queue.
ReadBlock(r) ==
    /\ load[r].pc = "asOf" /\ head >= Deployment
    /\ load' = [load EXCEPT ![r].pc = "queued", ![r].asOf = head]
    /\ queue' = Append(queue, r)
    /\ UNCHANGED <<head, disc, backoff, served, short>>

NothingFinalized(r) ==
    /\ load[r].pc = "asOf" /\ head < Deployment
    /\ End(r)
    /\ UNCHANGED <<head, disc, backoff, served, short>>

\* The next chunk of an extension that has scanned to `done`, or its end.
ChunkEnd(from, asOf) == IF from + LogChunk - 1 < asOf THEN from + LogChunk - 1 ELSE asOf

NextChunk(ld, done, wallets) ==
    LET from == IF done = 0 THEN Deployment ELSE done + 1
        to   == ChunkEnd(from, ld.asOf)
    IN  IF from > ld.asOf
        THEN [ld EXCEPT !.pc = "onchain", !.seen = wallets, !.todo = <<>>, !.got = {}, !.cut = FALSE]
        ELSE [ld EXCEPT !.pc = "scanning", !.to = to, !.splits = MaxSplits, !.got = {}, !.cut = FALSE,
                        !.todo = <<[from |-> from, to |-> to, atLeast |-> -1]>>]

\* The extension leaves the queue when it has reached the load's block.
Leave(r, ld) == IF ld.pc = "onchain" THEN Without(r) ELSE queue

\* discoverTo: one extension at a time.
MyTurn(r) == load[r].pc = "queued" /\ Head(queue) = r

\* extendDiscovery starts: discoveryFor reuses the live discovery, creates one,
\* or answers "rebuilding" while the backoff runs.
Extend(r) ==
    /\ MyTurn(r)
    /\ disc.live \/ backoff = 0
    /\ LET d  == IF disc.live THEN disc
                 ELSE [live |-> TRUE, gen |-> disc.gen + 1, scannedTo |-> 0, wallets |-> {}, short |-> FALSE]
           ld == NextChunk([load[r] EXCEPT !.gen = d.gen], d.scannedTo, d.wallets)
       IN  /\ disc' = d
           /\ load' = [load EXCEPT ![r] = ld]
           /\ queue' = Leave(r, ld)
    /\ UNCHANGED <<head, backoff, served, short>>

Rebuilding(r) ==
    /\ MyTurn(r)
    /\ ~disc.live /\ backoff > 0
    /\ End(r)
    /\ UNCHANGED <<head, disc, backoff, served, short>>

(* ----------------------- the provider's answers ----------------------- *)

Asked(r) == Head(load[r].todo)

\* Accepted logs join the chunk; the range is done with.
Accept(r, events, cut) ==
    /\ load' = [load EXCEPT ![r].todo = Tail(@), ![r].got = @ \union WalletsOf(events),
                            ![r].cut = @ \/ cut]
    /\ short' = IF cut THEN short + 1 ELSE short
    /\ UNCHANGED <<head, disc, backoff, queue, served>>

\* A capped or refused range: halved while the budget lasts, a single block
\* read again from its receipts, which must hold at least `n` logs.
HalvesApart(range) ==                                                      \* mutant
    LET middle == range.from + (range.to - range.from) \div 2
    IN  <<[from |-> range.from, to |-> middle - 1, atLeast |-> -1],
          [from |-> middle + 1, to |-> range.to, atLeast |-> -1]>>
Halves(range) ==
    LET middle == range.from + (range.to - range.from) \div 2
    IN  <<[from |-> range.from, to |-> middle, atLeast |-> -1],
          [from |-> middle + 1, to |-> range.to, atLeast |-> -1]>>


Crowded(r, n) ==
    LET range == Asked(r)
    IN  IF range.from = range.to
        THEN load' = [load EXCEPT ![r].todo = <<[range EXCEPT !.atLeast = n]>> \o Tail(@)]
             /\ UNCHANGED queue
        ELSE IF load[r].splits < 2
        THEN End(r)
        ELSE load' = [load EXCEPT ![r].splits = @ - 2, ![r].todo = Halves(range) \o Tail(@)]
             /\ UNCHANGED queue

\* An answer of LogLimit entries or more may have been cut short.
OverTheCap(n) == n > LogLimit                                              \* mutant
MayBeCut(n) == n >= LogLimit

Reading(r) == load[r].pc = "scanning" /\ load[r].todo # <<>>

WholeAnswer(r) ==
    /\ Reading(r)
    /\ LET events == Events(Asked(r).from, Asked(r).to)
           n      == Cardinality(events)
       IN  IF Asked(r).atLeast >= 0 \/ ~MayBeCut(n) THEN Accept(r, events, FALSE)
           ELSE Crowded(r, n) /\ UNCHANGED <<head, disc, backoff, served, short>>

\* The provider stops at its cap without saying so.
CappedAnswer(r) ==
    /\ Reading(r) /\ Asked(r).atLeast < 0
    /\ \E events \in SUBSET Events(Asked(r).from, Asked(r).to) :
           /\ Cardinality(events) = LogLimit
           /\ IF MayBeCut(LogLimit)
              THEN Crowded(r, LogLimit) /\ UNCHANGED <<head, disc, backoff, served, short>>
              ELSE Accept(r, events, FALSE)

\* A refusal as too large: warranted when the range holds so many logs, of any range
\* while the provider is at fault.
TooLargeAnswer(r) ==
    /\ Reading(r) /\ Asked(r).atLeast < 0
    /\ outage \/ MayBeCut(Cardinality(Events(Asked(r).from, Asked(r).to)))
    /\ Crowded(r, 0)
    /\ UNCHANGED <<head, disc, backoff, served, short>>

\* A lagging node leaves logs out of an answer below the cap, or of receipts.
ShortAnswer(r) ==
    /\ Reading(r) /\ short < MaxShort
    /\ \E events \in SUBSET Events(Asked(r).from, Asked(r).to) :
           /\ events # Events(Asked(r).from, Asked(r).to)
           /\ IF Asked(r).atLeast >= 0 THEN Cardinality(events) >= Asked(r).atLeast
              ELSE ~MayBeCut(Cardinality(events))
           /\ Accept(r, events, TRUE)

\* An outage, a malformed log, a log outside the filter: the load fails, what it committed stays.
FailedRead(r) ==
    /\ outage /\ load[r].pc \in {"asOf", "scanning", "onchain"}
    /\ End(r)
    /\ UNCHANGED <<head, disc, backoff, served, short>>

\* A whole chunk is committed, unless another load dropped the discovery meanwhile;
\* past the deadline the load answers "still indexing" and keeps its progress.
Commit(r) ==
    /\ load[r].pc = "scanning" /\ load[r].todo = <<>>
    /\ LET grown == disc.wallets \union load[r].got
           ld    == NextChunk(load[r], load[r].to, grown)
       IN  IF Cardinality(grown) > MaxParticipants \/ ~disc.live \/ disc.gen # load[r].gen
           THEN End(r) /\ UNCHANGED disc
           ELSE /\ disc' = [disc EXCEPT !.wallets = grown, !.scannedTo = load[r].to,
                                        !.short = @ \/ load[r].cut]
                /\ IF ld.pc = "scanning" /\ load[r].left < 0 THEN End(r)
                   ELSE load' = [load EXCEPT ![r] = ld] /\ queue' = Leave(r, ld)
    /\ UNCHANGED <<head, backoff, served, short>>

(* ------------------------- proof and publication ------------------------- *)

\* The tracked balances of the wallets read must add up to the PointsModule's totals.
TotalsMatch(r) == Held[load[r].asOf] \subseteq load[r].seen


AnyDiscovery(r) == disc.live                                               \* mutant
SameDiscovery(r) == disc.live /\ disc.gen = load[r].gen

Publish(r) ==
    /\ load[r].pc = "onchain" /\ TotalsMatch(r)
    /\ served' = [asOf |-> load[r].asOf, wallets |-> load[r].seen]
    /\ End(r)
    /\ UNCHANGED <<head, disc, backoff, short>>

\* A discovery that fails the proof, or whose proof is answered with the wrong number of
\* results, is dropped unless another has replaced it, and may be rebuilt after the backoff.
Dropped == [disc EXCEPT !.live = FALSE, !.scannedTo = 0, !.wallets = {}, !.short = FALSE]

ProofFails(r) ==
    /\ load[r].pc = "onchain"
    /\ (outage /\ disc.gen <= MaxDrops) \/ ~TotalsMatch(r)
    /\ IF SameDiscovery(r) THEN disc' = Dropped /\ backoff' = Backoff
       ELSE UNCHANGED <<disc, backoff>>
    /\ End(r)
    /\ UNCHANGED <<head, served, short>>

(* ----------------------------- environment ----------------------------- *)

Finalize ==
    /\ head < Tip /\ head' = head + 1
    /\ UNCHANGED <<disc, backoff, queue, load, served, short>>

Tick ==
    /\ backoff' = IF backoff > 0 THEN backoff - 1 ELSE 0
    /\ load' = [r \in Loads |-> IF load[r].pc = "idle" \/ load[r].left < 0 THEN load[r]
                                ELSE [load[r] EXCEPT !.left = @ - 1]]
    /\ UNCHANGED <<head, disc, queue, served, short>>

\* What the process itself does; the provider answers every question, truthfully or not.
Progress(r) ==
    \/ Start(r) \/ ReadBlock(r) \/ NothingFinalized(r) \/ Extend(r) \/ Rebuilding(r)
    \/ WholeAnswer(r) \/ CappedAnswer(r) \/ TooLargeAnswer(r) \/ Commit(r) \/ Publish(r) \/ ProofFails(r)

OutageEnds ==
    /\ outage /\ outage' = FALSE
    /\ UNCHANGED <<head, disc, backoff, queue, load, served, short>>

Next ==
    /\ (\E r \in Loads : Progress(r) \/ ShortAnswer(r) \/ FailedRead(r)) \/ Finalize \/ Tick
    /\ UNCHANGED outage

Spec == Init /\ [][Next]_vars

\* Requests keep coming, time passes and the outage ends, and with it the refusals of
\* ranges that hold few logs: a provider that refused those for ever would exhaust the
\* splits of every load. Crowded ranges and blocks stay capped and refused.
FairSpec ==
    /\ Init /\ [][Next \/ OutageEnds]_vars
    /\ WF_vars(Finalize /\ UNCHANGED outage) /\ WF_vars(Tick /\ UNCHANGED outage)
    /\ WF_vars(OutageEnds) /\ \A r \in Loads : WF_vars(Progress(r) /\ UNCHANGED outage)

(* ------------------------------ properties ------------------------------ *)

\* Types of the variables and of the loads' locals.
TypeOK ==
    /\ head \in (Deployment - 1) .. Tip /\ backoff \in 0 .. Backoff /\ short \in 0 .. MaxShort /\ outage \in BOOLEAN
    /\ disc.live \in BOOLEAN /\ disc.gen \in Nat /\ disc.scannedTo \in 0 .. head
    /\ disc.wallets \subseteq Wallets /\ disc.short \in BOOLEAN
    /\ \A r \in Loads :
         /\ load[r].pc \in {"idle", "asOf", "queued", "scanning", "onchain"}
         /\ load[r].asOf \in 0 .. head /\ load[r].left \in -1 .. Budget
         /\ load[r].seen \subseteq Wallets /\ load[r].got \subseteq Wallets
    /\ \A i \in 1 .. Len(queue) : queue[i] \in Loads

\* Unless an answer was silently shortened, a board also carries every wallet that
\* has exited: a cap, a refusal, a split or an outage never loses one.
NoOneMissed == served.asOf > 0 /\ short = 0 => NamedTo(served.asOf) \subseteq served.wallets

\* The discovery is a progressive index of the wallets each block names: what it says
\* it has scanned it has, no load undoes another's progress, and a failed proof forgets it all.
Index == INSTANCE ProgressiveIndex
            WITH FirstBlock <- Deployment, LastBlock <- Tip, Facts <- Named,
                 upTo <- IF disc.scannedTo = 0 THEN Deployment - 1 ELSE disc.scannedTo,
                 known <- disc.wallets, sound <- ~disc.short
ImplementsIndex == Index!Spec

\* A proof that fails on an old discovery never costs the one that has replaced it:
\* a live discovery is only given up by a load that read its wallets.
NewerSurvives ==
    [][disc.live /\ ~(disc'.live /\ disc'.gen = disc.gen) => \E r \in Loads :
         load[r].pc = "onchain" /\ load[r].gen = disc.gen]_vars

\* A cold process converges: requests too short to index the chain each keep a
\* chunk, and a discovery spoilt by a short answer is rebuilt.
Converged == served.asOf = Tip
Converges == <>Converged
=============================================================================
