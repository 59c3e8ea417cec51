--------------------------- MODULE MorphoHistory ---------------------------
(***************************************************************************)
(* The mirror of Morpho collateral points                                  *)
(* (frontend/src/lib/morphoPoints.server.ts and morphoPoints.ts): a        *)
(* process-wide history of rate epochs and collateral events, extended in  *)
(* chunks through an RPC provider that may leave logs out, lag or fail,    *)
(* replayed into a snapshot, and served per wallet or for the leaderboard. *)
(* The maturity ramp is abstracted: a unit of collateral earns the epoch's *)
(* rate for each block it is held.                                         *)
(***************************************************************************)
EXTENDS Integers, Sequences, FiniteSets, SequencesExt

CONSTANTS Requests, Owners, Asker,    \* [Requests -> SUBSET of owners and the leaderboard]: who may ask
          Board,             \* the requester that asks for every owner at once
          From, Deployment,  \* the market's creation block; protocolDeploymentBlock
          Tip,               \* the last block of the run
          Changes,           \* set of [block, owner, delta]: at most one of an owner a block
          RateOf,            \* [epoch blocks -> rate]
          Chunk, ZeroGrid,   \* BLOCK_CHUNK, ZERO_HELD_GRID_CHUNKS
          MaxChunks,         \* MAX_CHUNKS_PER_REQUEST
          Budget, Backoff, MaxLag,
          MaxGen, MaxShort   \* bounds: rebuilds, answers with a log left out

EpochBlocks == DOMAIN RateOf

HistoryOK ==
    /\ {From, Deployment, Tip, Chunk, ZeroGrid, MaxChunks, MaxGen} \subseteq Nat \ {0}
    /\ Deployment <= From /\ From <= Tip /\ Deployment \in EpochBlocks
    /\ {Budget, Backoff, MaxLag, MaxShort} \subseteq Nat
    /\ Asker \in [Requests -> SUBSET (Owners \union {Board})]
    /\ \A c \in Changes : c.block \in From .. Tip /\ c.owner \in Owners

Sum(f(_), S) == MapThenFoldSet(LAMBDA x, y : x + y, 0, f, LAMBDA T : CHOOSE t \in T : TRUE, S)

\* Collateral and points, from a set of changes and a set of epochs.
HeldBy(changes, o, b) == Sum(LAMBDA c : c.delta, {c \in changes : c.owner = o /\ c.block <= b})
RateAt(b) == RateOf[CHOOSE e \in EpochBlocks : e <= b /\ \A f \in EpochBlocks : f <= b => f <= e]
\* The blocks before asOf that an epoch's rate covers.
SpanFromNext(epochs, e, asOf) ==                                            \* mutant
    {b \in From .. asOf - 1 : e < b /\ ~\E f \in epochs : e < f /\ f <= b}
Span(epochs, e, asOf) == {b \in From .. asOf - 1 : e <= b /\ ~\E f \in epochs : e < f /\ f <= b}
PointsBy(changes, epochs, o, asOf) ==
    Sum(LAMBDA e : RateOf[e] * Sum(LAMBDA b : HeldBy(changes, o, b), Span(epochs, e, asOf)), epochs)

\* The reference: what Morpho Blue holds, and what each block held earns.
TrueCollateral(o, b) == HeldBy(Changes, o, b)
TruePoints(o, asOf) == Sum(LAMBDA b : TrueCollateral(o, b) * RateAt(b), From .. asOf - 1)

VARIABLES head, objs, current, backoff, queue, inflight, req, answer, short, blunder, outage

vars == <<head, objs, current, backoff, queue, inflight, req, answer, short, blunder, outage>>
(* objs     [gen -> History]: every History object made, so that a dropped one lives on
            in the build and the snapshots that still hold it
   current  `history`: a gen, 0 for null
   queue    the promise queue: the requests whose builds run, first one running
   inflight `inflight`: the request whose build it is and its target, by "none" if null
   answer   the last answer given (history variable)
   outage   reads may fail (until they no longer do)
   blunder  a provider's answer was wrong since the current history began (history variable) *)

NoSnap == [asOf |-> 0, owners |-> {}, points |-> [o \in Owners |-> 0],
           collateral |-> [o \in Owners |-> 0], gen |-> 0]
EmptyHistory == [changes |-> {}, scannedTo |-> 0, epochs |-> {}, epochsScannedTo |-> 0,
                 epochsVerifiedTo |-> 0, owners |-> <<>>, snap |-> NoSnap]
NoFlight == [by |-> "none", target |-> 0]
Idle == [pc |-> "idle", who |-> Board, asOf |-> 0, left |-> 0, leader |-> "none", stage |-> "none",
         gen |-> 0, chunks |-> 0, reconciled |-> 0, snap |-> NoSnap]
NoAnswer == [who |-> Board, asOf |-> 0, points |-> [o \in Owners |-> 0]]

AtRest ==
    /\ objs = <<>> /\ current = 0 /\ inflight = NoFlight /\ blunder = FALSE
    /\ req = [r \in Requests |-> Idle] /\ answer = NoAnswer

Init ==
    /\ head = From - 1 /\ backoff = 0 /\ queue = <<>> /\ short = 0 /\ outage = TRUE
    /\ AtRest

(* --------------------------- a request arrives --------------------------- *)

Start(r, who) ==
    /\ req[r].pc = "idle"
    /\ req' = [req EXCEPT ![r] = [Idle EXCEPT !.pc = "head", !.who = who, !.left = Budget]]
    /\ UNCHANGED <<head, objs, current, backoff, queue, inflight, answer, short, blunder>>

\* snapshotAt: the current snapshot if it is new enough, else a build in flight for
\* this block or a newer one, else a build of its own at the end of the queue.
Current == IF current = 0 THEN NoSnap ELSE objs[current].snap
CoveredNever(b) == FALSE                                                    \* mutant
Covered(b) == current # 0 /\ Current.asOf >= b

ReadHead(r) ==
    /\ req[r].pc = "head"
    /\ \E b \in (head - MaxLag) .. head :
         /\ b >= From
         /\ IF Covered(b)
            THEN req' = [req EXCEPT ![r].pc = "check", ![r].snap = Current] /\ UNCHANGED <<queue, inflight>>
            ELSE IF inflight.by # "none" /\ inflight.target >= b
            THEN req' = [req EXCEPT ![r].pc = "wait", ![r].leader = inflight.by] /\ UNCHANGED <<queue, inflight>>
            ELSE /\ req' = [req EXCEPT ![r].pc = "wait", ![r].leader = r, ![r].asOf = b]
                 /\ queue' = Append(queue, r)
                 /\ inflight' = [by |-> r, target |-> b]
    /\ UNCHANGED <<head, objs, current, backoff, answer, short, blunder>>

NotFinalized(r) ==
    /\ req[r].pc = "head" /\ head < From
    /\ req' = [req EXCEPT ![r] = Idle]
    /\ UNCHANGED <<head, objs, current, backoff, queue, inflight, answer, short, blunder>>

(* ------------------------------- a build ------------------------------- *)

Running(r, stage) == queue # <<>> /\ Head(queue) = r /\ req[r].stage = stage
Waiters(r) == {q \in Requests : req[q].pc = "wait" /\ req[q].leader = r}

\* The build settles: everyone who shares it resumes with its snapshot or its error.
Settle(r, snap) ==
    /\ queue' = Tail(queue)
    /\ inflight' = IF inflight.by = r THEN NoFlight ELSE inflight
    /\ req' = [q \in Requests |->
                 IF q \notin Waiters(r) THEN req[q]
                 ELSE IF snap = NoSnap THEN Idle
                 ELSE [req[q] EXCEPT !.pc = "check", !.snap = snap, !.stage = "none", !.leader = "none"]]

NotReady(r) == Settle(r, NoSnap) /\ UNCHANGED <<head, objs, current, backoff, answer, short, blunder>>

\* dropHistory: an integrity failure drops the history it arose in, unless a newer one replaced it.
DropAny(gen) == current' = 0 /\ backoff' = Backoff                          \* mutant
Drop(gen) == IF current = gen THEN current' = 0 /\ backoff' = Backoff ELSE UNCHANGED <<current, backoff>>

Refuse(r, wrong) ==
    /\ Settle(r, NoSnap) /\ Drop(req[r].gen) /\ blunder' = (blunder \/ wrong)
    /\ UNCHANGED <<head, objs, answer, short>>

\* historyFor, then the snapshot again, then the market and ledger wiring.
BuildStart(r) ==
    /\ Running(r, "none")
    /\ IF current = 0 /\ backoff > 0 THEN NotReady(r)
       ELSE IF Covered(req[r].asOf)
       THEN Settle(r, Current) /\ UNCHANGED <<head, objs, current, backoff, answer, short, blunder>>
       ELSE /\ current = 0 => Len(objs) < MaxGen
            /\ objs' = IF current = 0 THEN Append(objs, EmptyHistory) ELSE objs
            /\ current' = IF current = 0 THEN Len(objs) + 1 ELSE current
            /\ req' = [req EXCEPT ![r].stage = "epochs", ![r].gen = current', ![r].chunks = 0]
            /\ blunder' = (current # 0 /\ blunder)
            /\ UNCHANGED <<head, backoff, queue, inflight, answer, short>>

Mine(r) == objs[req[r].gen]
Later(from, size, to) == IF from + size - 1 < to THEN from + size - 1 ELSE to

\* Past the deadline, or past the chunks one request may read, a scan stops; it always reads one.
OutOfTimeAtOnce(r) == req[r].chunks >= MaxChunks \/ req[r].left < 0           \* mutant
OutOfTime(r) == req[r].chunks >= MaxChunks \/ (req[r].chunks > 0 /\ req[r].left < 0)

\* What the provider returns for a question: the truth, or, while it may, a part of it.
Answered(truth, got) == got \subseteq truth /\ (got = truth \/ short < MaxShort)
Left(truth, got) == short' = IF got = truth THEN short ELSE short + 1

EpochFrom(h) == IF h.epochsScannedTo = 0 THEN Deployment ELSE h.epochsScannedTo + 1

\* One chunk of rate epochs: their indices must go on where the history ends.
Contiguous(h, got) ==
    \A e \in got : Cardinality({f \in EpochBlocks : f < e})
                     = Cardinality(h.epochs) + Cardinality({f \in got : f < e})

EpochChunk(r) ==
    /\ Running(r, "epochs") /\ EpochFrom(Mine(r)) <= req[r].asOf
    /\ IF OutOfTime(r) THEN NotReady(r)
       ELSE LET h     == Mine(r)
                from  == EpochFrom(h)
                to    == Later(from, Chunk, req[r].asOf)
                truth == EpochBlocks \cap (from .. to)
            IN  \E got \in SUBSET truth :
                  /\ Answered(truth, got)
                  /\ IF ~Contiguous(h, got)
                     THEN /\ Settle(r, NoSnap) /\ Drop(req[r].gen) /\ blunder' = TRUE
                          /\ Left(truth, got) /\ UNCHANGED <<head, objs, answer>>
                     ELSE /\ objs' = [objs EXCEPT ![req[r].gen].epochs = @ \union got,
                                                  ![req[r].gen].epochsScannedTo = to]
                          /\ req' = [req EXCEPT ![r].chunks = @ + 1]
                          /\ Left(truth, got) /\ blunder' = (blunder \/ got # truth)
                          /\ UNCHANGED <<head, current, backoff, queue, inflight, answer>>

\* The count is checked whenever the verified boundary trails the scanned one,
\* also when this build scanned nothing (MORPHO-32).
CountDueIfScanned(r) == req[r].chunks > 0                                   \* mutant
CountDue(r) == Mine(r).epochsVerifiedTo < Mine(r).epochsScannedTo

EpochCount(r) ==
    /\ Running(r, "epochs") /\ EpochFrom(Mine(r)) > req[r].asOf
    /\ LET h == Mine(r)
       IN  IF CountDue(r) /\ Cardinality(h.epochs) # Cardinality({e \in EpochBlocks : e <= h.epochsScannedTo})
           THEN Refuse(r, TRUE)
           ELSE /\ objs' = [objs EXCEPT ![req[r].gen].epochsVerifiedTo =
                                IF CountDue(r) THEN h.epochsScannedTo ELSE @]
                /\ req' = [req EXCEPT ![r].stage = "collateral", ![r].chunks = 0, ![r].reconciled = 0]
                /\ UNCHANGED <<head, current, backoff, queue, inflight, answer, short, blunder>>

CollateralFrom(h) == IF h.scannedTo = 0 THEN From ELSE h.scannedTo + 1

\* One chunk of collateral events, ending on the market's own grid. Nothing may be
\* removed that was not supplied, and before it is committed every owner it touched
\* or holds non-zero, and a share of those held at zero, is compared with Morpho Blue.
NewOwners(h, got) ==
    LET fresh == {o \in Owners : (\E c \in got : c.owner = o) /\ ~\E i \in DOMAIN h.owners : h.owners[i] = o}
        first(o) == CHOOSE b \in From .. Tip : \E c \in got : c.block = b /\ c.owner = o
                                                 /\ \A d \in got : d.owner = o => b <= d.block
    IN  h.owners \o SetToSortSeq(fresh, LAMBDA x, y : first(x) < first(y))

Due(owners, changes, got, chunk, to) ==
    {o \in Owners : \E i \in DOMAIN owners : owners[i] = o
        /\ \/ \E c \in got : c.owner = o
           \/ HeldBy(changes, o, to) # 0
           \/ (i - 1) % ZeroGrid = chunk % ZeroGrid}

CollateralChunk(r) ==
    /\ Running(r, "collateral") /\ CollateralFrom(Mine(r)) <= req[r].asOf
    /\ IF OutOfTime(r) THEN NotReady(r)
       ELSE LET h     == Mine(r)
                from  == CollateralFrom(h)
                chunk == (from - From) \div Chunk + 1
                end   == From + chunk * Chunk - 1
                to    == IF end < req[r].asOf THEN end ELSE req[r].asOf
                truth == {c \in Changes : c.block \in from .. to}
            IN  \E got \in SUBSET truth :
                  LET all    == h.changes \union got
                      owners == NewOwners(h, got)
                      sound  == /\ \A c \in got : HeldBy(all, c.owner, c.block) >= 0
                                /\ \A o \in Due(owners, all, got, chunk, to) : HeldBy(all, o, to) = TrueCollateral(o, to)
                  IN  /\ Answered(truth, got)
                      /\ IF ~sound
                         THEN /\ Settle(r, NoSnap) /\ Drop(req[r].gen) /\ blunder' = TRUE
                              /\ Left(truth, got) /\ UNCHANGED <<head, objs, answer>>
                         ELSE /\ objs' = [objs EXCEPT ![req[r].gen].changes = all,
                                                      ![req[r].gen].owners = owners,
                                                      ![req[r].gen].scannedTo = to]
                              /\ req' = [req EXCEPT ![r].chunks = @ + 1, ![r].reconciled = to]
                              /\ Left(truth, got) /\ blunder' = (blunder \/ got # truth)
                              /\ UNCHANGED <<head, current, backoff, queue, inflight, answer>>

\* replayCollateralPoints at the build's block, refusing any event after it, and the
\* final comparison unless the last chunk was reconciled at this very block.
EventsAfter(h, asOf) == \E c \in h.changes : c.block > asOf
ReplaySound(r) ==
    LET h == Mine(r)
    IN  /\ ~EventsAfter(h, req[r].asOf)
        /\ \/ req[r].reconciled = req[r].asOf
           \/ \A i \in DOMAIN h.owners :
                HeldBy(h.changes, h.owners[i], req[r].asOf) = TrueCollateral(h.owners[i], req[r].asOf)

Replay(r) ==
    /\ Running(r, "collateral") /\ CollateralFrom(Mine(r)) > req[r].asOf
    /\ LET h    == Mine(r)
           asOf == req[r].asOf
           snap == [asOf |-> asOf, gen |-> req[r].gen, owners |-> {c.owner : c \in h.changes},
                    points |-> [o \in Owners |-> PointsBy(h.changes, h.epochs, o, asOf)],
                    collateral |-> [o \in Owners |-> HeldBy(h.changes, o, asOf)]]
       IN  IF ~ReplaySound(r) THEN Refuse(r, FALSE)
           ELSE /\ objs' = [objs EXCEPT ![req[r].gen].snap = snap]
                /\ Settle(r, snap)
                /\ UNCHANGED <<head, current, backoff, answer, short, blunder>>

\* A transport error: the build fails, what it committed stays.
BuildFails(r) ==
    /\ outage /\ queue # <<>> /\ Head(queue) = r /\ req[r].stage # "none"
    /\ NotReady(r)

(* ------------------------------ the answer ------------------------------ *)

\* The wallet's own position, or every owner's the replay has seen, at the
\* snapshot's block, whatever became of the history since.
Compared(r) == IF req[r].who = Board THEN req[r].snap.owners ELSE {req[r].who}
Agrees(r) == \A o \in Compared(r) : req[r].snap.collateral[o] = TrueCollateral(o, req[r].snap.asOf)

Answer(r) ==
    /\ req[r].pc = "check"
    /\ IF Agrees(r)
       THEN /\ answer' = [who |-> req[r].who, asOf |-> req[r].snap.asOf, points |-> req[r].snap.points]
            /\ UNCHANGED <<current, backoff, blunder>>
       ELSE Drop(req[r].snap.gen) /\ UNCHANGED <<answer, blunder>>
    /\ req' = [req EXCEPT ![r] = Idle]
    /\ UNCHANGED <<head, objs, queue, inflight, short>>

ReadFails(r) ==
    /\ outage /\ req[r].pc \in {"head", "check"}
    /\ req' = [req EXCEPT ![r] = Idle]
    /\ UNCHANGED <<head, objs, current, backoff, queue, inflight, answer, short, blunder>>

(* ----------------------- what an owner is credited ----------------------- *)

\* A wallet's status at the snapshot's block.
Status == [exempt : BOOLEAN, blocked : BOOLEAN, overtracked : BOOLEAN]
Withheld == -1
WalletCredit(known, points, s) ==
    IF s.exempt \/ s.blocked THEN 0
    ELSE IF known /\ s.overtracked THEN Withheld ELSE points
BoardCredit(points, s) ==
    IF s.exempt \/ s.blocked THEN 0 ELSE IF s.overtracked THEN Withheld ELSE points

(* ------------------------------ environment ------------------------------ *)

Finalize ==
    /\ head < Tip /\ head' = head + 1
    /\ UNCHANGED <<objs, current, backoff, queue, inflight, req, answer, short, blunder>>

Tick ==
    /\ backoff' = IF backoff > 0 THEN backoff - 1 ELSE 0
    /\ req' = [r \in Requests |-> IF req[r].pc = "idle" \/ req[r].left < 0 THEN req[r]
                                  ELSE [req[r] EXCEPT !.left = @ - 1]]
    /\ UNCHANGED <<head, objs, current, queue, inflight, answer, short, blunder>>

OutageEnds == outage /\ outage' = FALSE /\ UNCHANGED <<head, objs, current, backoff, queue, inflight, req, answer, short, blunder>>

Progress(r) ==
    \/ \E who \in Asker[r] : Start(r, who)
    \/ ReadHead(r) \/ NotFinalized(r) \/ BuildStart(r) \/ EpochChunk(r) \/ EpochCount(r)
    \/ CollateralChunk(r) \/ Replay(r) \/ Answer(r)

Failure(r) == BuildFails(r) \/ ReadFails(r)

Next ==
    /\ (\E r \in Requests : Progress(r) \/ Failure(r)) \/ Finalize \/ Tick
    /\ UNCHANGED outage

Spec == Init /\ [][Next]_vars

\* Reads fail now and then for as long as the outage lasts; it ends.
FairSpec ==
    /\ Init /\ [][Next \/ OutageEnds]_vars
    /\ WF_vars(Finalize /\ UNCHANGED outage) /\ WF_vars(Tick /\ UNCHANGED outage)
    /\ WF_vars(OutageEnds) /\ \A r \in Requests : WF_vars(Progress(r) /\ UNCHANGED outage)

(* ------------------------------ properties ------------------------------ *)

TypeOK ==
    /\ head \in (From - 1) .. Tip /\ current \in 0 .. Len(objs) /\ Len(objs) <= MaxGen
    /\ outage \in BOOLEAN /\ backoff \in 0 .. Backoff /\ short \in 0 .. MaxShort /\ blunder \in BOOLEAN
    /\ \A g \in DOMAIN objs :
         /\ objs[g].changes \subseteq Changes /\ objs[g].epochs \subseteq EpochBlocks
         /\ objs[g].epochsVerifiedTo <= objs[g].epochsScannedTo
         /\ objs[g].epochsScannedTo <= head /\ objs[g].scannedTo <= head
         /\ \A o \in Owners : objs[g].snap.points[o] >= 0
    /\ \A r \in Requests : req[r].pc \in {"idle", "head", "wait", "check"} /\ req[r].left \in -1 .. Budget
    /\ inflight.by # "none" => inflight.by \in Requests

\* A withdrawal and a later supply within one chunk: both left out, they are missing at
\* no chunk's end, a residual extendCollateral accepts.
Rebounds(o) ==
    \E c, d \in Changes :
        /\ c.owner = o /\ d.owner = o /\ c.delta < 0 /\ d.delta > 0
        /\ c.block < d.block /\ (c.block - From) \div Chunk = (d.block - From) \div Chunk

\* No answer credits anyone with more than they earned, although the provider may have
\* left logs of a position or of a rate cut out of an answer, but for that residual.
Shown(o) == answer.asOf > 0 /\ answer.who \in {o, Board}
NeverOverAwards ==
    \A o \in Owners : Shown(o) /\ ~Rebounds(o) => answer.points[o] <= TruePoints(o, answer.asOf)

\* A provider that only fails, lags or answers late never makes an answer wrong.
ExactWhenHonest == short = 0 => \A o \in Owners : Shown(o) => answer.points[o] = TruePoints(o, answer.asOf)

\* Within one history, snapshots never go back, whichever node answered the head.
SnapshotsAdvance ==
    [][current # 0 /\ current' = current => objs[current].snap.asOf <= objs'[current].snap.asOf]_vars

\* A check made on an old snapshot never costs the history that has replaced it.
NewerSurvives ==
    [][current # 0 /\ current' # current => \E r \in Requests :
         (req[r].gen = current /\ Waiters(r) # {}) \/ req[r].snap.gen = current]_vars

\* The current history holds two progressive indexes, of rate epochs and of collateral
\* events: both only grow, skip no block and are whole while no answer was wrong.
Epochs == INSTANCE ProgressiveIndex
            WITH FirstBlock <- Deployment, LastBlock <- Tip,
                 Facts <- [b \in Deployment .. Tip |-> EpochBlocks \cap {b}],
                 upTo <- IF current = 0 \/ objs[current].epochsScannedTo = 0
                         THEN Deployment - 1 ELSE objs[current].epochsScannedTo,
                 known <- IF current = 0 THEN {} ELSE objs[current].epochs,
                 sound <- current = 0 \/ ~blunder
Collateral == INSTANCE ProgressiveIndex
            WITH FirstBlock <- From, LastBlock <- Tip,
                 Facts <- [b \in From .. Tip |-> {c \in Changes : c.block = b}],
                 upTo <- IF current = 0 \/ objs[current].scannedTo = 0 THEN From - 1 ELSE objs[current].scannedTo,
                 known <- IF current = 0 THEN {} ELSE objs[current].changes,
                 sound <- current = 0 \/ ~blunder
ImplementsIndex == Epochs!Spec /\ Collateral!Spec

\* The wallet's answer and the leaderboard credit an owner alike, in every status.
CreditsAgree ==
    \A o \in Owners, s \in Status :
        WalletCredit(TRUE, answer.points[o], s) = BoardCredit(answer.points[o], s)

\* A cold process converges although a request reads no more than a chunk in time.
Converged == answer.asOf = Tip
Converges == <>Converged

\* A history is dropped only when some answer was wrong: a build at a head below
\* what a stopped build committed reads positions at that head instead (REQUEST_BUDGET_MS).
DroppedOnlyWhenWrong == [][current # 0 /\ current' = 0 => blunder']_vars
=============================================================================
