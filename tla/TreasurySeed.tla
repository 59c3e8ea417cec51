---------------------------- MODULE TreasurySeed ----------------------------
(***************************************************************************)
(* The treasury's one seed of the Morpho market, proposed from the Safe app *)
(* (frontend/src/components/app/MorphoMarketSurface.tsx submit,             *)
(* lib/morphoTreasury.ts): several tabs of one browser share the record in  *)
(* localStorage, the Safe's service keeps the proposals and the chain       *)
(* executes them in the order of the Safe's nonce.  Each await of a tab is  *)
(* a step of its own; a record is read and written within one.              *)
(***************************************************************************)
EXTENDS Integers, Sequences, FiniteSets

CONSTANTS Tabs,
          MaxProposals, MaxNonce      \* bounds: proposals made, Safe transactions executed

VARIABLES record,      \* the saved TreasuryProposal, or none
          tabs,        \* submit of each tab, with what it read
          clearing,    \* clearResolvedTreasuryProposal of each tab, with the record it saw
          queue,       \* proposals of the seed the Safe's service holds
          safeNonce,   \* transactions the Safe has executed
          overtaken    \* history: executed proposals whose record was cleared all the same

seedVars == <<record, tabs, clearing, queue, safeNonce, overtaken>>

NoRecord == [nonce |-> -1, hash |-> 0]
NoJob == [pc |-> "none", nonce |-> -1, seeded |-> FALSE, intent |-> NoRecord, hash |-> 0]
NoClear == [pc |-> "none", saw |-> NoRecord]

SeedInit ==
    /\ record = NoRecord /\ queue = <<>> /\ safeNonce = 0 /\ overtaken = {}
    /\ tabs = [t \in Tabs |-> NoJob] /\ clearing = [t \in Tabs |-> NoClear]

Seeded == \E p \in DOMAIN queue : queue[p].fate = "executed"
Job(t, job) == tabs' = [tabs EXCEPT ![t] = job]
At(t, pc) == tabs[t].pc = pc
Ends(t) == Job(t, NoJob)

(* -------------------------------- submit -------------------------------- *)

\* The button, on a proposal status that may be out of date.
Submit(t) ==
    /\ At(t, "none") /\ Job(t, [NoJob EXCEPT !.pc = "reading"])
    /\ UNCHANGED <<record, clearing, queue, safeNonce, overtaken>>

\* readMorphoMarket: the Safe's nonce and the seeds supplied up to that block.
Reads(t) ==
    /\ At(t, "reading")
    /\ Job(t, [tabs[t] EXCEPT !.pc = "history", !.nonce = safeNonce, !.seeded = Seeded])
    /\ UNCHANGED <<record, clearing, queue, safeNonce, overtaken>>

\* The record is looked up, then assertNoTreasurySupply reads the history up to that block.
ChecksHistory(t) ==
    /\ At(t, "history")
    /\ IF record # NoRecord \/ tabs[t].seeded THEN Ends(t) ELSE Job(t, [tabs[t] EXCEPT !.pc = "nonce"])
    /\ UNCHANGED <<record, clearing, queue, safeNonce, overtaken>>

\* The batch is simulated, the Safe is asked what it is and its nonce read once more.
ChecksNonce(t) ==
    /\ At(t, "nonce")
    /\ IF safeNonce # tabs[t].nonce THEN Ends(t) ELSE Job(t, [tabs[t] EXCEPT !.pc = "reserve"])
    /\ UNCHANGED <<record, clearing, queue, safeNonce, overtaken>>

\* A request fails, the simulation refuses, the quote has expired.
SubmitFails(t) ==
    /\ tabs[t].pc \in {"reading", "history", "nonce", "reserve"} /\ Ends(t)
    /\ UNCHANGED <<record, clearing, queue, safeNonce, overtaken>>

\* reserveTreasuryProposal: the intent is saved before the Safe is asked.
Reserve(t, job) == record' = [nonce |-> job.nonce, hash |-> 0] /\ Job(t, [job EXCEPT !.pc = "asked", !.intent = record'])
ReservesBlindly(t) ==                                                      \* mutant
    At(t, "reserve") /\ Reserve(t, tabs[t]) /\ UNCHANGED <<clearing, queue, safeNonce, overtaken>>
Reserves(t) ==
    /\ At(t, "reserve")
    /\ IF record # NoRecord THEN Ends(t) /\ UNCHANGED record ELSE Reserve(t, tabs[t])
    /\ UNCHANGED <<clearing, queue, safeNonce, overtaken>>

\* The Safe queues the batch behind what it holds; the quote may expire before it is asked.
Proposal(nonce) == [nonce |-> nonce, fate |-> "queued", deleted |-> FALSE]
Proposes(t) ==
    /\ At(t, "asked") /\ Len(queue) < MaxProposals
    /\ \E ahead \in 0..1 : queue' = Append(queue, Proposal(safeNonce + ahead))
    /\ \/ Job(t, [tabs[t] EXCEPT !.pc = "answered", !.hash = Len(queue) + 1])
       \/ Ends(t)                                    \* the reply is lost, or the tab is gone
    /\ UNCHANGED <<record, clearing, safeNonce, overtaken>>

Declines(t) ==
    /\ At(t, "asked") /\ Ends(t)
    /\ UNCHANGED <<record, clearing, queue, safeNonce, overtaken>>

\* saveTreasuryProposal.
Saves(t) ==
    /\ At(t, "answered") /\ Ends(t)
    /\ record' = IF record = tabs[t].intent THEN [record EXCEPT !.hash = tabs[t].hash] ELSE record
    /\ UNCHANGED <<clearing, queue, safeNonce, overtaken>>

(* --------------------------- clearing a record --------------------------- *)

\* What the service says: a deleted proposal is cancelled, although its signatures still serve.
Status(p) == CASE p.fate = "executed" -> "SUCCESS" [] p.fate = "failed" -> "FAILED"
               [] p.fate = "replaced" -> "CANCELLED"
               [] p.fate = "queued"   -> IF p.deleted THEN "CANCELLED" ELSE "AWAITING"
Terminal(p) == Status(p) \in {"CANCELLED", "FAILED"}

Clears(t, look) == clearing' = [clearing EXCEPT ![t] = look]
Looked(t, pc) == [pc |-> pc, saw |-> clearing[t].saw]

\* The button, offered by an earlier poll, of an earlier record perhaps: that one was found obsolete,
\* so the nonce of some proposal has been consumed.  treasuryProposalState takes the record.
ClearOffered == \E p \in DOMAIN queue : safeNonce > queue[p].nonce
ClearStarts(t) ==
    /\ clearing[t].pc = "none" /\ At(t, "none") /\ record.hash # 0 /\ ClearOffered
    /\ Clears(t, [pc |-> "status", saw |-> record])
    /\ UNCHANGED <<record, tabs, queue, safeNonce, overtaken>>

\* The service's answer ends it unless it is terminal.
ReadsStatus(t) ==
    /\ clearing[t].pc = "status"
    /\ Clears(t, IF Terminal(queue[clearing[t].saw.hash]) THEN Looked(t, "nonce") ELSE NoClear)
    /\ UNCHANGED <<record, tabs, queue, safeNonce, overtaken>>

\* Only then is the chain asked whether its nonce was consumed: what the service said may be out of
\* date, and a deleted proposal executed meanwhile.
ReadsNonce(t) ==
    /\ clearing[t].pc = "nonce"
    /\ Clears(t, IF safeNonce > queue[clearing[t].saw.hash].nonce THEN Looked(t, "checked") ELSE NoClear)
    /\ UNCHANGED <<record, tabs, queue, safeNonce, overtaken>>

\* A request fails or takes too long.
ClearFails(t) ==
    /\ clearing[t].pc \in {"status", "nonce"} /\ Clears(t, NoClear)
    /\ UNCHANGED <<record, tabs, queue, safeNonce, overtaken>>

\* The record goes if it is the one that was taken.
ClearEnds(t) ==
    /\ clearing[t].pc = "checked" /\ Clears(t, NoClear)
    /\ IF record = clearing[t].saw
       THEN record' = NoRecord /\ overtaken' = overtaken \union {p \in {record.hash} : queue[p].fate = "executed"}
       ELSE UNCHANGED <<record, overtaken>>
    /\ UNCHANGED <<tabs, queue, safeNonce>>

(* --------------------------- the Safe, the user --------------------------- *)

Executes(p) ==
    /\ queue[p].fate = "queued" /\ queue[p].nonce = safeNonce /\ safeNonce < MaxNonce
    /\ safeNonce' = safeNonce + 1
    /\ \E fate \in {"executed", "failed"} :
         queue' = [q \in DOMAIN queue |-> IF q = p THEN [queue[q] EXCEPT !.fate = fate]
                                          ELSE IF queue[q].fate = "queued" /\ queue[q].nonce = safeNonce
                                          THEN [queue[q] EXCEPT !.fate = "replaced"] ELSE queue[q]]
    /\ UNCHANGED <<record, tabs, clearing, overtaken>>

\* The owners execute something else under the next nonce.
ExecutesOther ==
    /\ safeNonce < MaxNonce /\ safeNonce' = safeNonce + 1
    /\ queue' = [q \in DOMAIN queue |-> IF queue[q].fate = "queued" /\ queue[q].nonce = safeNonce
                                        THEN [queue[q] EXCEPT !.fate = "replaced"] ELSE queue[q]]
    /\ UNCHANGED <<record, tabs, clearing, overtaken>>

Deletes(p) ==
    /\ queue[p].fate = "queued" /\ ~queue[p].deleted
    /\ queue' = [queue EXCEPT ![p].deleted = TRUE]
    /\ UNCHANGED <<record, tabs, clearing, safeNonce, overtaken>>

\* A reload forgets what the tab was doing; the Safe's dialog may still be confirmed.
Reload(t) ==
    /\ tabs[t].pc # "none" \/ clearing[t].pc # "none"
    /\ Ends(t) /\ clearing' = [clearing EXCEPT ![t] = NoClear]
    /\ \/ UNCHANGED queue
       \/ /\ At(t, "asked") /\ Len(queue) < MaxProposals
          /\ queue' = Append(queue, Proposal(safeNonce))
    /\ UNCHANGED <<record, safeNonce, overtaken>>

SeedNext ==
    \/ \E t \in Tabs :
         \/ Submit(t) \/ Reads(t) \/ ChecksHistory(t) \/ ChecksNonce(t) \/ SubmitFails(t)
         \/ Reserves(t) \/ Proposes(t) \/ Declines(t) \/ Saves(t)
         \/ ClearStarts(t) \/ ReadsStatus(t) \/ ReadsNonce(t) \/ ClearFails(t) \/ ClearEnds(t) \/ Reload(t)
    \/ \E p \in DOMAIN queue : Executes(p) \/ Deletes(p)
    \/ ExecutesOther

SeedSpec == SeedInit /\ [][SeedNext]_seedVars

(* ------------------------------ properties ------------------------------ *)

\* Whatever tabs, a lost reply, a reload or a deleted proposal do: of the seeds this browser proposed
\* at most one was executed or still can be.  One exception, which the order of the two reads above
\* leaves open: a deleted proposal that is executed between them has its record cleared, and a tab
\* that checked everything before may then save another.  Such a proposal is not counted.
Alive(p) == queue[p].fate \in {"queued", "executed"} /\ p \notin overtaken
OneSeed == Cardinality({p \in DOMAIN queue : Alive(p)}) <= 1
=============================================================================
