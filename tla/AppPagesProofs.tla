--------------------------- MODULE AppPagesProofs ---------------------------
(***************************************************************************)
(* What AppPages checks of the treasury's seed, of the pages on the write   *)
(* flow and of the Solana page, for every value of the constants: the        *)
(* seed's own invariant, and the theorems of WriteFlowProofs and             *)
(* SolanaVaultProofs carried to the variables the pages share.              *)
(***************************************************************************)
EXTENDS AppPages, SumsProofs, TLAPS

----------------------------------------------------------------------------
(* The treasury's seed: v1 is the record, v2 the tabs, v3 what they are clearing, v4 the proposals
   the Safe holds, v5 its nonce and v6 the executed proposals whose record was cleared all the same. *)

IsRecord(r) == r = [nonce |-> r.nonce, hash |-> r.hash]
IsJob(j) == j = [pc |-> j.pc, nonce |-> j.nonce, seeded |-> j.seeded, intent |-> j.intent, hash |-> j.hash]
IsProposal(p) ==
  /\ p = [nonce |-> p.nonce, fate |-> p.fate, deleted |-> p.deleted]
  /\ p.nonce \in Nat /\ p.fate \in {"queued", "executed", "failed", "replaced"}

SeedShapes ==
  /\ IsRecord(v1) /\ v5 \in Nat
  /\ v2 = [t \in Tabs |-> v2[t]] /\ \A t \in Tabs : IsJob(v2[t])
  /\ v3 = [t \in Tabs |-> v3[t]]
  /\ \E S : v4 \in Seq(S)
  /\ \A p \in DOMAIN v4 : IsProposal(v4[p])

\* proposals that were executed or still can be, but for those whose record was cleared unseen
Alive(p) == v4[p].fate \in {"queued", "executed"} /\ p \notin v6
NoneAlive == \A p \in DOMAIN v4 : ~Alive(p)
OnlyAlive(h) == \A p \in DOMAIN v4 : Alive(p) => p = h
OneAlive == \A p, q \in DOMAIN v4 : Alive(p) /\ Alive(q) => p = q

\* what is queued can still be executed, and a tab about to reserve has read a nonce
NoncesAhead ==
  /\ \A p \in DOMAIN v4 : v4[p].fate = "queued" => v4[p].nonce >= v5
  /\ \A t \in Tabs : v2[t].pc \in {"history", "nonce", "reserve"} => v2[t].nonce \in Nat

\* one tab at a time asks the Safe, under the record it saved
Asking(t) == v2[t].pc \in {"asked", "answered"}
AskedUnderRecord ==
  /\ \A t \in Tabs : Asking(t) => v2[t].intent = v1 /\ v1.hash = 0 /\ v1 # seed!NoRecord
  /\ \A t, s \in Tabs : Asking(t) /\ Asking(s) => t = s

\* what may be alive, from what the record and the tab that asks know
AliveIsKnown ==
  /\ v1 = seed!NoRecord => NoneAlive
  /\ v1.hash # 0 => v1.hash \in DOMAIN v4 /\ OnlyAlive(v1.hash)
  /\ \A t \in Tabs : v2[t].pc = "asked" => NoneAlive
  /\ \A t \in Tabs : v2[t].pc = "answered" => v2[t].hash \in DOMAIN v4 \ {0} /\ OnlyAlive(v2[t].hash)

\* a record that is looked at is of a proposal, and one that may be cleared of a proposal that left
\* the queue
ClearedIsOver ==
  \A t \in Tabs :
    /\ v3[t].pc \in {"status", "nonce", "checked"} => v3[t].saw.hash \in DOMAIN v4
    /\ v3[t].pc = "checked" => v4[v3[t].saw.hash].fate # "queued"

SeedInv == SeedShapes /\ OneAlive /\ NoncesAhead /\ AskedUnderRecord /\ AliveIsKnown /\ ClearedIsOver

\* at most one seed was executed or can be
LEMMA SeedOnce == SeedInv => seed!OneSeed
<1> SUFFICES ASSUME SeedInv PROVE seed!OneSeed
  OBVIOUS
<1> DEFINE S == {p \in DOMAIN v4 : seed!Alive(p)}
<1>1. \A p, q \in S : p = q
  BY DEF SeedInv, OneAlive, Alive, seed!Alive
<1> HIDE DEF S
<1>2. S = {} \/ \E p : S = {p}
  BY <1>1
<1>3. seed!Cardinality({}) = 0 /\ \A x : seed!Cardinality({x}) = 1
  BY FS_EmptySet, FS_Singleton DEF seed!Cardinality, Cardinality
<1>4. seed!Cardinality(S) = 0 \/ seed!Cardinality(S) = 1
  <2>1. CASE S = {}
    BY <2>1, <1>3
  <2>2. CASE \E p : S = {p}
    <3>1. PICK p : S = {p}
      BY <2>2
    <3>2. seed!Cardinality({p}) = 1
      BY <1>3
    <3> QED
      BY <3>1, <3>2, Zenon
  <2> QED
    BY <1>2, <2>1, <2>2
<1> DEFINE c == seed!Cardinality(S)
<1>5. c = 0 \/ c = 1
  BY <1>4
<1> HIDE DEF c
<1>6. c <= 1
  BY <1>5
<1> QED
  BY <1>6 DEF seed!OneSeed, S, c

\* the page starts with nothing proposed
LEMMA SeedStarts == seed!SeedInit => SeedInv
<1> SUFFICES ASSUME seed!SeedInit PROVE SeedInv
  OBVIOUS
<1>1. /\ v1 = seed!NoRecord /\ v4 = <<>> /\ v5 = 0 /\ v6 = {}
      /\ v2 = [t \in Tabs |-> seed!NoJob] /\ v3 = [t \in Tabs |-> seed!NoClear]
  BY DEF seed!SeedInit
<1>2. /\ IsRecord(seed!NoRecord) /\ seed!NoRecord.hash = 0
      /\ IsJob(seed!NoJob) /\ seed!NoJob.pc = "none" /\ seed!NoClear.pc = "none"
  BY DEF IsRecord, IsJob, seed!NoRecord, seed!NoJob, seed!NoClear
<1>3. DOMAIN v4 = {} /\ v4 \in Seq({}) /\ v5 \in Nat
  BY <1>1
<1>4. \A t \in Tabs : v2[t] = seed!NoJob /\ v3[t] = seed!NoClear
  BY <1>1
<1>5. SeedShapes
  BY <1>1, <1>2, <1>3, <1>4 DEF SeedShapes
<1>6. OneAlive /\ NoncesAhead /\ AskedUnderRecord /\ AliveIsKnown /\ ClearedIsOver
  BY <1>1, <1>2, <1>3, <1>4
     DEF OneAlive, NoncesAhead, AskedUnderRecord, Asking, AliveIsKnown, NoneAlive, ClearedIsOver
<1> QED
  BY <1>5, <1>6 DEF SeedInv

\* a tab goes on, or ends
LEMMA OneTab ==
  ASSUME SeedShapes, NEW t \in Tabs, NEW j, seed!Job(t, j)
  PROVE  /\ v2' = [s \in Tabs |-> v2'[s]] /\ v2'[t] = j
         /\ \A s \in Tabs : s # t => v2'[s] = v2[s]
BY DEF SeedShapes, seed!Job

\* a job moves on while nothing is asked of the Safe
LEMMA TabMoves ==
  ASSUME SeedInv, NEW t \in Tabs, NEW j, seed!Job(t, j), IsJob(j), j.pc \notin {"asked", "answered"},
         j.pc \in {"history", "nonce", "reserve"} => j.nonce \in Nat, UNCHANGED <<v1, v3, v4, v5, v6>>
  PROVE  SeedInv'
<1>0. SeedShapes /\ OneAlive /\ NoncesAhead /\ AskedUnderRecord /\ AliveIsKnown /\ ClearedIsOver
  BY DEF SeedInv
<1>1. /\ v2' = [s \in Tabs |-> v2'[s]] /\ v2'[t] = j
      /\ \A s \in Tabs : s # t => v2'[s] = v2[s]
  BY <1>0, OneTab
<1>2. v1' = v1 /\ v3' = v3 /\ v4' = v4 /\ v5' = v5 /\ v6' = v6
  OBVIOUS
<1>3. SeedShapes'
  BY <1>0, <1>1, <1>2 DEF SeedShapes
<1>4. OneAlive' /\ ClearedIsOver'
  BY <1>0, <1>2 DEF OneAlive, ClearedIsOver, Alive
<1>5. NoncesAhead' /\ AskedUnderRecord'
  BY <1>0, <1>1, <1>2 DEF NoncesAhead, AskedUnderRecord, Asking
<1>6. AliveIsKnown'
  BY <1>0, <1>1, <1>2 DEF AliveIsKnown, NoneAlive, OnlyAlive, Alive
<1> QED
  BY <1>3, <1>4, <1>5, <1>6 DEF SeedInv

\* a tab that has nothing more to do
LEMMA TabEnds == IsJob(seed!NoJob) /\ seed!NoJob.pc = "none"
BY DEF IsJob, seed!NoJob

\* a tab goes on from where it is
LEMMA TabWalks ==
  ASSUME NEW j, IsJob(j), NEW pc
  PROVE  \A k : k = [j EXCEPT !.pc = pc] =>
           k = [pc |-> pc, nonce |-> j.nonce, seeded |-> j.seeded, intent |-> j.intent, hash |-> j.hash]
BY DEF IsJob

\* the button, the reads and the checks before the record is saved, and a reply that is refused
LEMMA SeedReads ==
  ASSUME SeedInv, NEW t \in Tabs,
         \/ seed!Submit(t) \/ seed!Reads(t) \/ seed!ChecksHistory(t) \/ seed!ChecksNonce(t)
         \/ seed!SubmitFails(t) \/ seed!Declines(t)
  PROVE  SeedInv'
<1>1. UNCHANGED <<v1, v3, v4, v5, v6>>
  BY DEF seed!Submit, seed!Reads, seed!ChecksHistory, seed!ChecksNonce, seed!SubmitFails, seed!Declines
<1>2. CASE seed!Job(t, seed!NoJob)
  BY <1>1, <1>2, TabEnds, TabMoves
<1>3. CASE seed!Submit(t)
  <2>1. PICK j : j = [seed!NoJob EXCEPT !.pc = "reading"]
    OBVIOUS
  <2>2. IsJob(j) /\ j.pc = "reading"
    BY <2>1 DEF IsJob, seed!NoJob
  <2>3. seed!Job(t, j)
    BY <1>3, <2>1 DEF seed!Submit
  <2> QED
    BY <1>1, <2>2, <2>3, TabMoves
<1>4. CASE seed!Reads(t)
  <2>1. PICK j : j = [v2[t] EXCEPT !.pc = "history", !.nonce = v5, !.seeded = seed!Seeded]
    OBVIOUS
  <2>2. IsJob(v2[t]) /\ v5 \in Nat
    BY DEF SeedInv, SeedShapes
  <2>3. j = [pc |-> "history", nonce |-> v5, seeded |-> seed!Seeded, intent |-> v2[t].intent, hash |-> v2[t].hash]
    BY <2>1, <2>2 DEF IsJob
  <2>4. IsJob(j) /\ j.pc = "history" /\ j.nonce \in Nat
    BY <2>2, <2>3 DEF IsJob
  <2>5. seed!Job(t, j)
    BY <1>4, <2>1 DEF seed!Reads
  <2> QED
    BY <1>1, <2>4, <2>5, TabMoves
<1>5. ASSUME NEW pc \in {"nonce", "reserve"}, v2[t].pc \in {"history", "nonce"}, seed!Job(t, [v2[t] EXCEPT !.pc = pc])
      PROVE  SeedInv'
  <2>1. PICK j : j = [v2[t] EXCEPT !.pc = pc]
    OBVIOUS
  <2>2. IsJob(v2[t]) /\ v2[t].nonce \in Nat
    BY <1>5 DEF SeedInv, SeedShapes, NoncesAhead
  <2>3. j = [pc |-> pc, nonce |-> v2[t].nonce, seeded |-> v2[t].seeded, intent |-> v2[t].intent, hash |-> v2[t].hash]
    BY <2>1, <2>2 DEF IsJob
  <2>4. IsJob(j) /\ j.pc = pc /\ j.nonce \in Nat
    BY <2>2, <2>3 DEF IsJob
  <2>5. seed!Job(t, j)
    BY <1>5, <2>1
  <2> QED
    BY <1>1, <2>4, <2>5, TabMoves
<1>6. CASE seed!ChecksHistory(t) \/ seed!ChecksNonce(t)
  BY <1>2, <1>5, <1>6 DEF seed!ChecksHistory, seed!ChecksNonce, seed!Ends, seed!At
<1>7. CASE seed!SubmitFails(t) \/ seed!Declines(t)
  BY <1>2, <1>7 DEF seed!SubmitFails, seed!Declines, seed!Ends
<1> QED
  BY <1>3, <1>4, <1>6, <1>7

\* the intent is saved only over no record, when nothing is alive
LEMMA SeedReserves == ASSUME SeedInv, NEW t \in Tabs, seed!Reserves(t) PROVE SeedInv'
<1>0. SeedShapes /\ OneAlive /\ NoncesAhead /\ AskedUnderRecord /\ AliveIsKnown /\ ClearedIsOver
  BY DEF SeedInv
<1>1. CASE v1 # seed!NoRecord
  <2>1. seed!Job(t, seed!NoJob) /\ UNCHANGED <<v1, v3, v4, v5, v6>>
    BY <1>1 DEF seed!Reserves, seed!Ends
  <2> QED
    BY <2>1, TabEnds, TabMoves
<1>2. CASE v1 = seed!NoRecord
  <2>1. PICK j : j = [v2[t] EXCEPT !.pc = "asked", !.intent = v1']
    OBVIOUS
  <2>2. /\ v1' = [nonce |-> v2[t].nonce, hash |-> 0] /\ seed!Job(t, j)
        /\ v3' = v3 /\ v4' = v4 /\ v5' = v5 /\ v6' = v6 /\ v2[t].pc = "reserve"
    BY <1>2, <2>1 DEF seed!Reserves, seed!Reserve, seed!At
  <2>3. j = [pc |-> "asked", nonce |-> v2[t].nonce, seeded |-> v2[t].seeded, intent |-> v1', hash |-> v2[t].hash]
    <3>1. IsJob(v2[t])
      BY <1>0 DEF SeedShapes
    <3> QED
      BY <2>1, <3>1 DEF IsJob
  <2>4. IsJob(j) /\ j.pc = "asked" /\ j.intent = v1'
    BY <2>3 DEF IsJob
  <2>5. v2[t].nonce \in Nat
    BY <1>0, <2>2 DEF NoncesAhead
  <2>6. IsRecord(v1') /\ v1'.hash = 0 /\ v1' # seed!NoRecord
    BY <2>2, <2>5 DEF IsRecord, seed!NoRecord
  <2>7. /\ v2' = [s \in Tabs |-> v2'[s]] /\ v2'[t] = j
        /\ \A s \in Tabs : s # t => v2'[s] = v2[s]
    BY <1>0, <2>2, OneTab
  <2>8. NoneAlive /\ \A s \in Tabs : ~Asking(s)
    BY <1>0, <1>2 DEF AliveIsKnown, AskedUnderRecord
  <2>9. SeedShapes'
    BY <1>0, <2>2, <2>4, <2>6, <2>7 DEF SeedShapes
  <2>10. OneAlive' /\ ClearedIsOver'
    BY <1>0, <2>2 DEF OneAlive, ClearedIsOver, Alive
  <2>11. NoncesAhead'
    BY <1>0, <2>2, <2>4, <2>7 DEF NoncesAhead
  <2>12. AskedUnderRecord'
    BY <2>4, <2>6, <2>7, <2>8 DEF AskedUnderRecord, Asking
  <2>13. AliveIsKnown'
    BY <2>2, <2>4, <2>6, <2>7, <2>8 DEF AliveIsKnown, NoneAlive, Alive, Asking
  <2> QED
    BY <2>9, <2>10, <2>11, <2>12, <2>13 DEF SeedInv
<1> QED
  BY <1>1, <1>2

\* the Safe gains a proposal from the one tab that asks, which learns of it or ends
LEMMA SeedGains ==
  ASSUME SeedInv, NEW t \in Tabs, v2[t].pc = "asked", NEW ahead \in Nat,
         v4' = Append(v4, seed!Proposal(v5 + ahead)), NEW j, seed!Job(t, j), IsJob(j),
         \/ j.pc = "none"
         \/ j.pc = "answered" /\ j.hash = Len(v4) + 1 /\ j.intent = v2[t].intent,
         v3' = v3 \/ v3' = [v3 EXCEPT ![t] = seed!NoClear], UNCHANGED <<v1, v5, v6>>
  PROVE  SeedInv'
<1>0. SeedShapes /\ OneAlive /\ NoncesAhead /\ AskedUnderRecord /\ AliveIsKnown /\ ClearedIsOver
  BY DEF SeedInv
<1>1. PICK S : v4 \in Seq(S)
  BY <1>0 DEF SeedShapes
<1> DEFINE q == seed!Proposal(v5 + ahead)
<1>n. PICK n : n = Len(v4) + 1
  OBVIOUS
<1>2. q.nonce >= v5 /\ IsProposal(q)
  BY <1>0 DEF SeedShapes, IsProposal, seed!Proposal
<1>3. v1' = v1 /\ v5' = v5 /\ v6' = v6 /\ v4' = Append(v4, q)
  OBVIOUS
<1> HIDE DEF q
<1>4. /\ n \in Nat \ {0} /\ DOMAIN v4' = DOMAIN v4 \union {n} /\ n \notin DOMAIN v4
      /\ v4'[n] = q /\ \A p \in DOMAIN v4 : v4'[p] = v4[p]
      /\ v4' \in Seq(S \union {q})
  <2>1. Len(v4) \in Nat /\ DOMAIN v4 = 1..Len(v4)
    BY <1>1
  <2>2. v4 \in Seq(S \union {q}) /\ q \in S \union {q}
    BY <1>1
  <2> QED
    BY <1>1, <1>3, <1>n, <2>1, <2>2
<1>5. j.pc = "none" \/ (j.pc = "answered" /\ j.hash = n /\ j.intent = v2[t].intent)
  BY <1>n
<1>6. /\ v2' = [s \in Tabs |-> v2'[s]] /\ v2'[t] = j
      /\ \A s \in Tabs : s # t => v2'[s] = v2[s]
  BY <1>0, OneTab
<1>7. NoneAlive /\ v1.hash = 0 /\ v1 # seed!NoRecord /\ v2[t].intent = v1 /\ \A s \in Tabs : s # t => ~Asking(s)
  BY <1>0 DEF AliveIsKnown, AskedUnderRecord, Asking
<1>8. OnlyAlive(n)' /\ \A p \in DOMAIN v4 : ~Alive(p)'
  BY <1>3, <1>4, <1>7 DEF OnlyAlive, NoneAlive, Alive
<1>9. /\ v3' = [s \in Tabs |-> v3'[s]]
      /\ \A s \in Tabs : v3'[s] = v3[s] \/ v3'[s].pc = "none"
  BY <1>0 DEF SeedShapes, seed!NoClear
<1>10. SeedShapes'
  BY <1>0, <1>2, <1>3, <1>4, <1>6, <1>9 DEF SeedShapes
<1>11. OneAlive'
  BY <1>8 DEF OneAlive, OnlyAlive
<1>12. NoncesAhead'
  BY <1>0, <1>2, <1>3, <1>4, <1>5, <1>6 DEF NoncesAhead
<1>13. AskedUnderRecord'
  BY <1>3, <1>5, <1>6, <1>7 DEF AskedUnderRecord, Asking
<1>14. AliveIsKnown'
  BY <1>3, <1>4, <1>5, <1>6, <1>7, <1>8 DEF AliveIsKnown, Asking
<1>15. ClearedIsOver'
  BY <1>0, <1>4, <1>8, <1>9 DEF ClearedIsOver
<1> QED
  BY <1>10, <1>11, <1>12, <1>13, <1>14, <1>15 DEF SeedInv

\* the Safe queues the batch a tab asked for, under the record the tab had reserved
LEMMA SeedProposes == ASSUME SeedInv, NEW t \in Tabs, seed!Proposes(t) PROVE SeedInv'
<1>1. /\ v2[t].pc = "asked" /\ UNCHANGED <<v1, v3, v5, v6>>
      /\ \E ahead \in 0..1 : v4' = Append(v4, seed!Proposal(v5 + ahead))
  BY DEF seed!Proposes, seed!At
<1>2. CASE seed!Job(t, seed!NoJob)
  BY <1>1, <1>2, TabEnds, SeedGains
<1>3. CASE seed!Job(t, [v2[t] EXCEPT !.pc = "answered", !.hash = Len(v4) + 1])
  <2>1. PICK j : j = [v2[t] EXCEPT !.pc = "answered", !.hash = Len(v4) + 1]
    OBVIOUS
  <2>2. IsJob(v2[t])
    BY DEF SeedInv, SeedShapes
  <2>3. j = [pc |-> "answered", nonce |-> v2[t].nonce, seeded |-> v2[t].seeded, intent |-> v2[t].intent,
             hash |-> Len(v4) + 1]
    BY <2>1, <2>2 DEF IsJob
  <2>4. IsJob(j) /\ j.pc = "answered" /\ j.hash = Len(v4) + 1 /\ j.intent = v2[t].intent
    BY <2>3 DEF IsJob
  <2>5. seed!Job(t, j)
    BY <1>3, <2>1
  <2> QED
    BY <1>1, <2>4, <2>5, SeedGains
<1> QED
  BY <1>2, <1>3 DEF seed!Proposes, seed!Ends

\* the hash of the proposal joins the record that was saved for it
LEMMA SeedSaves == ASSUME SeedInv, NEW t \in Tabs, seed!Saves(t) PROVE SeedInv'
<1>0. SeedShapes /\ OneAlive /\ NoncesAhead /\ AskedUnderRecord /\ AliveIsKnown /\ ClearedIsOver
  BY DEF SeedInv
<1>1. v2[t].pc = "answered" /\ seed!Job(t, seed!NoJob) /\ v3' = v3 /\ v4' = v4 /\ v5' = v5 /\ v6' = v6
  BY DEF seed!Saves, seed!At, seed!Ends
<1>2. v2[t].intent = v1 /\ v1 # seed!NoRecord /\ \A s \in Tabs : s # t => ~Asking(s)
  BY <1>0, <1>1 DEF AskedUnderRecord, Asking
<1>3. PICK h : h = v2[t].hash /\ h \in DOMAIN v4 \ {0} /\ OnlyAlive(h)
  BY <1>0, <1>1 DEF AliveIsKnown
<1>4. v1' = [v1 EXCEPT !.hash = h]
  BY <1>2, <1>3 DEF seed!Saves
<1>5. IsRecord(v1') /\ v1'.hash = h /\ v1' # seed!NoRecord
  <2>1. v1' = [nonce |-> v1.nonce, hash |-> h]
    BY <1>0, <1>4 DEF SeedShapes, IsRecord
  <2> QED
    BY <1>3, <2>1 DEF IsRecord, seed!NoRecord
<1>6. /\ v2' = [s \in Tabs |-> v2'[s]] /\ v2'[t] = seed!NoJob
      /\ \A s \in Tabs : s # t => v2'[s] = v2[s]
  BY <1>0, <1>1, OneTab
<1>7. SeedShapes'
  BY <1>0, <1>1, <1>5, <1>6, TabEnds DEF SeedShapes
<1>8. OneAlive' /\ ClearedIsOver'
  BY <1>0, <1>1 DEF OneAlive, ClearedIsOver, Alive
<1>9. NoncesAhead' /\ AskedUnderRecord'
  BY <1>0, <1>1, <1>2, <1>6, TabEnds DEF NoncesAhead, AskedUnderRecord, Asking
<1>10. AliveIsKnown'
  BY <1>1, <1>2, <1>3, <1>5, <1>6, TabEnds DEF AliveIsKnown, Asking, OnlyAlive, Alive
<1> QED
  BY <1>7, <1>8, <1>9, <1>10 DEF SeedInv

\* a tab takes the record, and asks the service and the chain
LEMMA TabLooks ==
  ASSUME SeedInv, NEW t \in Tabs, NEW c, v3' = [v3 EXCEPT ![t] = c], UNCHANGED <<v1, v2, v4, v5, v6>>,
         c.pc \in {"status", "nonce", "checked"} => c.saw.hash \in DOMAIN v4,
         c.pc = "checked" => v4[c.saw.hash].fate # "queued"
  PROVE  SeedInv'
<1>0. SeedShapes /\ OneAlive /\ NoncesAhead /\ AskedUnderRecord /\ AliveIsKnown /\ ClearedIsOver
  BY DEF SeedInv
<1>1. v1' = v1 /\ v2' = v2 /\ v4' = v4 /\ v5' = v5 /\ v6' = v6
  OBVIOUS
<1>2. /\ v3' = [s \in Tabs |-> v3'[s]] /\ v3'[t] = c
      /\ \A s \in Tabs : s # t => v3'[s] = v3[s]
  BY <1>0 DEF SeedShapes
<1>3. SeedShapes'
  BY <1>0, <1>1, <1>2 DEF SeedShapes
<1>4. OneAlive' /\ NoncesAhead' /\ AskedUnderRecord' /\ AliveIsKnown'
  BY <1>0, <1>1 DEF OneAlive, NoncesAhead, AskedUnderRecord, AliveIsKnown, Asking, NoneAlive, OnlyAlive, Alive
<1>5. ClearedIsOver'
  BY <1>0, <1>1, <1>2 DEF ClearedIsOver
<1> QED
  BY <1>3, <1>4, <1>5 DEF SeedInv

\* clearing a record: the proposal is read in two steps, and either read may fail
LEMMA SeedLooks ==
  ASSUME SeedInv, NEW t \in Tabs,
         seed!ClearStarts(t) \/ seed!ReadsStatus(t) \/ seed!ReadsNonce(t) \/ seed!ClearFails(t)
  PROVE  SeedInv'
<1>1. UNCHANGED <<v1, v2, v4, v5, v6>>
  BY DEF seed!ClearStarts, seed!ReadsStatus, seed!ReadsNonce, seed!ClearFails
<1>2. CASE seed!Clears(t, seed!NoClear)
  <2>1. v3' = [v3 EXCEPT ![t] = seed!NoClear] /\ seed!NoClear.pc = "none"
    BY <1>2 DEF seed!Clears, seed!NoClear
  <2> QED
    BY <1>1, <2>1, TabLooks
<1>3. CASE seed!ClearStarts(t)
  <2>1. PICK c : c = [pc |-> "status", saw |-> v1]
    OBVIOUS
  <2>2. v3' = [v3 EXCEPT ![t] = c] /\ c.pc = "status" /\ c.saw = v1 /\ v1.hash # 0
    BY <1>3, <2>1 DEF seed!ClearStarts, seed!Clears
  <2>3. c.saw.hash \in DOMAIN v4
    BY <2>2 DEF SeedInv, AliveIsKnown
  <2> QED
    BY <1>1, <2>2, <2>3, TabLooks
<1>4. ASSUME NEW pc, seed!Clears(t, seed!Looked(t, pc)), v3[t].pc \in {"status", "nonce"},
             pc = "nonce" \/ (pc = "checked" /\ v5 > v4[v3[t].saw.hash].nonce)
      PROVE  SeedInv'
  <2>1. PICK c : c = [pc |-> pc, saw |-> v3[t].saw]
    OBVIOUS
  <2>2. v3' = [v3 EXCEPT ![t] = c] /\ c.pc = pc /\ c.saw = v3[t].saw
    BY <1>4, <2>1 DEF seed!Clears, seed!Looked
  <2>3. PICK h : h = c.saw.hash
    OBVIOUS
  <2>4. h \in DOMAIN v4
    BY <1>4, <2>2, <2>3 DEF SeedInv, ClearedIsOver
  <2>5. c.pc = "checked" => v4[h].fate # "queued"
    <3> SUFFICES ASSUME c.pc = "checked", v4[h].fate = "queued" PROVE FALSE
      OBVIOUS
    <3>1. v5 > v4[h].nonce
      BY <1>4, <2>2, <2>3
    <3>2. v4[h].nonce >= v5 /\ v4[h].nonce \in Nat /\ v5 \in Nat
      BY <2>4 DEF SeedInv, NoncesAhead, SeedShapes, IsProposal
    <3> QED
      BY <3>1, <3>2
  <2> QED
    BY <1>1, <2>2, <2>3, <2>4, <2>5, TabLooks
<1>5. CASE seed!ReadsStatus(t)
  BY <1>2, <1>4, <1>5 DEF seed!ReadsStatus
<1>6. CASE seed!ReadsNonce(t)
  BY <1>2, <1>4, <1>6 DEF seed!ReadsNonce
<1>7. CASE seed!ClearFails(t)
  BY <1>2, <1>7 DEF seed!ClearFails
<1> QED
  BY <1>3, <1>5, <1>6, <1>7

\* and clears it if it is the one it took
LEMMA SeedClears == ASSUME SeedInv, NEW t \in Tabs, seed!ClearEnds(t) PROVE SeedInv'
<1>0. SeedShapes /\ OneAlive /\ NoncesAhead /\ AskedUnderRecord /\ AliveIsKnown /\ ClearedIsOver
  BY DEF SeedInv
<1>1. v3[t].pc = "checked" /\ v3' = [v3 EXCEPT ![t] = seed!NoClear] /\ v2' = v2 /\ v4' = v4 /\ v5' = v5
  BY DEF seed!ClearEnds, seed!Clears
<1>2. CASE v1 # v3[t].saw
  <2>1. UNCHANGED <<v1, v2, v4, v5, v6>> /\ seed!NoClear.pc = "none"
    BY <1>1, <1>2 DEF seed!ClearEnds, seed!NoClear
  <2> QED
    BY <1>1, <2>1, TabLooks
<1>3. CASE v1 = v3[t].saw
  <2>1. PICK h : h = v1.hash
    OBVIOUS
  <2>2. v1' = seed!NoRecord /\ v6' = v6 \union {p \in {h} : v4[p].fate = "executed"}
    BY <1>3, <2>1 DEF seed!ClearEnds
  <2>3. h \in DOMAIN v4 /\ v4[h].fate # "queued"
    BY <1>0, <1>1, <1>3, <2>1 DEF ClearedIsOver
  <2>4. h # 0
    BY <1>0, <2>3 DEF SeedShapes
  <2>5. OnlyAlive(h) /\ \A s \in Tabs : ~Asking(s)
    BY <1>0, <2>1, <2>4 DEF AliveIsKnown, AskedUnderRecord
  <2>6. NoneAlive'
    <3>1. \A p \in DOMAIN v4 : Alive(p)' => Alive(p) /\ p = h
      BY <1>1, <2>2, <2>5 DEF Alive, OnlyAlive
    <3>2. ~Alive(h)'
      BY <1>1, <2>2, <2>3 DEF Alive
    <3> QED
      BY <1>1, <3>1, <3>2 DEF NoneAlive
  <2>7. IsRecord(seed!NoRecord) /\ seed!NoRecord.hash = 0
    BY DEF IsRecord, seed!NoRecord
  <2>8. /\ v3' = [s \in Tabs |-> v3'[s]]
        /\ \A s \in Tabs : v3'[s] = v3[s] \/ v3'[s].pc = "none"
    BY <1>0, <1>1 DEF SeedShapes, seed!NoClear
  <2>9. SeedShapes'
    BY <1>0, <1>1, <2>2, <2>7, <2>8 DEF SeedShapes
  <2>10. OneAlive' /\ NoncesAhead' /\ ClearedIsOver'
    BY <1>0, <1>1, <2>6, <2>8 DEF OneAlive, NoneAlive, NoncesAhead, ClearedIsOver
  <2>11. AskedUnderRecord' /\ AliveIsKnown'
    BY <1>1, <2>2, <2>5, <2>6, <2>7 DEF AskedUnderRecord, AliveIsKnown, Asking
  <2> QED
    BY <2>9, <2>10, <2>11 DEF SeedInv
<1> QED
  BY <1>2, <1>3

\* the Safe executes, replaces or deletes: nothing comes alive
LEMMA QueueMoves ==
  ASSUME SeedInv, UNCHANGED <<v1, v2, v3, v6>>, DOMAIN v4' = DOMAIN v4, \E S : v4' \in Seq(S), v5' \in Nat,
         \A p \in DOMAIN v4 : IsProposal(v4'[p]) /\ (Alive(p)' => Alive(p)),
         \A p \in DOMAIN v4 : v4'[p].fate = "queued" => v4[p].fate = "queued",
         \A p \in DOMAIN v4 : v4'[p].fate = "queued" => v4'[p].nonce >= v5'
  PROVE  SeedInv'
<1>0. SeedShapes /\ OneAlive /\ NoncesAhead /\ AskedUnderRecord /\ AliveIsKnown /\ ClearedIsOver
  BY DEF SeedInv
<1>1. v1' = v1 /\ v2' = v2 /\ v3' = v3 /\ v6' = v6 /\ DOMAIN v4' = DOMAIN v4
  OBVIOUS
<1>2. SeedShapes'
  BY <1>0, <1>1 DEF SeedShapes
<1>3. OneAlive' /\ NoncesAhead' /\ AskedUnderRecord'
  BY <1>0, <1>1 DEF OneAlive, NoncesAhead, AskedUnderRecord, Asking
<1>4. AliveIsKnown' /\ ClearedIsOver'
  BY <1>0, <1>1 DEF AliveIsKnown, ClearedIsOver, NoneAlive, OnlyAlive
<1> QED
  BY <1>2, <1>3, <1>4 DEF SeedInv

\* a proposal whose fate is decided, or that is deleted
Decided(p, fate) == [p EXCEPT !.fate = fate]
Deleted(p) == [p EXCEPT !.deleted = TRUE]

\* a decided or deleted proposal keeps its other fields
LEMMA ProposalMoves ==
  ASSUME NEW p, IsProposal(p), NEW fate \in {"executed", "failed", "replaced"}
  PROVE  /\ IsProposal(Decided(p, fate)) /\ Decided(p, fate).fate = fate
         /\ IsProposal(Deleted(p)) /\ Deleted(p).fate = p.fate /\ Deleted(p).nonce = p.nonce
<1>1. PICK q : q = [p EXCEPT !.fate = fate]
  OBVIOUS
<1>2. q = [nonce |-> p.nonce, fate |-> fate, deleted |-> p.deleted]
  BY <1>1 DEF IsProposal
<1>3. PICK r : r = [p EXCEPT !.deleted = TRUE]
  OBVIOUS
<1>4. r = [nonce |-> p.nonce, fate |-> p.fate, deleted |-> TRUE]
  BY <1>3 DEF IsProposal
<1>5. IsProposal(Decided(p, fate)) /\ Decided(p, fate).fate = fate
  BY <1>1, <1>2 DEF IsProposal, Decided
<1>6. IsProposal(Deleted(p)) /\ Deleted(p).fate = p.fate /\ Deleted(p).nonce = p.nonce
  BY <1>3, <1>4 DEF IsProposal, Deleted
<1> QED
  BY <1>5, <1>6

\* a function on the places of a sequence is one
LEMMA SamePlaces ==
  ASSUME NEW s, NEW T, s \in Seq(T), NEW f, f = [k \in DOMAIN s |-> f[k]]
  PROVE  DOMAIN f = DOMAIN s /\ \E S : f \in Seq(S)
<1>1. Len(s) \in Nat /\ DOMAIN s = 1..Len(s)
  OBVIOUS
<1> DEFINE S == {f[k] : k \in DOMAIN s}
<1>2. \A k \in 1..Len(s) : f[k] \in S
  BY <1>1
<1>3. f = [k \in 1..Len(s) |-> f[k]] /\ DOMAIN f = DOMAIN s
  BY <1>1
<1> HIDE DEF S
<1>4. f \in Seq(S)
  BY <1>1, <1>2, <1>3
<1> QED
  BY <1>3, <1>4

\* whatever the owners execute under the next nonce
LEMMA SeedExecutes ==
  ASSUME SeedInv, seed!ExecutesOther \/ \E p \in DOMAIN v4 : seed!Executes(p)
  PROVE  SeedInv'
<1>0. SeedShapes /\ NoncesAhead
  BY DEF SeedInv
<1>1. v5' = v5 + 1 /\ v5 \in Nat /\ UNCHANGED <<v1, v2, v3, v6>>
  BY <1>0 DEF seed!ExecutesOther, seed!Executes, SeedShapes
<1>2. /\ v4' = [q \in DOMAIN v4 |-> v4'[q]]
      /\ \A q \in DOMAIN v4 :
           \/ v4'[q] = v4[q] /\ ~(v4[q].fate = "queued" /\ v4[q].nonce = v5)
           \/ v4[q].fate = "queued" /\ \E fate \in {"executed", "failed", "replaced"} : v4'[q] = Decided(v4[q], fate)
  <2>1. CASE seed!ExecutesOther
    BY <2>1 DEF seed!ExecutesOther, Decided
  <2>2. ASSUME NEW p \in DOMAIN v4, seed!Executes(p)
        PROVE  /\ v4' = [q \in DOMAIN v4 |-> v4'[q]]
               /\ \A q \in DOMAIN v4 :
                    \/ v4'[q] = v4[q] /\ ~(v4[q].fate = "queued" /\ v4[q].nonce = v5)
                    \/ /\ v4[q].fate = "queued"
                       /\ \E fate \in {"executed", "failed", "replaced"} : v4'[q] = Decided(v4[q], fate)
    BY <2>2 DEF seed!Executes, Decided
  <2> QED
    BY <2>1, <2>2
<1>3. DOMAIN v4' = DOMAIN v4 /\ \E S : v4' \in Seq(S)
  BY <1>0, <1>2, SamePlaces DEF SeedShapes
<1>4. ASSUME NEW q \in DOMAIN v4
      PROVE  /\ IsProposal(v4'[q]) /\ (Alive(q)' => Alive(q))
             /\ v4'[q].fate = "queued" => v4[q].fate = "queued" /\ v4'[q].nonce >= v5'
  <2>1. IsProposal(v4[q]) /\ (v4[q].fate = "queued" => v4[q].nonce >= v5) /\ v4[q].nonce \in Nat
    BY <1>0 DEF SeedShapes, NoncesAhead, IsProposal
  <2>2. CASE v4'[q] = v4[q] /\ ~(v4[q].fate = "queued" /\ v4[q].nonce = v5)
    BY <1>1, <2>1, <2>2 DEF Alive
  <2>3. ASSUME v4[q].fate = "queued", NEW fate \in {"executed", "failed", "replaced"}, v4'[q] = Decided(v4[q], fate)
        PROVE  /\ IsProposal(v4'[q]) /\ (Alive(q)' => Alive(q))
               /\ v4'[q].fate = "queued" => v4[q].fate = "queued" /\ v4'[q].nonce >= v5'
    <3>1. IsProposal(v4'[q]) /\ v4'[q].fate = fate
      BY <2>1, <2>3, ProposalMoves
    <3> QED
      BY <1>1, <2>3, <3>1 DEF Alive
  <2> QED
    BY <1>2, <2>2, <2>3
<1> QED
  BY <1>1, <1>3, <1>4, QueueMoves

\* a deleted proposal can still be executed under its nonce
LEMMA SeedDeletes == ASSUME SeedInv, NEW p \in DOMAIN v4, seed!Deletes(p) PROVE SeedInv'
<1>0. SeedShapes /\ NoncesAhead
  BY DEF SeedInv
<1>1. v5' = v5 /\ v5 \in Nat /\ UNCHANGED <<v1, v2, v3, v6>>
  BY <1>0 DEF seed!Deletes, SeedShapes
<1>2. v4' = [v4 EXCEPT ![p] = Deleted(v4[p])]
  BY DEF seed!Deletes, Deleted
<1>3. /\ v4' = [q \in DOMAIN v4 |-> v4'[q]]
      /\ \A q \in DOMAIN v4 : v4'[q] = v4[q] \/ v4'[q] = Deleted(v4[q])
  <2>1. PICK S : v4 \in Seq(S)
    BY <1>0 DEF SeedShapes
  <2>2. v4 = [q \in DOMAIN v4 |-> v4[q]]
    BY <2>1
  <2> QED
    BY <1>2, <2>2
<1>4. DOMAIN v4' = DOMAIN v4 /\ \E S : v4' \in Seq(S)
  BY <1>0, <1>3, SamePlaces DEF SeedShapes
<1>5. ASSUME NEW q \in DOMAIN v4
      PROVE  /\ IsProposal(v4'[q]) /\ (Alive(q)' => Alive(q))
             /\ v4'[q].fate = "queued" => v4[q].fate = "queued" /\ v4'[q].nonce >= v5'
  <2>1. IsProposal(v4[q]) /\ (v4[q].fate = "queued" => v4[q].nonce >= v5)
    BY <1>0 DEF SeedShapes, NoncesAhead
  <2>2. IsProposal(Deleted(v4[q])) /\ Deleted(v4[q]).fate = v4[q].fate /\ Deleted(v4[q]).nonce = v4[q].nonce
    BY <2>1, ProposalMoves
  <2> QED
    BY <1>1, <1>3, <2>1, <2>2 DEF Alive
<1> QED
  BY <1>1, <1>4, <1>5, QueueMoves

\* a reload forgets what the tab was doing, and a dialog it left open may still be confirmed
LEMMA SeedReloads == ASSUME SeedInv, NEW t \in Tabs, seed!Reload(t) PROVE SeedInv'
<1>0. SeedShapes /\ OneAlive /\ NoncesAhead /\ AskedUnderRecord /\ AliveIsKnown /\ ClearedIsOver
  BY DEF SeedInv
<1>1. seed!Job(t, seed!NoJob) /\ v3' = [v3 EXCEPT ![t] = seed!NoClear] /\ v1' = v1 /\ v5' = v5 /\ v6' = v6
  BY DEF seed!Reload, seed!Ends
<1>2. CASE v2[t].pc = "asked" /\ v4' = Append(v4, seed!Proposal(v5))
  <2>1. v5 + 0 = v5
    BY <1>0 DEF SeedShapes
  <2>2. v4' = Append(v4, seed!Proposal(v5 + 0))
    BY <1>2, <2>1
  <2> QED
    BY <1>1, <1>2, <2>2, TabEnds, SeedGains
<1>3. CASE v4' = v4
  <2>1. /\ v3' = [s \in Tabs |-> v3'[s]]
        /\ \A s \in Tabs : v3'[s] = v3[s] \/ v3'[s].pc = "none"
    BY <1>0, <1>1 DEF SeedShapes, seed!NoClear
  <2>2. /\ v2' = [s \in Tabs |-> v2'[s]] /\ v2'[t] = seed!NoJob
        /\ \A s \in Tabs : s # t => v2'[s] = v2[s]
    BY <1>0, <1>1, OneTab
  <2>3. SeedShapes'
    BY <1>0, <1>1, <1>3, <2>1, <2>2, TabEnds DEF SeedShapes
  <2>4. OneAlive' /\ ClearedIsOver'
    BY <1>0, <1>1, <1>3, <2>1 DEF OneAlive, ClearedIsOver, Alive
  <2>5. NoncesAhead' /\ AskedUnderRecord'
    BY <1>0, <1>1, <1>3, <2>2, TabEnds DEF NoncesAhead, AskedUnderRecord, Asking
  <2>6. AliveIsKnown'
    BY <1>0, <1>1, <1>3, <2>2, TabEnds DEF AliveIsKnown, NoneAlive, OnlyAlive, Alive
  <2> QED
    BY <2>3, <2>4, <2>5, <2>6 DEF SeedInv
<1> QED
  BY <1>2, <1>3 DEF seed!Reload, seed!At

\* every step of the page, its tabs, the Safe and its owners
LEMMA SeedSteps == SeedInv /\ seed!SeedNext => SeedInv'
BY SeedReads, SeedReserves, SeedProposes, SeedSaves, SeedLooks, SeedClears, SeedReloads, SeedExecutes, SeedDeletes
   DEF seed!SeedNext

\* a step of anything else
LEMMA SeedRests == SeedInv /\ UNCHANGED <<v1, v2, v3, v4, v5, v6>> => SeedInv'
BY DEF SeedInv, SeedShapes, OneAlive, NoncesAhead, AskedUnderRecord, AliveIsKnown, ClearedIsOver, Asking,
       NoneAlive, OnlyAlive, Alive

SeedKept == page = "seed" => SeedInv

\* the seed page starts in its invariant
LEMMA StartSeeds == Init => SeedKept
<1> SUFFICES ASSUME Init, page = "seed" PROVE SeedInv
  BY DEF SeedKept
<1>1. seed!SeedInit
  BY DEF Init, Follows
<1> QED
  BY <1>1, SeedStarts

\* and every step of the page keeps it
LEMMA StepSeeds == SeedKept /\ [Next]_vars => SeedKept'
<1> SUFFICES ASSUME SeedKept, [Next]_vars, page' = "seed" PROVE SeedInv'
  BY DEF SeedKept
<1>1. CASE Next
  <2>1. page = "seed" /\ seed!SeedNext
    BY <1>1 DEF Next, On
  <2> QED
    BY <2>1, SeedSteps DEF SeedKept
<1>2. CASE UNCHANGED vars
  <2>1. UNCHANGED page /\ UNCHANGED <<v1, v2, v3, v4, v5, v6>>
    BY <1>2 DEF vars, own
  <2> QED
    BY <2>1, SeedRests DEF SeedKept
<1> QED
  BY <1>1, <1>2

----------------------------------------------------------------------------
(* The flow of the pages is the flow of the proofs, and what the pages do with it *)

cardFlow == INSTANCE WriteFlowProofs WITH
    Accounts <- TwoWallets, KeptOps <- {}, Nodes <- OneNode, Slots <- OneSlot, MaxMoves <- CardMoves

\* the runs of the app's cards
LEMMA CardRuns ==
  ASSUME NEW i
  PROVE  /\ cards!Advance(i) => cardFlow!Advance(i)
         /\ cards!Refreshed(i) => cardFlow!Refreshed(i)
<1>1. cards!Aligned <=> cardFlow!Aligned
  BY DEF cards!Aligned, cardFlow!Aligned, cards!ProbeRpcAlignment, cardFlow!ProbeRpcAlignment,
      cards!SameState, cardFlow!SameState, cards!HashAt, cardFlow!HashAt, cards!Gap,
      cardFlow!Gap, cards!Lower, cardFlow!Lower
<1>2. /\ \A r : cards!Current(r) <=> cardFlow!Current(r)
      /\ \A r, w : cards!Of(r, w) = cardFlow!Of(r, w)
      /\ \A j : cards!Done(j) <=> cardFlow!Done(j)
      /\ \A j, r : cards!Step(j, r) <=> cardFlow!Step(j, r)
  BY DEF cards!Current, cardFlow!Current, cards!Of, cardFlow!Of, cards!IdleStatus,
      cardFlow!IdleStatus, cards!Done, cardFlow!Done, cards!Step, cardFlow!Step, cards!NoRun,
      cardFlow!NoRun, cards!NoOne, cardFlow!NoOne
<1>3. /\ \A r, s : cards!Say(r, s) <=> cardFlow!Say(r, s)
      /\ cards!RightNetwork <=> cardFlow!RightNetwork
  BY <1>2 DEF cards!Say, cardFlow!Say, cards!RightNetwork, cardFlow!RightNetwork
<1>4. cards!Throws(i) => cardFlow!Throws(i)
  BY <1>1, <1>2, <1>3 DEF cards!Throws, cardFlow!Throws
<1>5. cards!Probe(i) => cardFlow!Probe(i)
  BY <1>1, <1>2, <1>3 DEF cards!Probe, cardFlow!Probe
<1>6. cards!Simulate(i) => cardFlow!Simulate(i)
  BY <1>1, <1>2, <1>3 DEF cards!Simulate, cardFlow!Simulate
<1>7. cards!Reprobe(i) => cardFlow!Reprobe(i)
  BY <1>1, <1>2, <1>3 DEF cards!Reprobe, cardFlow!Reprobe
<1>8. cards!Estimate(i) => cardFlow!Estimate(i)
  BY <1>1, <1>2, <1>3 DEF cards!Estimate, cardFlow!Estimate
<1>9. cards!WalletRefuses(i) => cardFlow!WalletRefuses(i)
  BY <1>1, <1>2, <1>3 DEF cards!WalletRefuses, cardFlow!WalletRefuses
<1>10. cards!WalletSends(i) => cardFlow!WalletSends(i)
  BY <1>1, <1>2, <1>3 DEF cards!WalletSends, cardFlow!WalletSends, cards!OnExpectedChain,
      cardFlow!OnExpectedChain
<1>11. cards!NoReceipt(i) => cardFlow!NoReceipt(i)
  BY <1>1, <1>2, <1>3 DEF cards!NoReceipt, cardFlow!NoReceipt, cards!KeepPending, cardFlow!KeepPending
<1>12. cards!Receipt(i) => cardFlow!Receipt(i)
  BY <1>1, <1>2, <1>3 DEF cards!Receipt, cardFlow!Receipt
<1>13. cards!Refreshed(i) => cardFlow!Refreshed(i)
  BY <1>1, <1>2, <1>3 DEF cards!Refreshed, cardFlow!Refreshed, cards!Outcome, cardFlow!Outcome
<1> QED
  BY <1>4, <1>5, <1>6, <1>7, <1>8, <1>9, <1>10, <1>11, <1>12, <1>13 DEF cards!Advance, cardFlow!Advance

\* what the cards may do with it besides
LEMMA CardRest ==
  /\ cards!FlowInit => cardFlow!FlowInit
  /\ cards!Busy <=> cardFlow!Busy
  /\ \A k : cards!Mine(k) => cardFlow!Mine(k)
  /\ \A op, owner : cards!StartFor(op, owner) <=> cardFlow!StartFor(op, owner)
  /\ cards!ResetFlow => cardFlow!ResetFlow
  /\ cards!StopWaiting => cardFlow!StopWaiting
  /\ cards!SwitchAccount => cardFlow!SwitchAccount
  /\ \A op : cards!Start(op) => UNCHANGED txs /\ cardFlow!StartFor(op, account)
<1>1. cards!FlowInit => cardFlow!FlowInit
  BY DEF cards!FlowInit, cardFlow!FlowInit, cards!IdleStatus, cardFlow!IdleStatus, cards!NoRun,
      cardFlow!NoRun, cards!NoOne, cardFlow!NoOne
<1>2. cards!Busy <=> cardFlow!Busy
  BY DEF cards!Busy, cardFlow!Busy
<1>3. \A k : cards!Mine(k) => cardFlow!Mine(k)
  BY DEF cards!Mine, cardFlow!Mine
<1>4. \A op, owner : cards!StartFor(op, owner) <=> cardFlow!StartFor(op, owner)
  BY DEF cards!StartFor, cardFlow!StartFor, cards!NoRun, cardFlow!NoRun, cards!NoOne,
      cardFlow!NoOne, cards!Killed, cardFlow!Killed, cards!Say, cardFlow!Say, cards!Current,
      cardFlow!Current, cards!Of, cardFlow!Of, cards!IdleStatus, cardFlow!IdleStatus
<1>5. cards!ResetFlow => cardFlow!ResetFlow
  BY DEF cards!ResetFlow, cardFlow!ResetFlow, cards!Busy, cardFlow!Busy, cards!Killed,
      cardFlow!Killed, cards!IdleStatus, cardFlow!IdleStatus, cards!NoOne, cardFlow!NoOne
<1>6. cards!StopWaiting => cardFlow!StopWaiting
  BY DEF cards!StopWaiting, cardFlow!StopWaiting, cards!Killed, cardFlow!Killed
<1>7. cards!SwitchAccount => cardFlow!SwitchAccount
  BY DEF cards!SwitchAccount, cardFlow!SwitchAccount, cards!NewSession, cardFlow!NewSession,
      cards!IdleStatus, cardFlow!IdleStatus, cards!NoOne, cardFlow!NoOne, cards!RightNetwork,
      cardFlow!RightNetwork, cards!Move, cardFlow!Move, cards!ProbeRpcAlignment,
      cardFlow!ProbeRpcAlignment, cards!SameState, cardFlow!SameState, cards!HashAt,
      cardFlow!HashAt, cards!Gap, cardFlow!Gap, cards!Lower, cardFlow!Lower
<1>8. \A op : cards!Start(op) => UNCHANGED txs /\ cardFlow!StartFor(op, account)
  BY <1>4 DEF cards!Start, cards!StartFor
<1> QED
  BY <1>1, <1>2, <1>3, <1>4, <1>5, <1>6, <1>7, <1>8

\* the app's cards begin a write when nothing is in flight, and go on with it
LEMMA CardSteps == cards!CardsNext => cardFlow!FlowGoesOn \/ (cardFlow!FlowBegins /\ ~cardFlow!Busy)
<1> SUFFICES ASSUME cards!CardsNext
             PROVE  cardFlow!FlowGoesOn \/ (cardFlow!FlowBegins /\ ~cardFlow!Busy)
  OBVIOUS
<1>1. CASE cards!Press
  <2>1. ~cards!Busy /\ UNCHANGED account /\ \E op : cards!Start(op)
    BY <1>1 DEF cards!Press, cards!CanSubmit
  <2> QED
    BY <2>1, CardRest DEF cardFlow!FlowBegins
<1>2. CASE cards!SwitchRoute
  <2>1. cards!ResetFlow /\ UNCHANGED <<account, txs>>
    BY <1>2 DEF cards!SwitchRoute
  <2> QED
    BY <2>1, CardRest DEF cardFlow!FlowGoesOn
<1>3. CASE cards!Acknowledge \/ cards!Refetch \/ cards!Govern
  BY <1>3 DEF cards!Acknowledge, cards!Refetch, cards!Govern, cards!flowVars, cardFlow!FlowGoesOn
<1>4. CASE cards!CardSwitchAccount
  BY <1>4, CardRest DEF cards!CardSwitchAccount, cardFlow!FlowGoesOn
<1>5. CASE \E i \in OneSlot : cards!CardRefreshed(i) \/ cards!Advance(i)
  BY <1>5, CardRuns DEF cards!CardRefreshed, cardFlow!FlowGoesOn
<1>6. CASE \E k \in DOMAIN txs : cards!CardMine(k)
  BY <1>6, CardRest DEF cards!CardMine, cardFlow!FlowGoesOn
<1>7. CASE cards!Surface
  BY <1>7 DEF cards!Surface, cards!Recheck, cards!Poll, cards!PollArrives, cards!SwitchNode, cardFlow!FlowGoesOn
<1> QED
  BY <1>1, <1>2, <1>3, <1>4, <1>5, <1>6, <1>7 DEF cards!CardsNext

curatorFlow == INSTANCE WriteFlowProofs WITH
    Accounts <- OneWallet, KeptOps <- {}, Nodes <- OneNode, Slots <- OneSlot

\* the runs of the Ethereum curator's page
LEMMA CuratorRuns ==
  ASSUME NEW i
  PROVE  /\ ethereum!Advance(i) => curatorFlow!Advance(i)
         /\ ethereum!Refreshed(i) => curatorFlow!Refreshed(i)
<1>1. ethereum!Aligned <=> curatorFlow!Aligned
  BY DEF ethereum!Aligned, curatorFlow!Aligned, ethereum!ProbeRpcAlignment,
      curatorFlow!ProbeRpcAlignment, ethereum!SameState, curatorFlow!SameState, ethereum!HashAt,
      curatorFlow!HashAt, ethereum!Gap, curatorFlow!Gap, ethereum!Lower, curatorFlow!Lower
<1>2. /\ \A r : ethereum!Current(r) <=> curatorFlow!Current(r)
      /\ \A r, w : ethereum!Of(r, w) = curatorFlow!Of(r, w)
      /\ \A j : ethereum!Done(j) <=> curatorFlow!Done(j)
      /\ \A j, r : ethereum!Step(j, r) <=> curatorFlow!Step(j, r)
  BY DEF ethereum!Current, curatorFlow!Current, ethereum!Of, curatorFlow!Of,
      ethereum!IdleStatus, curatorFlow!IdleStatus, ethereum!Done, curatorFlow!Done,
      ethereum!Step, curatorFlow!Step, ethereum!NoRun, curatorFlow!NoRun, ethereum!NoOne,
      curatorFlow!NoOne
<1>3. /\ \A r, s : ethereum!Say(r, s) <=> curatorFlow!Say(r, s)
      /\ ethereum!RightNetwork <=> curatorFlow!RightNetwork
  BY <1>2 DEF ethereum!Say, curatorFlow!Say, ethereum!RightNetwork, curatorFlow!RightNetwork
<1>4. ethereum!Throws(i) => curatorFlow!Throws(i)
  BY <1>1, <1>2, <1>3 DEF ethereum!Throws, curatorFlow!Throws
<1>5. ethereum!Probe(i) => curatorFlow!Probe(i)
  BY <1>1, <1>2, <1>3 DEF ethereum!Probe, curatorFlow!Probe
<1>6. ethereum!Simulate(i) => curatorFlow!Simulate(i)
  BY <1>1, <1>2, <1>3 DEF ethereum!Simulate, curatorFlow!Simulate
<1>7. ethereum!Reprobe(i) => curatorFlow!Reprobe(i)
  BY <1>1, <1>2, <1>3 DEF ethereum!Reprobe, curatorFlow!Reprobe
<1>8. ethereum!Estimate(i) => curatorFlow!Estimate(i)
  BY <1>1, <1>2, <1>3 DEF ethereum!Estimate, curatorFlow!Estimate
<1>9. ethereum!WalletRefuses(i) => curatorFlow!WalletRefuses(i)
  BY <1>1, <1>2, <1>3 DEF ethereum!WalletRefuses, curatorFlow!WalletRefuses
<1>10. ethereum!WalletSends(i) => curatorFlow!WalletSends(i)
  BY <1>1, <1>2, <1>3 DEF ethereum!WalletSends, curatorFlow!WalletSends, ethereum!OnExpectedChain,
      curatorFlow!OnExpectedChain
<1>11. ethereum!NoReceipt(i) => curatorFlow!NoReceipt(i)
  BY <1>1, <1>2, <1>3 DEF ethereum!NoReceipt, curatorFlow!NoReceipt, ethereum!KeepPending,
      curatorFlow!KeepPending
<1>12. ethereum!Receipt(i) => curatorFlow!Receipt(i)
  BY <1>1, <1>2, <1>3 DEF ethereum!Receipt, curatorFlow!Receipt
<1>13. ethereum!Refreshed(i) => curatorFlow!Refreshed(i)
  BY <1>1, <1>2, <1>3 DEF ethereum!Refreshed, curatorFlow!Refreshed, ethereum!Outcome, curatorFlow!Outcome
<1> QED
  BY <1>4, <1>5, <1>6, <1>7, <1>8, <1>9, <1>10, <1>11, <1>12, <1>13 DEF ethereum!Advance, curatorFlow!Advance

\* what the Ethereum curator's page may do with it besides
LEMMA CuratorRest ==
  /\ ethereum!FlowInit => curatorFlow!FlowInit
  /\ ethereum!Busy <=> curatorFlow!Busy
  /\ \A k : ethereum!Mine(k) => curatorFlow!Mine(k)
  /\ \A op, owner : ethereum!StartFor(op, owner) <=> curatorFlow!StartFor(op, owner)
  /\ ethereum!ResetFlow => curatorFlow!ResetFlow
  /\ ethereum!StopWaiting => curatorFlow!StopWaiting
  /\ ethereum!SwitchAccount => curatorFlow!SwitchAccount
  /\ \A op : ethereum!Start(op) => UNCHANGED txs /\ curatorFlow!StartFor(op, account)
<1>1. ethereum!FlowInit => curatorFlow!FlowInit
  BY DEF ethereum!FlowInit, curatorFlow!FlowInit, ethereum!IdleStatus, curatorFlow!IdleStatus,
      ethereum!NoRun, curatorFlow!NoRun, ethereum!NoOne, curatorFlow!NoOne
<1>2. ethereum!Busy <=> curatorFlow!Busy
  BY DEF ethereum!Busy, curatorFlow!Busy
<1>3. \A k : ethereum!Mine(k) => curatorFlow!Mine(k)
  BY DEF ethereum!Mine, curatorFlow!Mine
<1>4. \A op, owner : ethereum!StartFor(op, owner) <=> curatorFlow!StartFor(op, owner)
  BY DEF ethereum!StartFor, curatorFlow!StartFor, ethereum!NoRun, curatorFlow!NoRun,
      ethereum!NoOne, curatorFlow!NoOne, ethereum!Killed, curatorFlow!Killed, ethereum!Say,
      curatorFlow!Say, ethereum!Current, curatorFlow!Current, ethereum!Of, curatorFlow!Of,
      ethereum!IdleStatus, curatorFlow!IdleStatus
<1>5. ethereum!ResetFlow => curatorFlow!ResetFlow
  BY DEF ethereum!ResetFlow, curatorFlow!ResetFlow, ethereum!Busy, curatorFlow!Busy,
      ethereum!Killed, curatorFlow!Killed, ethereum!IdleStatus, curatorFlow!IdleStatus,
      ethereum!NoOne, curatorFlow!NoOne
<1>6. ethereum!StopWaiting => curatorFlow!StopWaiting
  BY DEF ethereum!StopWaiting, curatorFlow!StopWaiting, ethereum!Killed, curatorFlow!Killed
<1>7. ethereum!SwitchAccount => curatorFlow!SwitchAccount
  BY DEF ethereum!SwitchAccount, curatorFlow!SwitchAccount, ethereum!NewSession,
      curatorFlow!NewSession, ethereum!IdleStatus, curatorFlow!IdleStatus, ethereum!NoOne,
      curatorFlow!NoOne, ethereum!RightNetwork, curatorFlow!RightNetwork, ethereum!Move,
      curatorFlow!Move, ethereum!ProbeRpcAlignment, curatorFlow!ProbeRpcAlignment,
      ethereum!SameState, curatorFlow!SameState, ethereum!HashAt, curatorFlow!HashAt,
      ethereum!Gap, curatorFlow!Gap, ethereum!Lower, curatorFlow!Lower
<1>8. \A op : ethereum!Start(op) => UNCHANGED txs /\ curatorFlow!StartFor(op, account)
  BY <1>4 DEF ethereum!Start, ethereum!StartFor
<1> QED
  BY <1>1, <1>2, <1>3, <1>4, <1>5, <1>6, <1>7, <1>8

\* so does the Ethereum curator's page
LEMMA CuratorSteps ==
  ethereum!CuratorPageNext => curatorFlow!FlowGoesOn \/ (curatorFlow!FlowBegins /\ ~curatorFlow!Busy)
<1> SUFFICES ASSUME ethereum!CuratorPageNext
             PROVE  curatorFlow!FlowGoesOn \/ (curatorFlow!FlowBegins /\ ~curatorFlow!Busy)
  OBVIOUS
<1>1. CASE ethereum!ReadModule \/ ethereum!ReadsFail \/ ethereum!Select \/ ethereum!ModuleMoves
  BY <1>1 DEF ethereum!ReadModule, ethereum!ReadsFail, ethereum!Select, ethereum!ModuleMoves,
              ethereum!flowVars, curatorFlow!FlowGoesOn
<1>2. CASE ethereum!Post \/ ethereum!Withdraw \/ ethereum!SettleClosedRound
  <2>1. ~ethereum!Busy /\ UNCHANGED account /\ \E op : ethereum!Start(op)
    BY <1>2 DEF ethereum!Post, ethereum!Withdraw, ethereum!SettleClosedRound, ethereum!CanWrite, ethereum!Begins
  <2> QED
    BY <2>1, CuratorRest DEF curatorFlow!FlowBegins
<1>3. CASE ethereum!PageSwitchAccount
  BY <1>3, CuratorRest DEF ethereum!PageSwitchAccount, curatorFlow!FlowGoesOn
<1>4. CASE \E i \in OneSlot : ethereum!PageRefreshed(i) \/ ethereum!Advance(i)
  BY <1>4, CuratorRuns DEF ethereum!PageRefreshed, curatorFlow!FlowGoesOn
<1>5. CASE \E k \in DOMAIN txs : ethereum!PageMine(k)
  BY <1>5, CuratorRest DEF ethereum!PageMine, curatorFlow!FlowGoesOn
<1> QED
  BY <1>1, <1>2, <1>3, <1>4, <1>5 DEF ethereum!CuratorPageNext

buyFlow == INSTANCE WriteFlowProofs WITH
    Accounts <- OneWallet, KeptOps <- {"buy"}, Nodes <- BuyNodes, Slots <- OneSlot

\* the runs of the Buy card
LEMMA BuyRuns ==
  ASSUME NEW i
  PROVE  /\ buy!Advance(i) => buyFlow!Advance(i)
         /\ buy!Refreshed(i) => buyFlow!Refreshed(i)
<1>1. buy!Aligned <=> buyFlow!Aligned
  BY DEF buy!Aligned, buyFlow!Aligned, buy!ProbeRpcAlignment, buyFlow!ProbeRpcAlignment,
      buy!SameState, buyFlow!SameState, buy!HashAt, buyFlow!HashAt, buy!Gap, buyFlow!Gap,
      buy!Lower, buyFlow!Lower
<1>2. /\ \A r : buy!Current(r) <=> buyFlow!Current(r)
      /\ \A r, w : buy!Of(r, w) = buyFlow!Of(r, w)
      /\ \A j : buy!Done(j) <=> buyFlow!Done(j)
      /\ \A j, r : buy!Step(j, r) <=> buyFlow!Step(j, r)
  BY DEF buy!Current, buyFlow!Current, buy!Of, buyFlow!Of, buy!IdleStatus, buyFlow!IdleStatus,
      buy!Done, buyFlow!Done, buy!Step, buyFlow!Step, buy!NoRun, buyFlow!NoRun, buy!NoOne,
      buyFlow!NoOne
<1>3. /\ \A r, s : buy!Say(r, s) <=> buyFlow!Say(r, s)
      /\ buy!RightNetwork <=> buyFlow!RightNetwork
  BY <1>2 DEF buy!Say, buyFlow!Say, buy!RightNetwork, buyFlow!RightNetwork
<1>4. buy!Throws(i) => buyFlow!Throws(i)
  BY <1>1, <1>2, <1>3 DEF buy!Throws, buyFlow!Throws
<1>5. buy!Probe(i) => buyFlow!Probe(i)
  BY <1>1, <1>2, <1>3 DEF buy!Probe, buyFlow!Probe
<1>6. buy!Simulate(i) => buyFlow!Simulate(i)
  BY <1>1, <1>2, <1>3 DEF buy!Simulate, buyFlow!Simulate
<1>7. buy!Reprobe(i) => buyFlow!Reprobe(i)
  BY <1>1, <1>2, <1>3 DEF buy!Reprobe, buyFlow!Reprobe
<1>8. buy!Estimate(i) => buyFlow!Estimate(i)
  BY <1>1, <1>2, <1>3 DEF buy!Estimate, buyFlow!Estimate
<1>9. buy!WalletRefuses(i) => buyFlow!WalletRefuses(i)
  BY <1>1, <1>2, <1>3 DEF buy!WalletRefuses, buyFlow!WalletRefuses
<1>10. buy!WalletSends(i) => buyFlow!WalletSends(i)
  BY <1>1, <1>2, <1>3 DEF buy!WalletSends, buyFlow!WalletSends, buy!OnExpectedChain, buyFlow!OnExpectedChain
<1>11. buy!NoReceipt(i) => buyFlow!NoReceipt(i)
  BY <1>1, <1>2, <1>3 DEF buy!NoReceipt, buyFlow!NoReceipt, buy!KeepPending, buyFlow!KeepPending
<1>12. buy!Receipt(i) => buyFlow!Receipt(i)
  BY <1>1, <1>2, <1>3 DEF buy!Receipt, buyFlow!Receipt
<1>13. buy!Refreshed(i) => buyFlow!Refreshed(i)
  BY <1>1, <1>2, <1>3 DEF buy!Refreshed, buyFlow!Refreshed, buy!Outcome, buyFlow!Outcome
<1> QED
  BY <1>4, <1>5, <1>6, <1>7, <1>8, <1>9, <1>10, <1>11, <1>12, <1>13 DEF buy!Advance, buyFlow!Advance

\* what the Buy card may do with it besides
LEMMA BuyRest ==
  /\ buy!FlowInit => buyFlow!FlowInit
  /\ buy!Busy <=> buyFlow!Busy
  /\ \A k : buy!Mine(k) => buyFlow!Mine(k)
  /\ \A op, owner : buy!StartFor(op, owner) <=> buyFlow!StartFor(op, owner)
  /\ buy!ResetFlow => buyFlow!ResetFlow
  /\ buy!StopWaiting => buyFlow!StopWaiting
  /\ buy!SwitchAccount => buyFlow!SwitchAccount
  /\ \A op : buy!Start(op) => UNCHANGED txs /\ buyFlow!StartFor(op, account)
<1>1. buy!FlowInit => buyFlow!FlowInit
  BY DEF buy!FlowInit, buyFlow!FlowInit, buy!IdleStatus, buyFlow!IdleStatus, buy!NoRun,
      buyFlow!NoRun, buy!NoOne, buyFlow!NoOne
<1>2. buy!Busy <=> buyFlow!Busy
  BY DEF buy!Busy, buyFlow!Busy
<1>3. \A k : buy!Mine(k) => buyFlow!Mine(k)
  BY DEF buy!Mine, buyFlow!Mine
<1>4. \A op, owner : buy!StartFor(op, owner) <=> buyFlow!StartFor(op, owner)
  BY DEF buy!StartFor, buyFlow!StartFor, buy!NoRun, buyFlow!NoRun, buy!NoOne, buyFlow!NoOne,
      buy!Killed, buyFlow!Killed, buy!Say, buyFlow!Say, buy!Current, buyFlow!Current, buy!Of,
      buyFlow!Of, buy!IdleStatus, buyFlow!IdleStatus
<1>5. buy!ResetFlow => buyFlow!ResetFlow
  BY DEF buy!ResetFlow, buyFlow!ResetFlow, buy!Busy, buyFlow!Busy, buy!Killed, buyFlow!Killed,
      buy!IdleStatus, buyFlow!IdleStatus, buy!NoOne, buyFlow!NoOne
<1>6. buy!StopWaiting => buyFlow!StopWaiting
  BY DEF buy!StopWaiting, buyFlow!StopWaiting, buy!Killed, buyFlow!Killed
<1>7. buy!SwitchAccount => buyFlow!SwitchAccount
  BY DEF buy!SwitchAccount, buyFlow!SwitchAccount, buy!NewSession, buyFlow!NewSession,
      buy!IdleStatus, buyFlow!IdleStatus, buy!NoOne, buyFlow!NoOne, buy!RightNetwork,
      buyFlow!RightNetwork, buy!Move, buyFlow!Move, buy!ProbeRpcAlignment,
      buyFlow!ProbeRpcAlignment, buy!SameState, buyFlow!SameState, buy!HashAt, buyFlow!HashAt,
      buy!Gap, buyFlow!Gap, buy!Lower, buyFlow!Lower
<1>8. \A op : buy!Start(op) => UNCHANGED txs /\ buyFlow!StartFor(op, account)
  BY <1>4 DEF buy!Start, buy!StartFor
<1> QED
  BY <1>1, <1>2, <1>3, <1>4, <1>5, <1>6, <1>7, <1>8

\* the Buy card's own part: it prepares only while its flow is quiet
BuyQuiet == buy!PrepBusy => ~buyFlow!Busy

\* the Buy card begins to prepare when nothing is in flight, and begins a write when it is prepared
LEMMA BuySteps ==
  buy!BuyNext =>
    \/ buyFlow!FlowGoesOn /\ (buy!PrepBusy' => buy!PrepBusy \/ ~buyFlow!Busy)
    \/ buyFlow!FlowBegins /\ buy!PrepBusy /\ ~buy!PrepBusy'
<1> DEFINE Goes == buyFlow!FlowGoesOn /\ (buy!PrepBusy' => buy!PrepBusy \/ ~buyFlow!Busy)
           Begins == buyFlow!FlowBegins /\ buy!PrepBusy /\ ~buy!PrepBusy'
<1> SUFFICES ASSUME buy!BuyNext PROVE Goes \/ Begins
  OBVIOUS
<1>1. ASSUME UNCHANGED <<account, status, runs, txs>>, buy!PrepBusy' => buy!PrepBusy \/ ~buyFlow!Busy PROVE Goes
  BY <1>1 DEF buyFlow!FlowGoesOn
<1>2. ASSUME UNCHANGED v4 PROVE buy!PrepBusy' = buy!PrepBusy
  BY <1>2 DEF buy!PrepBusy
<1>3. buy!CanSubmit => ~buyFlow!Busy
  BY BuyRest DEF buy!CanSubmit, buy!BuyBusy
<1>4. buy!Prepare("error").phase = "error" /\ buy!Prepare("notice").phase = "notice" /\ buy!IdlePrep.phase = "idle"
  BY DEF buy!Prepare, buy!IdlePrep
<1>5. CASE buy!Refetch \/ buy!Requote \/ buy!QuoteAges \/ buy!ChangeSlippage \/ buy!MarketMoves
  <2>1. UNCHANGED <<account, status, runs, txs>> /\ UNCHANGED v4
    BY <1>5 DEF buy!Refetch, buy!Requote, buy!QuoteAges, buy!ChangeSlippage, buy!MarketMoves, buy!flowVars
  <2> QED
    BY <1>1, <1>2, <2>1
<1>6. CASE buy!ChangeAmount
  <2>1. UNCHANGED <<account, status, runs, txs>> /\ (v4' = v4 \/ v4' = buy!IdlePrep)
    BY <1>6 DEF buy!ChangeAmount, buy!flowVars
  <2>2. buy!PrepBusy' => buy!PrepBusy
    BY <1>4, <2>1 DEF buy!PrepBusy
  <2> QED
    BY <1>1, <2>1, <2>2
<1>7. CASE \/ buy!PressApprove \/ buy!PressBuy
           \/ buy!PressContinue /\ \E a, m, r : buy!Begin("buy", a, m, r)
  <2>1. ~buyFlow!Busy /\ buy!ResetFlow /\ UNCHANGED <<account, txs>>
    BY <1>3, <1>7 DEF buy!PressApprove, buy!PressBuy, buy!PressContinue, buy!Begin
  <2> QED
    BY <2>1, BuyRest DEF buyFlow!FlowGoesOn
<1>8. CASE buy!PressStale \/ (buy!PressContinue /\ buy!Notice)
  <2>1. UNCHANGED <<account, status, runs, txs>> /\ ~buyFlow!Busy
    BY <1>3, <1>8 DEF buy!PressStale, buy!PressContinue, buy!Notice, buy!flowVars
  <2> QED
    BY <1>1, <2>1
<1>9. CASE buy!PrepFails
  <2>1. UNCHANGED <<account, status, runs, txs>> /\ buy!PrepBusy
    BY <1>9 DEF buy!PrepFails, buy!PrepError
  <2> QED
    BY <1>1, <2>1
<1>10. CASE buy!ApprovePrepared \/ buy!BuyPrepared \/ buy!PermitSigned
  <2>1. buy!PrepBusy /\ UNCHANGED account
    BY <1>10 DEF buy!ApprovePrepared, buy!BuyPrepared, buy!PermitSigned, buy!PrepBusy
  <2>2. \/ UNCHANGED <<runs, status, txs>>
        \/ v4' = buy!IdlePrep /\ \E op : buy!Start(op)
    <3>1. \A permit, allowance : buy!HandOver(permit, allowance) =>
            \/ UNCHANGED <<runs, status, txs>>
            \/ v4' = buy!IdlePrep /\ \E op : buy!Start(op)
      BY DEF buy!HandOver, buy!PrepError
    <3>2. CASE buy!ApprovePrepared
      BY <3>2 DEF buy!ApprovePrepared, buy!PrepError
    <3>3. CASE buy!BuyPrepared
      BY <3>1, <3>3 DEF buy!BuyPrepared, buy!PrepError
    <3>4. CASE buy!PermitSigned
      BY <3>1, <3>4 DEF buy!PermitSigned
    <3> QED
      BY <1>10, <3>2, <3>3, <3>4
  <2>3. CASE UNCHANGED <<runs, status, txs>>
    BY <1>1, <2>1, <2>3
  <2>4. CASE v4' = buy!IdlePrep /\ \E op : buy!Start(op)
    <3>1. ~buy!PrepBusy'
      BY <1>4, <2>4 DEF buy!PrepBusy
    <3> QED
      BY <2>1, <2>4, <3>1, BuyRest DEF buyFlow!FlowBegins
  <2> QED
    BY <2>2, <2>3, <2>4
<1>11. CASE buy!BuySwitchAccount
  <2>1. buy!SwitchAccount /\ v4' = buy!IdlePrep
    BY <1>11 DEF buy!BuySwitchAccount
  <2>2. ~buy!PrepBusy'
    BY <1>4, <2>1 DEF buy!PrepBusy
  <2> QED
    BY <2>1, <2>2, BuyRest DEF buyFlow!FlowGoesOn
<1>12. CASE \E i \in OneSlot : buy!BuyAdvance(i) \/ buy!BuyRefreshed(i)
  <2>1. PICK i \in OneSlot : buy!BuyAdvance(i) \/ buy!BuyRefreshed(i)
    BY <1>12
  <2>2. (buy!Advance(i) \/ buy!Refreshed(i)) /\ UNCHANGED v4
    BY <2>1 DEF buy!BuyAdvance, buy!BuyRefreshed
  <2> QED
    BY <1>2, <2>2, BuyRuns DEF buyFlow!FlowGoesOn
<1>13. CASE \E k \in DOMAIN txs : buy!BuyMine(k)
  <2>1. PICK k \in DOMAIN txs : buy!BuyMine(k)
    BY <1>13
  <2>2. buy!Mine(k) /\ UNCHANGED v4
    BY <2>1 DEF buy!BuyMine
  <2> QED
    BY <1>2, <2>2, BuyRest DEF buyFlow!FlowGoesOn
<1>14. CASE (buy!Recheck \/ buy!PollArrives \/ buy!SwitchNode \/ buy!StopWaiting) /\ UNCHANGED buy!buyVars
  <2>1. UNCHANGED v4
    BY <1>14 DEF buy!buyVars
  <2>2. CASE buy!StopWaiting
    BY <1>2, <2>1, <2>2, BuyRest DEF buyFlow!FlowGoesOn
  <2>3. CASE buy!Recheck \/ buy!PollArrives \/ buy!SwitchNode
    BY <1>1, <1>2, <2>1, <2>3 DEF buy!Recheck, buy!PollArrives, buy!SwitchNode
  <2> QED
    BY <1>14, <2>2, <2>3
<1>15. buy!PressContinue => buy!Notice \/ \E a, m, r : buy!Begin("buy", a, m, r)
  BY DEF buy!PressContinue
<1> QED
  BY <1>5, <1>6, <1>7, <1>8, <1>9, <1>10, <1>11, <1>12, <1>13, <1>14, <1>15 DEF buy!BuyNext

marketFlow == INSTANCE WriteFlowProofs WITH
    Accounts <- TwoWallets, KeptOps <- {"approve", "repay", "borrow"}, Nodes <- OneNode, Slots <- OneSlot

\* the runs of the Morpho market page
LEMMA MarketRuns ==
  ASSUME NEW i
  PROVE  /\ morpho!Advance(i) => marketFlow!Advance(i)
         /\ morpho!Refreshed(i) => marketFlow!Refreshed(i)
<1>1. morpho!Aligned <=> marketFlow!Aligned
  BY DEF morpho!Aligned, marketFlow!Aligned, morpho!ProbeRpcAlignment,
      marketFlow!ProbeRpcAlignment, morpho!SameState, marketFlow!SameState, morpho!HashAt,
      marketFlow!HashAt, morpho!Gap, marketFlow!Gap, morpho!Lower, marketFlow!Lower
<1>2. /\ \A r : morpho!Current(r) <=> marketFlow!Current(r)
      /\ \A r, w : morpho!Of(r, w) = marketFlow!Of(r, w)
      /\ \A j : morpho!Done(j) <=> marketFlow!Done(j)
      /\ \A j, r : morpho!Step(j, r) <=> marketFlow!Step(j, r)
  BY DEF morpho!Current, marketFlow!Current, morpho!Of, marketFlow!Of, morpho!IdleStatus,
      marketFlow!IdleStatus, morpho!Done, marketFlow!Done, morpho!Step, marketFlow!Step,
      morpho!NoRun, marketFlow!NoRun, morpho!NoOne, marketFlow!NoOne
<1>3. /\ \A r, s : morpho!Say(r, s) <=> marketFlow!Say(r, s)
      /\ morpho!RightNetwork <=> marketFlow!RightNetwork
  BY <1>2 DEF morpho!Say, marketFlow!Say, morpho!RightNetwork, marketFlow!RightNetwork
<1>4. morpho!Throws(i) => marketFlow!Throws(i)
  BY <1>1, <1>2, <1>3 DEF morpho!Throws, marketFlow!Throws
<1>5. morpho!Probe(i) => marketFlow!Probe(i)
  BY <1>1, <1>2, <1>3 DEF morpho!Probe, marketFlow!Probe
<1>6. morpho!Simulate(i) => marketFlow!Simulate(i)
  BY <1>1, <1>2, <1>3 DEF morpho!Simulate, marketFlow!Simulate
<1>7. morpho!Reprobe(i) => marketFlow!Reprobe(i)
  BY <1>1, <1>2, <1>3 DEF morpho!Reprobe, marketFlow!Reprobe
<1>8. morpho!Estimate(i) => marketFlow!Estimate(i)
  BY <1>1, <1>2, <1>3 DEF morpho!Estimate, marketFlow!Estimate
<1>9. morpho!WalletRefuses(i) => marketFlow!WalletRefuses(i)
  BY <1>1, <1>2, <1>3 DEF morpho!WalletRefuses, marketFlow!WalletRefuses
<1>10. morpho!WalletSends(i) => marketFlow!WalletSends(i)
  BY <1>1, <1>2, <1>3 DEF morpho!WalletSends, marketFlow!WalletSends, morpho!OnExpectedChain,
      marketFlow!OnExpectedChain
<1>11. morpho!NoReceipt(i) => marketFlow!NoReceipt(i)
  BY <1>1, <1>2, <1>3 DEF morpho!NoReceipt, marketFlow!NoReceipt, morpho!KeepPending, marketFlow!KeepPending
<1>12. morpho!Receipt(i) => marketFlow!Receipt(i)
  BY <1>1, <1>2, <1>3 DEF morpho!Receipt, marketFlow!Receipt
<1>13. morpho!Refreshed(i) => marketFlow!Refreshed(i)
  BY <1>1, <1>2, <1>3 DEF morpho!Refreshed, marketFlow!Refreshed, morpho!Outcome, marketFlow!Outcome
<1> QED
  BY <1>4, <1>5, <1>6, <1>7, <1>8, <1>9, <1>10, <1>11, <1>12, <1>13 DEF morpho!Advance, marketFlow!Advance

\* what the market page may do with it besides
LEMMA MarketRest ==
  /\ morpho!FlowInit => marketFlow!FlowInit
  /\ morpho!Busy <=> marketFlow!Busy
  /\ \A k : morpho!Mine(k) => marketFlow!Mine(k)
  /\ \A op, owner : morpho!StartFor(op, owner) <=> marketFlow!StartFor(op, owner)
  /\ morpho!ResetFlow => marketFlow!ResetFlow
  /\ morpho!StopWaiting => marketFlow!StopWaiting
  /\ morpho!SwitchAccount => marketFlow!SwitchAccount
  /\ \A op : morpho!Start(op) => UNCHANGED txs /\ marketFlow!StartFor(op, account)
<1>1. morpho!FlowInit => marketFlow!FlowInit
  BY DEF morpho!FlowInit, marketFlow!FlowInit, morpho!IdleStatus, marketFlow!IdleStatus,
      morpho!NoRun, marketFlow!NoRun, morpho!NoOne, marketFlow!NoOne
<1>2. morpho!Busy <=> marketFlow!Busy
  BY DEF morpho!Busy, marketFlow!Busy
<1>3. \A k : morpho!Mine(k) => marketFlow!Mine(k)
  BY DEF morpho!Mine, marketFlow!Mine
<1>4. \A op, owner : morpho!StartFor(op, owner) <=> marketFlow!StartFor(op, owner)
  BY DEF morpho!StartFor, marketFlow!StartFor, morpho!NoRun, marketFlow!NoRun, morpho!NoOne,
      marketFlow!NoOne, morpho!Killed, marketFlow!Killed, morpho!Say, marketFlow!Say,
      morpho!Current, marketFlow!Current, morpho!Of, marketFlow!Of, morpho!IdleStatus,
      marketFlow!IdleStatus
<1>5. morpho!ResetFlow => marketFlow!ResetFlow
  BY DEF morpho!ResetFlow, marketFlow!ResetFlow, morpho!Busy, marketFlow!Busy, morpho!Killed,
      marketFlow!Killed, morpho!IdleStatus, marketFlow!IdleStatus, morpho!NoOne,
      marketFlow!NoOne
<1>6. morpho!StopWaiting => marketFlow!StopWaiting
  BY DEF morpho!StopWaiting, marketFlow!StopWaiting, morpho!Killed, marketFlow!Killed
<1>7. morpho!SwitchAccount => marketFlow!SwitchAccount
  BY DEF morpho!SwitchAccount, marketFlow!SwitchAccount, morpho!NewSession,
      marketFlow!NewSession, morpho!IdleStatus, marketFlow!IdleStatus, morpho!NoOne,
      marketFlow!NoOne, morpho!RightNetwork, marketFlow!RightNetwork, morpho!Move,
      marketFlow!Move, morpho!ProbeRpcAlignment, marketFlow!ProbeRpcAlignment, morpho!SameState,
      marketFlow!SameState, morpho!HashAt, marketFlow!HashAt, morpho!Gap, marketFlow!Gap,
      morpho!Lower, marketFlow!Lower
<1>8. \A op : morpho!Start(op) => UNCHANGED txs /\ marketFlow!StartFor(op, account)
  BY <1>4 DEF morpho!Start, morpho!StartFor
<1> QED
  BY <1>1, <1>2, <1>3, <1>4, <1>5, <1>6, <1>7, <1>8

\* the market page reads and checks a submission only while its flow is quiet
Submitting == v6.pc \in {"reading", "checking"}
MarketQuiet == Submitting => ~marketFlow!Busy

\* the market page submits when nothing is in flight, and begins a write when it has checked
LEMMA MarketSteps ==
  morpho!MarketNext =>
    \/ marketFlow!FlowGoesOn /\ (Submitting' => Submitting \/ ~marketFlow!Busy)
    \/ marketFlow!FlowBegins /\ Submitting /\ ~Submitting'
<1> DEFINE Goes == marketFlow!FlowGoesOn /\ (Submitting' => Submitting \/ ~marketFlow!Busy)
           Begins == marketFlow!FlowBegins /\ Submitting /\ ~Submitting'
<1> SUFFICES ASSUME morpho!MarketNext PROVE Goes \/ Begins
  OBVIOUS
<1>1. ASSUME marketFlow!FlowGoesOn, UNCHANGED v6 PROVE Goes
  BY <1>1 DEF Submitting
<1>2. ASSUME UNCHANGED <<account, status, runs, txs>>, Submitting' => Submitting \/ ~marketFlow!Busy PROVE Goes
  BY <1>2 DEF marketFlow!FlowGoesOn
<1>3. morpho!NoSubmission.pc = "none"
  BY DEF morpho!NoSubmission
<1>4. CASE morpho!ReadMarket \/ morpho!Expire \/ morpho!SwitchAction \/ morpho!AcknowledgeRisk \/ morpho!Launch
  <2>1. UNCHANGED <<account, status, runs, txs>> /\ UNCHANGED v6
    BY <1>4 DEF morpho!ReadMarket, morpho!Expire, morpho!SwitchAction, morpho!AcknowledgeRisk,
                morpho!Launch, morpho!flowVars
  <2> QED
    BY <1>1, <2>1 DEF marketFlow!FlowGoesOn
<1>5. CASE morpho!Submit
  <2>1. UNCHANGED <<account, status, runs, txs>> /\ ~morpho!Busy
    BY <1>5 DEF morpho!Submit, morpho!PageBusy, morpho!flowVars
  <2> QED
    BY <1>2, <2>1, MarketRest
<1>6. CASE morpho!SubmitFails \/ morpho!SubmitReturns
  <2>1. UNCHANGED <<account, status, runs, txs>> /\ v6' = morpho!NoSubmission
    BY <1>6 DEF morpho!SubmitFails, morpho!SubmitReturns, morpho!SubmitEnds, morpho!flowVars
  <2>2. ~Submitting'
    BY <1>3, <2>1 DEF Submitting
  <2> QED
    BY <1>2, <2>1, <2>2
<1>7. CASE morpho!SubmitReads
  <2>1. UNCHANGED <<account, status, runs, txs>> /\ Submitting
    BY <1>7 DEF morpho!SubmitReads, morpho!flowVars, Submitting
  <2> QED
    BY <1>2, <2>1
<1>8. CASE morpho!SubmitRuns
  <2>1. /\ Submitting /\ UNCHANGED account /\ v6' = [v6 EXCEPT !.pc = "running"]
        /\ \E op, owner : morpho!StartFor(op, owner)
    BY <1>8 DEF morpho!SubmitRuns, Submitting
  <2>2. ~Submitting'
    <3>1. v6'.pc # "reading" /\ v6'.pc # "checking"
      BY <2>1
    <3> QED
      BY <3>1 DEF Submitting
  <2> QED
    BY <2>1, <2>2, MarketRest DEF marketFlow!FlowBegins
<1>9. CASE \E i \in OneSlot : morpho!OpenWallet(i)
  <2>1. PICK i \in OneSlot : morpho!OpenWallet(i)
    BY <1>9
  <2>2. morpho!Throws(i) \/ morpho!Estimate(i)
    BY <2>1 DEF morpho!OpenWallet, morpho!Throws
  <2>3. morpho!Advance(i) /\ UNCHANGED v6
    BY <2>1, <2>2 DEF morpho!Advance, morpho!OpenWallet, morpho!marketVars
  <2> QED
    BY <1>1, <2>3, MarketRuns DEF marketFlow!FlowGoesOn
<1>10. CASE \E i \in OneSlot : morpho!MarketRefreshed(i)
  <2>1. PICK i \in OneSlot : morpho!Refreshed(i) /\ UNCHANGED v6
    BY <1>10 DEF morpho!MarketRefreshed
  <2> QED
    BY <1>1, <2>1, MarketRuns DEF marketFlow!FlowGoesOn
<1>11. CASE \E k \in DOMAIN txs : morpho!MarketMine(k)
  <2>1. PICK k \in DOMAIN txs : morpho!Mine(k) /\ UNCHANGED v6
    BY <1>11 DEF morpho!MarketMine
  <2> QED
    BY <1>1, <2>1, MarketRest DEF marketFlow!FlowGoesOn
<1>12. CASE /\ \/ morpho!SwitchAccount
               \/ \E i \in OneSlot : morpho!Advance(i)
            /\ UNCHANGED morpho!marketVars
  <2>1. UNCHANGED v6
    BY <1>12 DEF morpho!marketVars
  <2>2. CASE morpho!SwitchAccount
    BY <1>1, <2>1, <2>2, MarketRest DEF marketFlow!FlowGoesOn
  <2>3. CASE \E i \in OneSlot : morpho!Advance(i)
    BY <1>1, <2>1, <2>3, MarketRuns DEF marketFlow!FlowGoesOn
  <2> QED
    BY <1>12, <2>2, <2>3
<1>13. \A i : \/ morpho!Throws(i) \/ morpho!Probe(i) \/ morpho!Simulate(i) \/ morpho!Reprobe(i)
              \/ morpho!WalletRefuses(i) \/ morpho!WalletSends(i) \/ morpho!NoReceipt(i) \/ morpho!Receipt(i)
              => morpho!Advance(i)
  BY DEF morpho!Advance
<1> QED
  BY <1>4, <1>5, <1>6, <1>7, <1>8, <1>9, <1>10, <1>11, <1>12, <1>13 DEF morpho!MarketNext

----------------------------------------------------------------------------
(* What the pages on the write flow keep *)

FlowsKept ==
  /\ page = "cards" => cardFlow!FlowInv
  /\ page = "buy" => buyFlow!FlowInv /\ BuyQuiet
  /\ page = "ethereum" => curatorFlow!FlowInv
  /\ page = "morpho" => marketFlow!FlowInv /\ MarketQuiet

\* every page starts with a quiet flow
LEMMA StartFlows == Init => FlowsKept
<1> SUFFICES ASSUME Init PROVE FlowsKept
  OBVIOUS
<1>1. CASE page = "cards"
  BY <1>1, CardRest, cardFlow!FlowStarts DEF Init, Follows, FlowsKept
<1>2. CASE page = "buy"
  <2>1. buy!FlowInit /\ v4 = buy!IdlePrep
    BY <1>2 DEF Init, Follows, buy!BuyInit
  <2>2. ~buy!PrepBusy
    BY <2>1 DEF buy!PrepBusy, buy!IdlePrep
  <2> QED
    BY <1>2, <2>1, <2>2, BuyRest, buyFlow!FlowStarts DEF FlowsKept, BuyQuiet
<1>3. CASE page = "ethereum"
  BY <1>3, CuratorRest, curatorFlow!FlowStarts DEF Init, Follows, FlowsKept
<1>4. CASE page = "morpho"
  <2>1. morpho!FlowInit /\ v6 = morpho!NoSubmission
    BY <1>4 DEF Init, Follows, morpho!MarketInit
  <2>2. ~Submitting
    BY <2>1 DEF Submitting, morpho!NoSubmission
  <2> QED
    BY <1>4, <2>1, <2>2, MarketRest, marketFlow!FlowStarts DEF FlowsKept, MarketQuiet
<1> QED
  BY <1>1, <1>2, <1>3, <1>4 DEF FlowsKept

\* and every step of a page keeps it
LEMMA StepFlows == FlowsKept /\ [Next]_vars => FlowsKept'
<1> SUFFICES ASSUME FlowsKept, [Next]_vars PROVE FlowsKept'
  OBVIOUS
<1>1. CASE UNCHANGED vars
  <2>1. UNCHANGED <<account, status, runs, txs>> /\ UNCHANGED page /\ UNCHANGED v4 /\ UNCHANGED v6
    BY <1>1 DEF vars, flowVars, own
  <2>2. /\ cardFlow!FlowGoesOn /\ buyFlow!FlowGoesOn
        /\ curatorFlow!FlowGoesOn /\ marketFlow!FlowGoesOn
    BY <2>1 DEF cardFlow!FlowGoesOn, buyFlow!FlowGoesOn, curatorFlow!FlowGoesOn, marketFlow!FlowGoesOn
  <2>3. BuyQuiet' = BuyQuiet /\ MarketQuiet' = MarketQuiet
    BY <2>1 DEF BuyQuiet, MarketQuiet, Submitting, buy!PrepBusy, buyFlow!Busy, marketFlow!Busy
  <2> QED
    BY <2>1, <2>2, <2>3, cardFlow!FlowKeeps, buyFlow!FlowKeeps, curatorFlow!FlowKeeps, marketFlow!FlowKeeps
       DEF FlowsKept
<1>2. CASE Next
  <2>1. page' = page
    BY <1>2 DEF Next, On
  <2>2. CASE page = "cards"
    <3>1. cards!CardsNext
      BY <1>2, <2>2 DEF Next, On
    <3> QED
      BY <2>1, <2>2, <3>1, CardSteps, cardFlow!FlowKeeps DEF FlowsKept
  <2>3. CASE page = "buy"
    <3>1. buy!BuyNext
      BY <1>2, <2>3 DEF Next, On
    <3>2. buyFlow!FlowInv /\ BuyQuiet
      BY <2>3 DEF FlowsKept
    <3>3. buyFlow!FlowInv'
      BY <3>1, <3>2, BuySteps, buyFlow!FlowKeeps DEF BuyQuiet
    <3>4. BuyQuiet'
      BY <3>1, <3>2, BuySteps, buyFlow!FlowQuiet DEF BuyQuiet
    <3> QED
      BY <2>1, <2>3, <3>3, <3>4 DEF FlowsKept
  <2>4. CASE page = "ethereum"
    <3>1. ethereum!CuratorPageNext
      BY <1>2, <2>4 DEF Next, On
    <3> QED
      BY <2>1, <2>4, <3>1, CuratorSteps, curatorFlow!FlowKeeps DEF FlowsKept
  <2>5. CASE page = "morpho"
    <3>1. morpho!MarketNext
      BY <1>2, <2>5 DEF Next, On
    <3>2. marketFlow!FlowInv /\ MarketQuiet
      BY <2>5 DEF FlowsKept
    <3>3. marketFlow!FlowInv'
      BY <3>1, <3>2, MarketSteps, marketFlow!FlowKeeps DEF MarketQuiet
    <3>4. MarketQuiet'
      BY <3>1, <3>2, MarketSteps, marketFlow!FlowQuiet DEF MarketQuiet
    <3> QED
      BY <2>1, <2>5, <3>3, <3>4 DEF FlowsKept
  <2>6. CASE page \notin FlowPages
    BY <2>1, <2>6 DEF FlowsKept, FlowPages
  <2> QED
    BY <2>2, <2>3, <2>4, <2>5, <2>6 DEF FlowPages
<1> QED
  BY <1>1, <1>2

\* Whatever switches of account or network, lost receipts, resets and late answers come, a page
\* on the write flow says of a write what is true of the account it shows: a success is of a
\* transaction of that account that was mined as sent (useWriteFlow.ts under AppSurface.tsx's
\* cards, BuyUsdfrPanel.tsx, EthereumCuratorPanel.tsx, MorphoMarketSurface.tsx).
THEOREM FlowPagesSayTheTruth ==
  Spec => [](page \in FlowPages => cards!StatusIsTrue)
<1>1. FlowsKept => (page \in FlowPages => cards!StatusIsTrue)
  <2> SUFFICES ASSUME FlowsKept, page \in FlowPages PROVE cards!StatusIsTrue
    OBVIOUS
  <2>1. \/ cardFlow!StatusIsTrue \/ buyFlow!StatusIsTrue
        \/ curatorFlow!StatusIsTrue \/ marketFlow!StatusIsTrue
    BY cardFlow!FlowSaysTheTruth, buyFlow!FlowSaysTheTruth, curatorFlow!FlowSaysTheTruth,
       marketFlow!FlowSaysTheTruth DEF FlowsKept, FlowPages
  <2> QED
    BY <2>1 DEF cards!StatusIsTrue, cardFlow!StatusIsTrue, buyFlow!StatusIsTrue,
                curatorFlow!StatusIsTrue, marketFlow!StatusIsTrue
<1> QED
  BY <1>1, StartFlows, StepFlows, PTL DEF Spec

money == INSTANCE SolanaVaultProofs WITH
    now <- v1, config <- v2, pos <- v3, roles <- v4, vault <- v5, pool <- v6, executed <- v7,
    emitted <- v8, credit <- v9, due <- v10, orders <- v11

----------------------------------------------------------------------------
(* The program of the page is the program of the proofs *)

\* the helpers: the same in the page and in the proofs
LEMMA SameHelpers ==
  /\ \A t : solana!MonthStart(t) = money!MonthStart(t)
  /\ \A s, t : solana!Later(s, t) = money!Later(s, t)
  /\ \A s, t : solana!Earlier(s, t) = money!Earlier(s, t)
  /\ \A f, n : solana!SumTo(f, n) = money!SumTo(f, n)
  /\ solana!NoPosition = money!NoPosition /\ solana!NoKey = money!NoKey
BY DEF solana!MonthStart, money!MonthStart, solana!Later, money!Later, solana!Earlier,
       money!Earlier, solana!SumTo, money!SumTo, solana!NoPosition, money!NoPosition,
       solana!NoKey, money!NoKey

\* the accrual: the same in the page and in the proofs
LEMMA SameAccrual ==
  /\ \A P, e, from, to : solana!Accrued(P, e, from, to) = money!Accrued(P, e, from, to)
  /\ solana!RateAt(v1) = money!RateAt(v1)
<1>1. \A P, e, from, to : solana!Accrued(P, e, from, to) = money!Accrued(P, e, from, to)
  BY SameHelpers DEF solana!Accrued, money!Accrued
<1>2. solana!RateAt(v1) = money!RateAt(v1)
  BY DEF solana!RateAt, money!RateAt, solana!Max, money!Max
<1> QED
  BY <1>1, <1>2

\* the settlement: the same in the page and in the proofs
LEMMA SameSettlement ==
  /\ \A p, t : solana!Accrue(p, t) = money!Accrue(p, t)
  /\ \A p, t : solana!CheckpointCoupon(p, t) = money!CheckpointCoupon(p, t)
  /\ \A p : solana!Matured(p) = money!Matured(p)
  /\ \A p, t : solana!MatureCoupon(p, t) = money!MatureCoupon(p, t)
  /\ \A p : solana!Opened(p) = money!Opened(p)
  /\ solana!Accounted = money!Accounted
<1>1. \A p, t : solana!Accrue(p, t) = money!Accrue(p, t)
  BY SameAccrual DEF solana!Accrue, money!Accrue
<1>2. \A p, t : solana!CheckpointCoupon(p, t) = money!CheckpointCoupon(p, t)
  BY <1>1, SameHelpers DEF solana!CheckpointCoupon, money!CheckpointCoupon
<1>3. \A p, t : solana!MatureCoupon(p, t) = money!MatureCoupon(p, t)
  BY <1>1 DEF solana!MatureCoupon, money!MatureCoupon
<1>4. \A p : solana!Matured(p) = money!Matured(p)
  BY <1>3, SameHelpers DEF solana!Matured, money!Matured
<1>5. \A p : solana!Opened(p) = money!Opened(p)
  BY SameHelpers DEF solana!Opened, money!Opened
<1>6. solana!Accounted = money!Accounted
  BY DEF solana!Accounted, money!Accounted
<1> QED
  BY <1>1, <1>2, <1>3, <1>4, <1>5, <1>6

\* the signing: the same in the page and in the proofs
LEMMA SameSigning ==
  /\ \A role, call, o : solana!By(role, call, o) <=> money!By(role, call, o)
  /\ \A call, o : solana!ByOwner(call, o) <=> money!ByOwner(call, o)
  /\ \A call, o : solana!ByAnyone(call, o) <=> money!ByAnyone(call, o)
  /\ \A call, key, o : solana!Executes(call, key, o) <=> money!Executes(call, key, o)
  /\ solana!ByNobody <=> money!ByNobody
  /\ solana!Order <=> money!Order
BY SameHelpers
   DEF solana!By, money!By, solana!ByOwner, money!ByOwner, solana!ByAnyone, money!ByAnyone,
       solana!ByNobody, money!ByNobody, solana!Executes, money!Executes, solana!HasOne,
       money!HasOne, solana!Order, money!Order

\* the book: the same in the page and in the proofs
LEMMA SameBook ==
  /\ \A o, p : solana!Book(o, p) <=> money!Book(o, p)
  /\ \A o, amount : solana!LossRecorded(o, amount) <=> money!LossRecorded(o, amount)
  /\ \A o, halted : solana!Halts(o, halted) <=> money!Halts(o, halted)
  /\ \A paused : solana!Pauses(paused) <=> money!Pauses(paused)
BY SameSigning
   DEF solana!Book, money!Book, solana!LossRecorded, money!LossRecorded, solana!Halts,
       money!Halts, solana!Pauses, money!Pauses

\* the positions: the same in the page and in the proofs
LEMMA SamePositions ==
  ASSUME NEW o, NEW amount
  PROVE  /\ solana!Deposit(o, amount) => money!Deposit(o, amount)
         /\ solana!Withdraw(o, amount) => money!Withdraw(o, amount)
         /\ solana!RecordLoss(o, amount) => money!RecordLoss(o, amount)
         /\ solana!PayCoupon(o) => money!PayCoupon(o)
         /\ solana!ClosePosition(o) => money!ClosePosition(o)
<1>1. solana!Deposit(o, amount) => money!Deposit(o, amount)
  BY SameHelpers, SameAccrual, SameSettlement, SameSigning, SameBook
     DEF solana!Deposit, money!Deposit
<1>2. solana!Withdraw(o, amount) => money!Withdraw(o, amount)
  BY SameHelpers, SameAccrual, SameSettlement, SameSigning, SameBook
     DEF solana!Withdraw, money!Withdraw
<1>3. solana!RecordLoss(o, amount) => money!RecordLoss(o, amount)
  BY SameHelpers, SameAccrual, SameSettlement, SameSigning, SameBook
     DEF solana!RecordLoss, money!RecordLoss
<1>4. solana!PayCoupon(o) => money!PayCoupon(o)
  BY SameHelpers, SameAccrual, SameSettlement, SameSigning, SameBook
     DEF solana!PayCoupon, money!PayCoupon
<1>5. solana!ClosePosition(o) => money!ClosePosition(o)
  BY SameHelpers, SameAccrual, SameSettlement, SameSigning, SameBook
     DEF solana!ClosePosition, money!ClosePosition
<1> QED
  BY <1>1, <1>2, <1>3, <1>4, <1>5

\* the status: the same in the page and in the proofs
LEMMA SameStatus ==
  ASSUME NEW o, NEW agreement, NEW halted
  PROVE  /\ solana!Allowlist(o, agreement) => money!Allowlist(o, agreement)
         /\ solana!RevokeAllowlist(o) => money!RevokeAllowlist(o)
         /\ solana!SetPayoutHalt(o, halted) => money!SetPayoutHalt(o, halted)
         /\ solana!EmergencyHalt(o) => money!EmergencyHalt(o)
         /\ solana!RequestWithdrawal(o) => money!RequestWithdrawal(o)
         /\ solana!CancelWithdrawal(o) => money!CancelWithdrawal(o)
<1>1. solana!Allowlist(o, agreement) => money!Allowlist(o, agreement)
  BY SameHelpers, SameAccrual, SameSettlement, SameSigning, SameBook
     DEF solana!Allowlist, money!Allowlist
<1>2. solana!RevokeAllowlist(o) => money!RevokeAllowlist(o)
  BY SameHelpers, SameAccrual, SameSettlement, SameSigning, SameBook
     DEF solana!RevokeAllowlist, money!RevokeAllowlist
<1>3. solana!SetPayoutHalt(o, halted) => money!SetPayoutHalt(o, halted)
  BY SameHelpers, SameAccrual, SameSettlement, SameSigning, SameBook
     DEF solana!SetPayoutHalt, money!SetPayoutHalt
<1>4. solana!EmergencyHalt(o) => money!EmergencyHalt(o)
  BY SameHelpers, SameAccrual, SameSettlement, SameSigning, SameBook
     DEF solana!EmergencyHalt, money!EmergencyHalt
<1>5. solana!RequestWithdrawal(o) => money!RequestWithdrawal(o)
  BY SameHelpers, SameAccrual, SameSettlement, SameSigning, SameBook
     DEF solana!RequestWithdrawal, money!RequestWithdrawal
<1>6. solana!CancelWithdrawal(o) => money!CancelWithdrawal(o)
  BY SameHelpers, SameAccrual, SameSettlement, SameSigning, SameBook
     DEF solana!CancelWithdrawal, money!CancelWithdrawal
<1> QED
  BY <1>1, <1>2, <1>3, <1>4, <1>5, <1>6

\* the treasury: the same in the page and in the proofs
LEMMA SameTreasury ==
  ASSUME NEW o, NEW amount
  PROVE  /\ solana!DrawToTreasury(o, amount) => money!DrawToTreasury(o, amount)
         /\ solana!ReturnPrincipal(o, amount) => money!ReturnPrincipal(o, amount)
         /\ solana!FundCoupons(amount) => money!FundCoupons(amount)
         /\ solana!SweepCoupons(amount) => money!SweepCoupons(amount)
         /\ solana!WithdrawUnused(amount) => money!WithdrawUnused(amount)
         /\ solana!SweepPrincipalSurplus(amount) => money!SweepPrincipalSurplus(amount)
<1>1. solana!DrawToTreasury(o, amount) => money!DrawToTreasury(o, amount)
  BY SameHelpers, SameAccrual, SameSettlement, SameSigning, SameBook
     DEF solana!DrawToTreasury, money!DrawToTreasury
<1>2. solana!ReturnPrincipal(o, amount) => money!ReturnPrincipal(o, amount)
  BY SameHelpers, SameAccrual, SameSettlement, SameSigning, SameBook
     DEF solana!ReturnPrincipal, money!ReturnPrincipal
<1>3. solana!FundCoupons(amount) => money!FundCoupons(amount)
  BY SameHelpers, SameAccrual, SameSettlement, SameSigning, SameBook
     DEF solana!FundCoupons, money!FundCoupons
<1>4. solana!SweepCoupons(amount) => money!SweepCoupons(amount)
  BY SameHelpers, SameAccrual, SameSettlement, SameSigning, SameBook
     DEF solana!SweepCoupons, money!SweepCoupons
<1>5. solana!WithdrawUnused(amount) => money!WithdrawUnused(amount)
  BY SameHelpers, SameAccrual, SameSettlement, SameSigning, SameBook
     DEF solana!WithdrawUnused, money!WithdrawUnused
<1>6. solana!SweepPrincipalSurplus(amount) => money!SweepPrincipalSurplus(amount)
  BY SameHelpers, SameAccrual, SameSettlement, SameSigning, SameBook
     DEF solana!SweepPrincipalSurplus, money!SweepPrincipalSurplus
<1> QED
  BY <1>1, <1>2, <1>3, <1>4, <1>5, <1>6

\* the administration: the same in the page and in the proofs
LEMMA SameAdmin ==
  ASSUME NEW a, NEW b
  PROVE  /\ solana!SetRate(a, b) => money!SetRate(a, b)
         /\ solana!SetTerms(a, b) => money!SetTerms(a, b)
         /\ solana!SetPaused(a) => money!SetPaused(a)
         /\ solana!EmergencyPause => money!EmergencyPause
         /\ solana!SetAuthorities(a) => money!SetAuthorities(a)
         /\ solana!ProposeAdmin(a) => money!ProposeAdmin(a)
         /\ solana!AcceptAdmin(a) => money!AcceptAdmin(a)
         /\ solana!Donate => money!Donate
         /\ solana!Elapse => money!Elapse
<1>1. solana!SetRate(a, b) => money!SetRate(a, b)
  BY SameHelpers, SameAccrual, SameSettlement, SameSigning, SameBook
     DEF solana!SetRate, money!SetRate
<1>2. solana!SetTerms(a, b) => money!SetTerms(a, b)
  BY SameHelpers, SameAccrual, SameSettlement, SameSigning, SameBook
     DEF solana!SetTerms, money!SetTerms
<1>3. solana!SetPaused(a) => money!SetPaused(a)
  BY SameHelpers, SameAccrual, SameSettlement, SameSigning, SameBook
     DEF solana!SetPaused, money!SetPaused
<1>4. solana!EmergencyPause => money!EmergencyPause
  BY SameHelpers, SameAccrual, SameSettlement, SameSigning, SameBook
     DEF solana!EmergencyPause, money!EmergencyPause
<1>5. solana!SetAuthorities(a) => money!SetAuthorities(a)
  BY SameHelpers, SameAccrual, SameSettlement, SameSigning, SameBook
     DEF solana!SetAuthorities, money!SetAuthorities, solana!HasOne, money!HasOne
<1>6. solana!ProposeAdmin(a) => money!ProposeAdmin(a)
  BY SameHelpers, SameAccrual, SameSettlement, SameSigning, SameBook
     DEF solana!ProposeAdmin, money!ProposeAdmin, solana!HasOne, money!HasOne
<1>7. solana!AcceptAdmin(a) => money!AcceptAdmin(a)
  BY SameHelpers, SameAccrual, SameSettlement, SameSigning, SameBook
     DEF solana!AcceptAdmin, money!AcceptAdmin
<1>8. solana!Donate => money!Donate
  BY SameHelpers, SameAccrual, SameSettlement, SameSigning, SameBook
     DEF solana!Donate, money!Donate
<1>9. solana!Elapse => money!Elapse
  BY SameHelpers, SameAccrual, SameSettlement, SameSigning, SameBook
     DEF solana!Elapse, money!Elapse
<1> QED
  BY <1>1, <1>2, <1>3, <1>4, <1>5, <1>6, <1>7, <1>8, <1>9

\* all steps together: the same in the page and in the proofs
LEMMA SameNext ==
  solana!VaultNext => money!VaultNext
BY SamePositions, SameStatus, SameTreasury, SameAdmin DEF solana!VaultNext, money!VaultNext

\* the start: the same in the page and in the proofs
LEMMA SameInit ==
  solana!VaultInit => money!VaultInit
BY SameHelpers DEF solana!VaultInit, money!VaultInit

\* the sums over positions: the same in the page and in the proofs
LEMMA SameSums ==
  \A f : solana!Sum(f) = money!Sum(f)
<1>1. \A S : solana!Cardinality(S) = money!Cardinality(S)
  BY DEF solana!Cardinality, money!Cardinality
<1>2. \A S, T : solana!Bijection(S, T) = money!Bijection(S, T)
  BY DEF solana!Bijection, money!Bijection, solana!Injection, money!Injection,
       solana!Surjection, money!Surjection, solana!IsInjective, money!IsInjective
<1>3. solana!Listed = money!Listed
  BY <1>1, <1>2 DEF solana!Listed, money!Listed
<1> QED
  BY <1>1, <1>3, SameHelpers DEF solana!Sum, money!Sum

\* what is proved of the program holds of the page
LEMMA SameProperties ==
  money!VaultBacked /\ money!CouponConserved /\ money!ClaimableIsPaid =>
    solana!VaultBacked /\ solana!CouponConserved /\ solana!ClaimableIsPaid
<1>1. money!VaultBacked => solana!VaultBacked
  BY SameSums, SameSettlement DEF solana!VaultBacked, money!VaultBacked
<1>2. money!CouponConserved => solana!CouponConserved
  BY SameHelpers, SameAccrual, SameSettlement DEF solana!CouponConserved, money!CouponConserved
<1>3. \A p : money!CouponView(p) = solana!CouponView(p) /\ money!EarnedUnpaid(p) = solana!EarnedUnpaid(p)
  BY SameHelpers, SameAccrual, SameSettlement
     DEF solana!CouponView, money!CouponView, solana!EarnedUnpaid, money!EarnedUnpaid
<1>4. money!ClaimableIsPaid => solana!ClaimableIsPaid
  BY <1>3, SameHelpers, SameSettlement DEF solana!ClaimableIsPaid, money!ClaimableIsPaid
<1> QED
  BY <1>1, <1>2, <1>4

----------------------------------------------------------------------------
(* What holds of the Solana page *)

MoneyKept == page = "solana" => money!VaultInv

\* the constants of the page are those of the program
LEMMA ProgramOK ==
  money!VaultOK
BY PagesOK DEF solana!VaultOK, money!VaultOK, solana!IsFiniteSet, money!IsFiniteSet

\* the Solana page starts in the invariant of the program
LEMMA StartKept ==
  Init => MoneyKept
<1> SUFFICES ASSUME Init, page = "solana" PROVE money!VaultInv
  BY DEF MoneyKept
<1>1. solana!VaultInit
  BY DEF Init, Follows
<1> QED
  BY <1>1, ProgramOK, SameInit, money!InitKept

\* and every step of the page keeps it
LEMMA StepKept ==
  MoneyKept /\ [Next]_vars => MoneyKept'
<1> SUFFICES ASSUME MoneyKept, [Next]_vars, page' = "solana" PROVE money!VaultInv'
  BY DEF MoneyKept
<1>1. CASE Next
  <2>1. page = "solana" /\ solana!VaultNext
    BY <1>1 DEF Next, On
  <2> QED
    BY <2>1, ProgramOK, SameNext, money!NextKeeps DEF MoneyKept
<1>2. CASE UNCHANGED vars
  <2>1. UNCHANGED page /\ UNCHANGED money!vaultVars
    BY <1>2 DEF vars, own, money!vaultVars
  <2> QED
    BY <2>1, money!RestsKeeps DEF MoneyKept
<1> QED
  BY <1>1, <1>2

\* Whatever is deposited, drawn, lost, returned, paid, swept or donated and whenever positions
\* are settled: both accounts of the Solana program hold what its positions are due, its totals
\* are the positions', coupon is neither lost nor made, and the page shows what the crank would
\* pay (treasury.rs, state.rs and math.rs of the program, curatorVaultMath.ts of the page).
THEOREM VaultStaysExact ==
  Spec => []VaultExact
<1>1. MoneyKept => VaultExact
  BY ProgramOK, SameProperties, money!InvBacked, money!InvConserves, money!InvClaims
     DEF MoneyKept, VaultExact
<1> QED
  BY <1>1, StartKept, StepKept, PTL DEF Spec

\* A write whose outcome is open is not sent again, over account switches, late receipts, resets,
\* tabs, reloads, lost replies and deleted proposals: of the Buy card and of the Morpho page one
\* kept write is with the wallet or unresolved (keepPendingUntilReceipt of useWriteFlow.ts), and of
\* the treasury's seeds one is executed or still can be (morphoTreasury.ts), apart from one executed
\* between the two reads of the clear that drops its record.
THEOREM NothingIsSentTwice ==
  Spec => []NeverTwice
<1>1. FlowsKept /\ SeedKept => NeverTwice
  <2> SUFFICES ASSUME FlowsKept, SeedKept PROVE NeverTwice
    OBVIOUS
  <2>1. page = "buy" => buy!OneKeptWrite
    BY buyFlow!FlowKeepsOne DEF FlowsKept, buy!OneKeptWrite, buyFlow!OneKeptWrite, buy!Cardinality, buyFlow!Cardinality
  <2>2. page = "morpho" => morpho!OneKeptWrite
    BY marketFlow!FlowKeepsOne
       DEF FlowsKept, morpho!OneKeptWrite, marketFlow!OneKeptWrite, morpho!Cardinality, marketFlow!Cardinality
  <2>3. page = "seed" => seed!OneSeed
    BY SeedOnce DEF SeedKept
  <2> QED
    BY <2>1, <2>2, <2>3 DEF NeverTwice
<1> QED
  BY <1>1, StartFlows, StepFlows, StartSeeds, StepSeeds, PTL DEF Spec

----------------------------------------------------------------------------
(* The points pages: v1 is the card, v2 the build it runs in, v3 and v4 the visitor's wallet *)
(* and network, v5 the chain and v6 the answers by query key.                                *)

Sources == {"onchain", "pendle", "morpho"}

\* a block: who has earned what, with which status, and what was dropped, frozen or switched off
IsBlock(b) ==
  /\ b = [points |-> b.points, status |-> b.status, dropped |-> b.dropped, frozen |-> b.frozen,
          pendle |-> b.pendle, morpho |-> b.morpho]
  /\ b.points \in [Members -> [Sources -> Nat]]
  /\ b.status \in [Members -> points!Excluded \union {"none"}]

ChainIs == (\E S : v5 \in Seq(S)) /\ Len(v5) > 0 /\ \A n \in DOMAIN v5 : IsBlock(v5[n])

\* what the answers say, at a block of the chain
\* a ranking of k lines: all of those ranked, or their top
Lines(a, k) ==
  /\ \E S : a.rows \in [1..k -> S]
  /\ DOMAIN a.rows = 1..k /\ Len(a.rows) = k
  /\ a.truncated => points!Cardinality(points!Ranked(a.block)) > k
BoardTrue(a) ==
  /\ a.block \in DOMAIN v5
  /\ \E k \in Nat : Lines(a, k)
  /\ \A i \in DOMAIN a.rows :
        /\ a.rows[i].wallet \in points!Ranked(a.block)
        /\ a.rows[i].points = points!Total(a.rows[i].wallet, a.block)
        /\ a.rows[i].rank = points!RankOf(a.rows[i].wallet, a.block)
  /\ ~a.truncated => \A w \in points!Ranked(a.block) : \E i \in DOMAIN a.rows : a.rows[i].wallet = w
VenueTrue(w, source, a) ==
  IF a.enabled
  THEN /\ a.block \in DOMAIN v5
       /\ a.excluded = v5[a.block].status[w]
       /\ a.points = points!Credited(w, source, a.block)
  ELSE ~v2 \/ \E n \in DOMAIN v5 : ~v5[n][source]
HeldBackTrue(w, a) == a.enabled /\ a.reconcileRequired => w \in v5[a.block].dropped
LedgerTrue(w, a) ==
  /\ a.block \in DOMAIN v5
  /\ \A read \in points!LedgerReads : a.reads[read] \in {<<>>, <<points!LedgerValue(w, a.block, read)>>}
AnswerTrue(key, a) ==
  /\ v1 = "board" => a.enabled /\ BoardTrue(a)
  /\ v1 = "pendle" => VenueTrue(key, "pendle", a)
  /\ v1 = "morpho" => VenueTrue(key, "morpho", a) /\ HeldBackTrue(key, a)
  /\ v1 = "ledger" => LedgerTrue(key, a)

\* an entry of the query cache, empty or with a true answer
IsEntry(e) ==
  /\ e = [data |-> e.data, failure |-> e.failure, failures |-> e.failures, flying |-> e.flying]
  /\ e.failure \in points!Failures \union {"none"}
EntryTrue(key, e) == IsEntry(e) /\ (e.data = <<>> \/ \E a : e.data = <<a>> /\ AnswerTrue(key, a))
CacheTrue ==
  /\ v6 = [key \in DOMAIN v6 |-> v6[key]]
  /\ \A key \in DOMAIN v6 : EntryTrue(key, v6[key])
Looking ==
  /\ v1 \in points!Cards /\ v3 \in Visitors \union {0} /\ v7 \in Int
  /\ DOMAIN v6 = IF v1 = "board" THEN {0} ELSE Visitors

PointsInv == ChainIs /\ Looking /\ CacheTrue

\* the visitors and those who earn are members
LEMMA MembersAre ==
  /\ IsFiniteSet(Members) /\ Members \subseteq Nat \ {0} /\ Visitors \subseteq Members /\ Movers \subseteq Members
  /\ Grain \in Nat /\ OnePoint \in Nat /\ ListCap \in Nat /\ RowStep \in Nat \ {0}
BY PagesOK DEF points!MembersOK, points!IsFiniteSet, IsFiniteSet, points!Nobody

\* the first block is one
LEMMA GenesisIs == IsBlock(points!Genesis)
<1>1. \A w \in Members : (IF w = 1 THEN Grain ELSE 2 * Grain) \in Nat
  BY MembersAre
<1> QED
  BY <1>1 DEF IsBlock, points!Genesis, Sources

\* the invariant holds at the start
LEMMA PointsStarts == points!PointsInit => PointsInv
<1> SUFFICES ASSUME points!PointsInit PROVE PointsInv
  OBVIOUS
<1>1. v5 = <<points!Genesis>> /\ v5 \in Seq({points!Genesis}) /\ DOMAIN v5 = 1..1 /\ v5[1] = points!Genesis
  BY DEF points!PointsInit
<1>2. ChainIs
  <2>1. \E S : v5 \in Seq(S)
    BY <1>1
  <2>2. \A n \in DOMAIN v5 : IsBlock(v5[n])
    BY <1>1, GenesisIs
  <2> QED
    BY <1>1, <2>1, <2>2 DEF ChainIs
<1>3. IsEntry(points!NotAsked) /\ points!NotAsked.data = <<>>
  BY DEF IsEntry, points!NotAsked
<1>4. Looking /\ CacheTrue
  BY <1>3, MembersAre DEF points!PointsInit, Looking, CacheTrue, EntryTrue, points!Nobody, points!Everyone
<1> QED
  BY <1>2, <1>4 DEF PointsInv

\* the next block is one, and the chain keeps those before it
LEMMA LaterIs ==
  ASSUME NEW b, IsBlock(b), NEW c \in points!Later(b)
  PROVE  IsBlock(c)
<1>1. CASE c \in {[b EXCEPT !.points[w][source] = @ + Grain] : w \in Movers, source \in {"onchain", "pendle", "morpho"}}
  <2>1. PICK w \in Movers, source \in Sources : c = [b EXCEPT !.points[w][source] = @ + Grain]
    BY <1>1 DEF Sources
  <2>2. b.points[w][source] + Grain \in Nat /\ w \in Members
    BY MembersAre DEF IsBlock
  <2>3. PICK p : p = [b.points EXCEPT ![w][source] = @ + Grain]
    OBVIOUS
  <2>4. p \in [Members -> [Sources -> Nat]]
    BY <2>2, <2>3 DEF IsBlock
  <2>5. c = [points |-> p, status |-> b.status, dropped |-> b.dropped, frozen |-> b.frozen,
             pendle |-> b.pendle, morpho |-> b.morpho]
    BY <2>1, <2>3 DEF IsBlock
  <2> QED
    BY <2>4, <2>5 DEF IsBlock
<1>2. CASE c \in {[b EXCEPT !.status[w] = standing] : w \in Movers, standing \in points!Excluded \union {"none"}}
  <2>1. PICK w \in Movers, standing \in points!Excluded \union {"none"} : c = [b EXCEPT !.status[w] = standing]
    BY <1>2
  <2>2. PICK t : t = [b.status EXCEPT ![w] = standing]
    OBVIOUS
  <2>3. t \in [Members -> points!Excluded \union {"none"}]
    BY <2>2, MembersAre DEF IsBlock
  <2>4. c = [points |-> b.points, status |-> t, dropped |-> b.dropped, frozen |-> b.frozen,
             pendle |-> b.pendle, morpho |-> b.morpho]
    BY <2>1, <2>2 DEF IsBlock
  <2> QED
    BY <2>3, <2>4 DEF IsBlock
<1>3. CASE c \in {[b EXCEPT !.dropped = @ \union {w}] : w \in Movers}
  BY <1>3 DEF IsBlock
<1>4. CASE c \in {[b EXCEPT !.frozen = @ \union {<<w, class>>}] : w \in Movers, class \in CapitalClasses}
  BY <1>4 DEF IsBlock
<1>5. CASE c \in {[b EXCEPT !.pendle = ~@], [b EXCEPT !.morpho = ~@]}
  BY <1>5 DEF IsBlock
<1> QED
  BY <1>1, <1>2, <1>3, <1>4, <1>5 DEF points!Later

Grown == v1' = v1 /\ v2' = v2 /\ \A n \in DOMAIN v5 : n \in DOMAIN v5' /\ v5'[n] = v5[n]

\* an answer stays true as the chain grows
LEMMA AnswersStay ==
  ASSUME Grown, NEW key, NEW a, AnswerTrue(key, a)
  PROVE  AnswerTrue(key, a)'
<1>1. \A n \in DOMAIN v5 : \A w : points!Total(w, n)' = points!Total(w, n) /\ (points!Earning(w, n)' <=> points!Earning(w, n))
  BY DEF Grown, points!Total, points!Earning
<1>2. \A n \in DOMAIN v5 : points!Ranked(n)' = points!Ranked(n)
  BY <1>1 DEF points!Ranked
<1>3. \A n \in DOMAIN v5 : \A w : points!RankOf(w, n)' = points!RankOf(w, n)
  BY <1>1, <1>2 DEF points!RankOf
<1>4. CASE v1 = "board"
  <2>1. BoardTrue(a) /\ a.block \in DOMAIN v5 /\ a.block \in DOMAIN v5'
    BY <1>4 DEF AnswerTrue, BoardTrue, Grown
  <2>2. \A k : Lines(a, k) => Lines(a, k)'
    BY <1>2, <2>1 DEF Lines
  <2>3. BoardTrue(a)'
    BY <1>1, <1>2, <1>3, <2>1, <2>2 DEF BoardTrue
  <2> QED
    BY <1>4, <2>3 DEF AnswerTrue, Grown
<1>5. CASE v1 # "board"
  <2>1. \A n \in DOMAIN v5 : \A source \in Sources : points!Credited(key, source, n)' = points!Credited(key, source, n)
    BY <1>1 DEF Grown, points!Credited
  <2>2. \A n \in DOMAIN v5 : \A read : points!LedgerValue(key, n, read)' = points!LedgerValue(key, n, read)
    BY DEF Grown, points!LedgerValue
  <2>3. \A source \in Sources : VenueTrue(key, source, a) => VenueTrue(key, source, a)'
    BY <2>1 DEF Grown, VenueTrue
  <2>4. LedgerTrue(key, a) => LedgerTrue(key, a)'
    BY <2>2 DEF Grown, LedgerTrue
  <2>5. VenueTrue(key, "morpho", a) /\ HeldBackTrue(key, a) => HeldBackTrue(key, a)'
    BY DEF Grown, VenueTrue, HeldBackTrue
  <2> QED
    BY <1>5, <2>3, <2>4, <2>5 DEF AnswerTrue, Grown, Sources
<1> QED
  BY <1>4, <1>5


\* who is ranked at a block can be listed by points
LEMMA RankedList ==
  ASSUME ChainIs, NEW n \in DOMAIN v5
  PROVE  /\ IsFiniteSet(points!Ranked(n))
         /\ points!InOrder(n) \in [1..Cardinality(points!Ranked(n)) -> points!Ranked(n)]
         /\ \A w \in points!Ranked(n) : \E i \in 1..Cardinality(points!Ranked(n)) : points!InOrder(n)[i] = w
<1> DEFINE S == points!Ranked(n)
           R == {pair \in S \X S : points!Above(pair[1], pair[2], n)}
<1>1. IsFiniteSet(S) /\ S \subseteq Members
  <2>1. S \in SUBSET Members
    BY DEF points!Ranked
  <2> QED
    BY <2>1, MembersAre, FS_Subset
<1>2. \A w \in Members : points!Total(w, n) \in Nat
  BY DEF ChainIs, IsBlock, points!Total, Sources
<1>3. StrictlyOrders(R, S)
  <2>1. \A v, w \in S : points!Total(v, n) \in Nat /\ points!Total(w, n) \in Nat /\ v \in Nat /\ w \in Nat
    BY <1>1, <1>2, MembersAre
  <2> HIDE DEF S
  <2>2. \A v, w \in S : <<v, w>> \in R <=> points!Total(v, n) > points!Total(w, n) \/ (points!Total(v, n) = points!Total(w, n) /\ v < w)
    BY DEF points!Above
  <2> HIDE DEF R
  <2> QED
    BY <2>1, <2>2 DEF StrictlyOrders
<1>4. Cardinality(S) = points!Cardinality(S)
  BY DEF Cardinality, points!Cardinality
<1> DEFINE Sorted(s) == s \in [1..Cardinality(S) -> S] /\ \A i, j \in DOMAIN s : i < j => points!Above(s[i], s[j], n)
<1>5. \A s : Sorted(s) => Lists(s, S, R)
  <2> SUFFICES ASSUME NEW s, Sorted(s) PROVE Lists(s, S, R)
    OBVIOUS
  <2>1. s \in [1..Cardinality(S) -> S] /\ \A i, j \in 1..Cardinality(S) : i < j => points!Above(s[i], s[j], n)
    OBVIOUS
  <2>2. \A i, j \in 1..Cardinality(S) : i < j => <<s[i], s[j]>> \in R
    BY <2>1
  <2> QED
    BY <2>1, <2>2 DEF Lists
<1>6. \A s : Lists(s, S, R) => Sorted(s)
  BY DEF Lists
<1>7. Sorted(points!InOrder(n))
  <2>1. \E s : Sorted(s)
    BY <1>1, <1>3, <1>6, ListExists
  <2>2. points!InOrder(n) = CHOOSE s \in [1..Cardinality(S) -> S] : \A i, j \in DOMAIN s : i < j => points!Above(s[i], s[j], n)
    BY <1>4 DEF points!InOrder
  <2> QED
    BY <2>1, <2>2
<1>8. Lists(points!InOrder(n), S, R)
  BY <1>5, <1>7
<1>9. \A w \in S : \E i \in 1..Cardinality(S) : points!InOrder(n)[i] = w
  BY <1>1, <1>3, <1>8, ListIsWhole
<1> QED
  BY <1>1, <1>7, <1>9

\* what the server answers is true of the block it was read at
LEMMA BoardHolds ==
  ASSUME ChainIs, NEW n \in DOMAIN v5
  PROVE  points!Board(n).enabled /\ BoardTrue(points!Board(n))
<1> DEFINE S == points!Ranked(n)
           all == points!InOrder(n)
           row(w) == [wallet |-> w, rank |-> points!RankOf(w, n), points |-> points!Total(w, n)]
<1>1. PICK c : c = Cardinality(S)
  OBVIOUS
<1>2. /\ c \in Nat /\ c = points!Cardinality(S) /\ all \in [1..c -> S] /\ Len(all) = c
      /\ \A w \in S : \E i \in 1..c : all[i] = w
  <2>1. /\ IsFiniteSet(S) /\ all \in [1..c -> S]
        /\ \A w \in S : \E i \in 1..c : all[i] = w
    BY <1>1, RankedList
  <2>2. c \in Nat
    BY <1>1, <2>1, FS_CardinalityType
  <2>3. c = points!Cardinality(S)
    BY <1>1 DEF Cardinality, points!Cardinality
  <2> HIDE DEF S, all
  <2>4. Len(all) = c
    BY <2>1, <2>2
  <2> QED
    BY <2>1, <2>2, <2>3, <2>4
<1>3. PICK k : k = points!Min({ListCap, c})
  OBVIOUS
<1>4. k \in Nat /\ ((k = c /\ c <= ListCap) \/ (k = ListCap /\ c > ListCap))
  <2>1. ListCap \in Nat /\ c \in Nat
    BY <1>2, MembersAre
  <2>2. \E x \in {ListCap, c} : \A y \in {ListCap, c} : x =< y
    BY <2>1
  <2>3. k \in {ListCap, c} /\ \A y \in {ListCap, c} : k =< y
    BY <1>3, <2>2 DEF points!Min
  <2> QED
    BY <2>1, <2>3
<1>5. points!Board(n) = [enabled |-> TRUE, block |-> n, truncated |-> c > ListCap, rows |-> [i \in 1..k |-> row(all[i])]]
  BY <1>2, <1>3 DEF points!Board
<1> HIDE DEF S, all
<1>6. /\ points!Board(n).block = n /\ points!Board(n).enabled /\ (points!Board(n).truncated <=> c > ListCap)
      /\ points!Board(n).rows = [i \in 1..k |-> row(all[i])]
  <2>1. points!Board(n).block = n /\ points!Board(n).enabled
    BY <1>5
  <2>2. points!Board(n).truncated <=> c > ListCap
    <3>1. PICK rows : rows = [i \in 1..k |-> row(all[i])]
      OBVIOUS
    <3>2. CASE c > ListCap
      <4>1. points!Board(n) = [enabled |-> TRUE, block |-> n, truncated |-> TRUE, rows |-> rows]
        BY <1>5, <3>1, <3>2
      <4> QED
        BY <3>2, <4>1
    <3>3. CASE ~(c > ListCap)
      <4>1. points!Board(n) = [enabled |-> TRUE, block |-> n, truncated |-> FALSE, rows |-> rows]
        <5>1. (c > ListCap) = FALSE
          BY <1>2, <3>3, MembersAre
        <5> QED
          BY <1>5, <3>1, <5>1, Zenon
      <4> QED
        BY <3>3, <4>1
    <3> QED
      BY <3>2, <3>3
  <2>3. points!Board(n).rows = [i \in 1..k |-> row(all[i])]
    <3>1. PICK rows : rows = [i \in 1..k |-> row(all[i])]
      OBVIOUS
    <3>2. points!Board(n) = [enabled |-> TRUE, block |-> n, truncated |-> c > ListCap, rows |-> rows]
      BY <1>5, <3>1
    <3>3. points!Board(n).rows = rows
      BY <3>2
    <3> QED
      BY <3>1, <3>3
  <2> QED
    BY <2>1, <2>2, <2>3
<1>7. \A i \in 1..k : all[i] \in S
  BY <1>2, <1>4
<1>8. DOMAIN points!Board(n).rows = 1..k /\ Len(points!Board(n).rows) = k /\ \E T : points!Board(n).rows \in [1..k -> T]
  <2>1. PICK T, rows : T = {row(all[i]) : i \in 1..k} /\ rows = [i \in 1..k |-> row(all[i])]
    OBVIOUS
  <2>2. rows \in [1..k -> T] /\ DOMAIN rows = 1..k /\ Len(rows) = k
    BY <1>4, <2>1
  <2>3. points!Board(n).rows = rows
    BY <1>6, <2>1
  <2> QED
    BY <2>2, <2>3, Zenon
<1>9. c > ListCap => points!Cardinality(points!Ranked(n)) > k
  <2>1. points!Cardinality(points!Ranked(n)) = c
    BY <1>2 DEF S
  <2> QED
    BY <1>2, <1>4, <2>1, MembersAre
<1>10. ASSUME NEW i \in 1..k
       PROVE  /\ points!Board(n).rows[i].wallet \in points!Ranked(n)
              /\ points!Board(n).rows[i].points = points!Total(points!Board(n).rows[i].wallet, n)
              /\ points!Board(n).rows[i].rank = points!RankOf(points!Board(n).rows[i].wallet, n)
  BY <1>6, <1>7 DEF S
<1>11. ~(c > ListCap) => \A w \in points!Ranked(n) : \E i \in 1..k : points!Board(n).rows[i].wallet = w
  BY <1>2, <1>4, <1>6 DEF S
<1> QED
  <2>1. n \in DOMAIN v5 /\ points!Board(n).block = n /\ points!Board(n).enabled
    BY <1>6
  <2>2. \E l \in Nat : Lines(points!Board(n), l)
    BY <1>4, <1>6, <1>8, <1>9 DEF Lines
  <2>3. ~points!Board(n).truncated =>
          \A w \in points!Ranked(points!Board(n).block) : \E i \in DOMAIN points!Board(n).rows : points!Board(n).rows[i].wallet = w
    BY <1>6, <1>8, <1>11
  <2>4. PICK b : b = points!Board(n)
    OBVIOUS
  <2>5. \A i \in DOMAIN b.rows : /\ b.rows[i].wallet \in points!Ranked(n)
                                /\ b.rows[i].points = points!Total(b.rows[i].wallet, n)
                                /\ b.rows[i].rank = points!RankOf(b.rows[i].wallet, n)
    BY <1>8, <1>10, <2>4
  <2>6. b.block = n /\ n \in DOMAIN v5
    BY <2>1, <2>4
  <2>7. BoardTrue(b)
    BY <2>2, <2>3, <2>4, <2>5, <2>6, Zenon DEF BoardTrue
  <2> QED
    BY <2>1, <2>4, <2>7

\* an answer of the mirror's route is true
LEMMA MorphoHolds ==
  ASSUME NEW w, NEW n \in DOMAIN v5
  PROVE  VenueTrue(w, "morpho", points!MorphoAnswer(w, n)) /\ HeldBackTrue(w, points!MorphoAnswer(w, n))
BY DEF VenueTrue, HeldBackTrue, points!MorphoAnswer, points!Off, points!Earning

\* what the points site says wrongly of a wallet is refused
LEMMA PendleHolds ==
  ASSUME ChainIs, NEW w \in Members, NEW a \in points!LoadPendlePoints(w)
  PROVE  VenueTrue(w, "pendle", a)
<1>1. CASE ~v2
  BY <1>1 DEF points!LoadPendlePoints, points!Off, VenueTrue
<1>2. CASE v2
  <2>1. PICK n \in DOMAIN v5 : a \in points!PendleBodies(w, n) /\ points!ParsePendlePoints(a, w)
    BY <1>2 DEF points!LoadPendlePoints
  <2>2. CASE ~v5[n].pendle
    BY <2>1, <2>2 DEF points!PendleBodies, points!PendleBody, points!Off, VenueTrue
  <2>3. CASE v5[n].pendle
    <3> DEFINE Plain(v) == [enabled |-> TRUE, wallet |-> v, block |-> n, excluded |-> v5[n].status[v],
                            points |-> points!Credited(v, "pendle", n),
                            markets |-> <<[yt |-> points!Credited(v, "pendle", n), sy |-> 0, lp |-> 0,
                                           points |-> points!Credited(v, "pendle", n)]>>]
    <3>1. \A v : points!PendleBody(v, n) = Plain(v)
      BY <2>3 DEF points!PendleBody
    <3>2. \A v : v = w => VenueTrue(w, "pendle", Plain(v))
      BY DEF VenueTrue
    <3>3. \A v : Plain(v).enabled /\ Plain(v).wallet = v /\ Plain(v).points = points!Credited(v, "pendle", n)
      OBVIOUS
    <3>4. points!Credited(w, "pendle", n) \in Nat
      BY DEF ChainIs, IsBlock, Sources, points!Credited
    <3>5. a.enabled => a.wallet = w /\ (a.excluded \in points!Excluded => a.points = 0)
      BY <2>1 DEF points!ParsePendlePoints
    <3>6. CASE \E v : a = Plain(v)
      <4>1. PICK v : a = Plain(v)
        BY <3>6
      <4>2. v = w
        BY <3>3, <3>5, <4>1
      <4> QED
        BY <3>2, <4>1, <4>2
    <3>7. CASE a = [Plain(w) EXCEPT !.markets = <<>>] \/ a = [Plain(w) EXCEPT !.markets[1].yt = 0]
      BY <3>7 DEF VenueTrue
    <3>8. CASE points!Credited(w, "pendle", n) > 0 /\ a = [Plain(w) EXCEPT !.excluded = "protocol-exempt"]
      <4>1. a.enabled /\ a.excluded = "protocol-exempt" /\ a.points = points!Credited(w, "pendle", n)
        BY <3>8
      <4> QED
        BY <3>4, <3>5, <3>8, <4>1 DEF points!Excluded
    <3> HIDE DEF Plain
    <3>9. \/ \E v : a = Plain(v)
          \/ a = [Plain(w) EXCEPT !.markets = <<>>] \/ a = [Plain(w) EXCEPT !.markets[1].yt = 0]
          \/ points!Credited(w, "pendle", n) > 0 /\ a = [Plain(w) EXCEPT !.excluded = "protocol-exempt"]
      BY <2>1, <3>1, <3>3 DEF points!PendleBodies
    <3> QED
      BY <3>6, <3>7, <3>8, <3>9
  <2> QED
    BY <2>2, <2>3
<1> QED
  BY <1>1, <1>2

\* the reads of a wallet are true of their block
LEMMA LedgerHolds ==
  ASSUME NEW w, NEW a \in points!LedgerAnswers(w)
  PROVE  LedgerTrue(w, a)
<1>1. PICK n \in DOMAIN v5, lost \in {{}} \union {{read} : read \in MayFail} : a = points!LedgerAnswer(w, n, lost)
  BY DEF points!LedgerAnswers
<1> QED
  BY <1>1 DEF LedgerTrue, points!LedgerAnswer

\* every answer of a card is true when it is given
LEMMA AnswersHold ==
  ASSUME ChainIs, Looking, NEW key \in DOMAIN v6, NEW a \in points!AnswersTo(key)
  PROVE  AnswerTrue(key, a)
<1>1. CASE v1 = "board"
  <2>1. PICK n \in DOMAIN v5 : a = points!Board(n)
    BY <1>1 DEF points!AnswersTo
  <2> QED
    BY <1>1, <2>1, BoardHolds DEF AnswerTrue
<1>2. CASE v1 = "morpho"
  <2>1. PICK n \in DOMAIN v5 : a = points!MorphoAnswer(key, n)
    BY <1>2 DEF points!AnswersTo
  <2> QED
    BY <1>2, <2>1, MorphoHolds DEF AnswerTrue
<1>3. CASE v1 = "pendle"
  <2>1. a \in points!LoadPendlePoints(key) /\ key \in Members
    BY <1>3, MembersAre DEF points!AnswersTo, Looking
  <2> QED
    BY <1>3, <2>1, PendleHolds DEF AnswerTrue
<1>4. CASE v1 = "ledger"
  <2>1. a \in points!LedgerAnswers(key)
    BY <1>4 DEF points!AnswersTo
  <2> QED
    BY <1>4, <2>1, LedgerHolds DEF AnswerTrue
<1> QED
  BY <1>1, <1>2, <1>3, <1>4 DEF Looking, points!Cards

\* an entry is as true after a step that leaves the chain or lengthens it
LEMMA EntryStays ==
  ASSUME Grown, NEW key, NEW e, EntryTrue(key, e)
  PROVE  EntryTrue(key, e)'
<1>1. CASE e.data = <<>>
  BY <1>1 DEF EntryTrue, IsEntry
<1>2. CASE e.data # <<>>
  <2>1. PICK a : e.data = <<a>> /\ AnswerTrue(key, a)
    BY <1>2 DEF EntryTrue
  <2>2. AnswerTrue(key, a)'
    BY <2>1, AnswersStay
  <2> QED
    BY <2>1, <2>2 DEF EntryTrue, IsEntry
<1> QED
  BY <1>1, <1>2

\* the chain may grow under the cached answers
LEMMA CacheStays ==
  ASSUME PointsInv, Grown, UNCHANGED v6
  PROVE  CacheTrue'
<1> SUFFICES ASSUME NEW key \in DOMAIN v6 PROVE EntryTrue(key, v6[key])'
  BY DEF PointsInv, CacheTrue
<1>1. PICK e : e = v6[key]
  OBVIOUS
<1>2. EntryTrue(key, e)
  BY <1>1 DEF PointsInv, CacheTrue
<1>3. EntryTrue(key, e)'
  BY <1>2, EntryStays
<1>4. v6'[key] = e
  BY <1>1
<1> QED
  BY <1>3, <1>4

\* a new block
LEMMA MineKeeps ==
  ASSUME PointsInv, points!Mine
  PROVE  PointsInv'
<1>1. PICK b : b \in points!Later(points!Last(v5)) /\ v5' = Append(v5, b)
  BY DEF points!Mine
<1>2. PICK S : v5 \in Seq(S)
  BY DEF PointsInv, ChainIs
<1>3. PICK n : n = Len(v5)
  OBVIOUS
<1>4. n \in Nat /\ n > 0 /\ DOMAIN v5 = 1..n /\ IsBlock(v5[n])
  BY <1>2, <1>3 DEF PointsInv, ChainIs
<1>5. IsBlock(b)
  BY <1>1, <1>3, <1>4, LaterIs DEF points!Last
<1>6. DOMAIN v5' = 1..(n + 1) /\ v5'[n + 1] = b /\ Len(v5') = n + 1 /\ \A i \in 1..n : v5'[i] = v5[i]
  BY <1>1, <1>2, <1>3, <1>4
<1>7. v5' \in Seq(S \union {b})
  BY <1>1, <1>2
<1>8. ChainIs'
  <2>1. \A i \in DOMAIN v5' : IsBlock(v5'[i])
    BY <1>4, <1>5, <1>6 DEF PointsInv, ChainIs
  <2> QED
    BY <1>4, <1>6, <1>7, <2>1 DEF ChainIs
<1>9. Grown /\ Looking' /\ UNCHANGED v6
  BY <1>4, <1>6 DEF points!Mine, Grown, PointsInv, Looking
<1> QED
  BY <1>8, <1>9, CacheStays DEF PointsInv

\* the wallet, its network and the rows shown change nothing of the answers
LEMMA LookingKeeps ==
  ASSUME PointsInv, UNCHANGED <<v1, v2, v5, v6>>, v3' \in Visitors \union {0}, v7' \in Int
  PROVE  PointsInv'
<1>1. Grown /\ ChainIs' /\ Looking'
  BY DEF Grown, PointsInv, ChainIs, Looking
<1> QED
  BY <1>1, CacheStays DEF PointsInv

\* one entry of the cache is replaced by a true one
LEMMA EntryPut ==
  ASSUME PointsInv, NEW key \in DOMAIN v6, NEW e, EntryTrue(key, e),
         v6' = [v6 EXCEPT ![key] = e], UNCHANGED <<v1, v2, v3, v5, v7>>
  PROVE  PointsInv'
<1>1. Grown /\ ChainIs'
  BY DEF Grown, PointsInv, ChainIs
<1>2. DOMAIN v6' = DOMAIN v6 /\ v6' = [k \in DOMAIN v6 |-> v6'[k]]
  BY DEF PointsInv, CacheTrue
<1>3. Looking'
  BY <1>2 DEF PointsInv, Looking
<1>4. ASSUME NEW k \in DOMAIN v6 PROVE EntryTrue(k, v6[k])'
  <2>1. PICK d : d = v6'[k]
    OBVIOUS
  <2>2. EntryTrue(k, d)
    BY <2>1 DEF PointsInv, CacheTrue
  <2>3. EntryTrue(k, d)'
    BY <1>1, <2>2, EntryStays
  <2> QED
    BY <2>1, <2>3
<1> QED
  BY <1>1, <1>2, <1>3, <1>4 DEF PointsInv, CacheTrue

\* the queries: asked, answered, failed or collected
LEMMA QueriesKeep ==
  ASSUME PointsInv, NEW key \in DOMAIN v6,
         points!Ask(key) \/ points!Answered(key) \/ points!Fails(key) \/ points!Collect(key)
  PROVE  PointsInv'
<1>1. PICK e : e = v6[key]
  OBVIOUS
<1>2. EntryTrue(key, e) /\ e.failure \in points!Failures \union {"none"}
  BY <1>1 DEF PointsInv, CacheTrue, EntryTrue, IsEntry
<1>2b. e = [data |-> e.data, failure |-> e.failure, failures |-> e.failures, flying |-> e.flying]
  BY <1>1 DEF PointsInv, CacheTrue, EntryTrue, IsEntry
<1>3. UNCHANGED <<v1, v2, v3, v5, v7>>
  BY DEF points!Ask, points!Answered, points!Fails, points!Collect
<1>4. ASSUME NEW f, IsEntry(f), f.data = e.data PROVE EntryTrue(key, f)
  BY <1>2, <1>4 DEF EntryTrue
<1>5. IsEntry(points!NotAsked) /\ points!NotAsked.data = <<>>
  BY DEF IsEntry, points!NotAsked
<1>6. CASE points!Ask(key)
  <2>0. PICK flies : flies = TRUE
    OBVIOUS
  <2>9. PICK failure : failure = IF e.data = <<>> THEN "none" ELSE e.failure
    OBVIOUS
  <2>1. PICK f : f = [data |-> e.data, failure |-> failure, failures |-> 0, flying |-> flies]
    OBVIOUS
  <2>2. v6' = [v6 EXCEPT ![key] = f]
    <3>1. PICK q : q = [e EXCEPT !.flying = TRUE, !.failures = 0, !.failure = IF e.data = <<>> THEN "none" ELSE @]
      OBVIOUS
    <3>2. v6' = [v6 EXCEPT ![key] = q]
      BY <1>1, <1>6, <3>1 DEF points!Ask
    <3>3. q = f
      <4>1. PICK p : p = [e EXCEPT !.flying = flies]
        OBVIOUS
      <4>2. p = [data |-> e.data, failure |-> e.failure, failures |-> e.failures, flying |-> flies]
        BY <1>2b, <4>1
      <4>3. PICK o : o = [p EXCEPT !.failures = 0]
        OBVIOUS
      <4>4. o = [data |-> e.data, failure |-> e.failure, failures |-> 0, flying |-> flies]
        BY <4>2, <4>3
      <4>5. q = [o EXCEPT !.failure = IF e.data = <<>> THEN "none" ELSE @]
        BY <2>0, <3>1, <4>1, <4>3
      <4>6. q = [o EXCEPT !.failure = failure]
        BY <2>9, <4>4, <4>5
      <4> QED
        BY <2>1, <4>4, <4>6
    <3> QED
      BY <3>2, <3>3
  <2>3. EntryTrue(key, f)
    BY <1>2, <1>4, <2>9, <2>1 DEF IsEntry
  <2> QED
    BY <1>3, <2>2, <2>3, EntryPut
<1>7. CASE points!Answered(key)
  <2>1. PICK a \in points!AnswersTo(key) : v6' = [v6 EXCEPT ![key] = [points!NotAsked EXCEPT !.data = <<a>>]]
    BY <1>7 DEF points!Answered
  <2>2. PICK f : f = [points!NotAsked EXCEPT !.data = <<a>>]
    OBVIOUS
  <2>3. IsEntry(f) /\ f.data = <<a>>
    BY <2>2 DEF IsEntry, points!NotAsked
  <2>4. AnswerTrue(key, a)
    BY AnswersHold DEF PointsInv
  <2>5. EntryTrue(key, f)
    BY <2>3, <2>4 DEF EntryTrue
  <2>6. v6' = [v6 EXCEPT ![key] = f]
    BY <2>1, <2>2
  <2> QED
    BY <1>3, <2>5, <2>6, EntryPut
<1>8. CASE points!Fails(key)
  <2>1. PICK failure \in points!Failures : v6' = IF v6[key].failures < points!RetriesOf(failure)
                             THEN [v6 EXCEPT ![key].failures = @ + 1]
                             ELSE [v6 EXCEPT ![key].failure = failure, ![key].flying = FALSE]
    BY <1>8 DEF points!Fails, points!Failures
  <2>2. CASE v6' = [v6 EXCEPT ![key].failures = @ + 1]
    <3>1. PICK f : f = [data |-> e.data, failure |-> e.failure, failures |-> e.failures + 1, flying |-> e.flying]
      OBVIOUS
    <3>2. v6' = [v6 EXCEPT ![key] = f]
      <4>1. PICK q : q = [e EXCEPT !.failures = @ + 1]
        OBVIOUS
      <4>2. v6' = [v6 EXCEPT ![key] = q]
        BY <1>1, <2>2, <4>1
      <4>3. q = f
        BY <1>2b, <3>1, <4>1
      <4> QED
        BY <4>2, <4>3
    <3>3. EntryTrue(key, f)
      BY <1>2, <1>4, <3>1 DEF IsEntry
    <3> QED
      BY <1>3, <3>2, <3>3, EntryPut
  <2>3. CASE v6' = [v6 EXCEPT ![key].failure = failure, ![key].flying = FALSE]
    <3>0. PICK landed : landed = FALSE
      OBVIOUS
    <3>1. PICK f : f = [data |-> e.data, failure |-> failure, failures |-> e.failures, flying |-> landed]
      OBVIOUS
    <3>2. v6' = [v6 EXCEPT ![key] = f]
      <4>1. PICK q : q = [e EXCEPT !.failure = failure, !.flying = FALSE]
        OBVIOUS
      <4>2. v6' = [v6 EXCEPT ![key] = q]
        BY <1>1, <2>3, <4>1
      <4>3. q = f
        <5>1. PICK p : p = [e EXCEPT !.failure = failure]
          OBVIOUS
        <5>2. p = [data |-> e.data, failure |-> failure, failures |-> e.failures, flying |-> e.flying]
          BY <1>2b, <5>1
        <5>3. q = [p EXCEPT !.flying = landed]
          BY <3>0, <4>1, <5>1
        <5> QED
          BY <3>1, <5>2, <5>3
      <4> QED
        BY <4>2, <4>3
    <3>3. EntryTrue(key, f)
      BY <1>4, <2>1, <3>1 DEF IsEntry
    <3> QED
      BY <1>3, <3>2, <3>3, EntryPut
  <2> QED
    BY <2>1, <2>2, <2>3
<1>9. CASE points!Collect(key)
  <2>1. v6' = [v6 EXCEPT ![key] = points!NotAsked]
    BY <1>9 DEF points!Collect
  <2>2. EntryTrue(key, points!NotAsked)
    BY <1>5 DEF EntryTrue
  <2> QED
    BY <1>3, <2>1, <2>2, EntryPut
<1> QED
  BY <1>6, <1>7, <1>8, <1>9

----------------------------------------------------------------------------
(* What the screens show of it *)

\* the entry the visitor looks at
LEMMA EntryIs ==
  ASSUME PointsInv, NEW key \in DOMAIN v6, points!QueryKey = key, points!Entry.data # <<>>
  PROVE  AnswerTrue(key, points!Data)
<1>1. points!Entry = v6[key]
  BY DEF points!Entry
<1>2. PICK a : v6[key].data = <<a>> /\ AnswerTrue(key, a)
  BY <1>1 DEF PointsInv, CacheTrue, EntryTrue
<1>3. points!Data = a
  BY <1>1, <1>2 DEF points!Data
<1> QED
  BY <1>2, <1>3

\* the first row that is the visitor's, if there is one
LEMMA MineIs ==
  ASSUME NEW k \in Nat, DOMAIN points!Data.rows = 1..k, Len(points!Data.rows) = k
  PROVE  /\ points!IndexOfMine \in 0..k
         /\ points!IndexOfMine > 0 => points!Data.rows[points!IndexOfMine].wallet = v3
         /\ points!IndexOfMine = 0 => \A i \in 1..k : points!Data.rows[i].wallet # v3
<1> DEFINE I == {i \in 1..k : points!Data.rows[i].wallet = v3}
<1>1. points!IndexOfMine = IF I # {} THEN points!Min(I) ELSE 0
  BY DEF points!IndexOfMine, points!SelectInSeq
<1>2. CASE I = {}
  BY <1>1, <1>2
<1>3. CASE I # {}
  <2>1. I \in SUBSET Nat
    OBVIOUS
  <2>2. \E x \in I : \A y \in I : x <= y
    BY <1>3, <2>1, LeastElement
  <2>3. points!Min(I) \in I
    BY <2>2 DEF points!Min
  <2> QED
    BY <1>1, <1>3, <2>3
<1> QED
  BY <1>2, <1>3

\* a board on the screen is one that was true at its block
LEMMA BoardIs ==
  ASSUME PointsInv, v1 = "board", points!BoardScreen = "board"
  PROVE  BoardTrue(points!Data)
<1>1. points!QueryKey = 0 /\ 0 \in DOMAIN v6 /\ points!Entry = v6[0] /\ IsEntry(v6[0])
  BY DEF points!QueryKey, points!Everyone, PointsInv, Looking, points!Entry, CacheTrue, EntryTrue
<1>2. points!Entry.data # <<>>
  BY <1>1 DEF points!BoardScreen, points!Failures, points!IsError, IsEntry
<1> QED
  BY <1>1, <1>2, EntryIs DEF AnswerTrue

\* every step of the points pages
LEMMA PointsKeep == PointsInv /\ points!PointsNext => PointsInv'
<1> SUFFICES ASSUME PointsInv, points!PointsNext PROVE PointsInv'
  OBVIOUS
<1>1. CASE points!Mine
  BY <1>1, MineKeeps
<1>2. CASE points!SwitchWallet
  <2>1. v3' \in Visitors \union {0} /\ UNCHANGED <<v1, v2, v5, v6>> /\ v7' \in Int
    BY <1>2 DEF points!SwitchWallet, points!Nobody, PointsInv, Looking
  <2> QED
    BY <2>1, LookingKeeps
<1>3. CASE points!SwitchNetwork \/ points!ShowMyRow \/ points!ShowMore
  <2>1. UNCHANGED <<v1, v2, v3, v5, v6>>
    BY <1>3 DEF points!SwitchNetwork, points!ShowMyRow, points!ShowMore
  <2>2. v3' \in Visitors \union {0} /\ v7 \in Int
    BY <2>1 DEF PointsInv, Looking
  <2>3. CASE points!SwitchNetwork
    BY <2>1, <2>2, <2>3, LookingKeeps DEF points!SwitchNetwork
  <2>4. CASE points!ShowMore
    <3>1. v7' \in Int
      BY <2>2, <2>4, MembersAre DEF points!ShowMore
    <3> QED
      BY <2>1, <2>2, <3>1, LookingKeeps
  <2>5. CASE points!ShowMyRow
    <3>1. v1 = "board" /\ points!BoardScreen = "board"
      BY <2>5 DEF points!ShowMyRow
    <3>2. points!IndexOfMine \in Int
      <4>1. PICK k \in Nat : DOMAIN points!Data.rows = 1..k /\ Len(points!Data.rows) = k
        BY <3>1, BoardIs DEF BoardTrue, Lines
      <4> QED
        BY <4>1, MineIs
    <3>3. PICK m : m = (points!IndexOfMine + RowStep - 1) \div RowStep
      OBVIOUS
    <3>4. m \in Int
      BY <3>2, <3>3, MembersAre
    <3>5. v7' = m * RowStep
      BY <2>5, <3>3 DEF points!ShowMyRow
    <3>6. v7' \in Int
      BY <3>4, <3>5, MembersAre
    <3> QED
      BY <2>1, <2>2, <3>6, LookingKeeps
  <2> QED
    BY <1>3, <2>3, <2>4, <2>5
<1>4. CASE \E key \in DOMAIN v6 : points!Ask(key) \/ points!Answered(key) \/ points!Fails(key) \/ points!Collect(key)
  BY <1>4, QueriesKeep
<1> QED
  BY <1>1, <1>2, <1>3, <1>4 DEF points!PointsNext

\* the board shown
LEMMA ShowsBoard == PointsInv => points!BoardIsTrue
<1> SUFFICES ASSUME PointsInv, v1 = "board", points!BoardScreen = "board" PROVE points!BoardIsTrue
  BY DEF points!BoardIsTrue
<1> DEFINE n == points!Data.block
<1>3. BoardTrue(points!Data)
  BY BoardIs
<1>4. PICK k \in Nat : /\ DOMAIN points!Data.rows = 1..k /\ Len(points!Data.rows) = k
                       /\ \E S : points!Data.rows \in [1..k -> S]
                       /\ points!Data.truncated => points!Cardinality(points!Ranked(n)) > k
  BY <1>3 DEF BoardTrue, Lines
<1>5. ASSUME NEW i \in DOMAIN points!VisibleRows
      PROVE  LET row == points!VisibleRows[i]
             IN  row.wallet \in points!Ranked(n) /\ row.points = points!Total(row.wallet, n) /\ row.rank = points!RankOf(row.wallet, n)
  <2>1. i \in 1..k /\ points!VisibleRows[i] = points!Data.rows[i]
    <3>1. PICK rows : rows = points!Data.rows
      OBVIOUS
    <3>2. PICK m : m = points!Min({v7, k})
      OBVIOUS
    <3>3. m \in Int /\ m <= k
      <4>1. v7 \in Int
        BY DEF PointsInv, Looking
      <4>2. \E x \in {v7, k} : \A y \in {v7, k} : x =< y
        BY <4>1
      <4> QED
        BY <3>2, <4>1, <4>2 DEF points!Min
    <3>4. points!VisibleRows = SubSeq(rows, 1, m)
      BY <1>4, <3>1, <3>2 DEF points!VisibleRows
    <3>5. DOMAIN SubSeq(rows, 1, m) = 1..m /\ \A j \in 1..m : SubSeq(rows, 1, m)[j] = rows[j]
      <4>1. PICK S : rows \in [1..k -> S]
        BY <1>4, <3>1
      <4> HIDE DEF n
      <4>2. rows \in Seq(S) /\ Len(rows) = k
        BY <1>4, <3>1, <4>1
      <4>3. CASE m < 1
        BY <3>3, <4>2, <4>3
      <4>4. CASE m >= 1
        BY <3>3, <4>2, <4>4
      <4> QED
        BY <3>3, <4>3, <4>4
    <3> QED
      BY <1>4, <3>1, <3>3, <3>4, <3>5
  <2> QED
    BY <1>3, <1>4, <2>1 DEF BoardTrue
<1>6. CASE points!OwnLine = "ranks"
  <2>1. points!IndexOfMine > 0
    BY <1>6 DEF points!OwnLine
  <2>2. points!IndexOfMine \in 1..k /\ points!Data.rows[points!IndexOfMine].wallet = v3
    BY <1>4, <2>1, MineIs
  <2>3. points!Data.rows[points!IndexOfMine].rank = points!RankOf(v3, n)
    BY <1>3, <1>4, <2>2 DEF BoardTrue
  <2> QED
    BY <1>5, <1>6, <2>3 DEF points!BoardIsTrue
<1>7. CASE points!OwnLine # "ranks"
  <2>1. points!IndexOfMine = 0
    BY <1>4, <1>7, MineIs DEF points!OwnLine
  <2>2. \A i \in 1..k : points!Data.rows[i].wallet # v3
    BY <1>4, <2>1, MineIs
  <2>3. CASE points!Data.truncated
    <3>1. points!OwnLine = "not in the top"
      BY <2>1, <2>3 DEF points!OwnLine
    <3>2. points!Cardinality(points!Ranked(n)) > Len(points!Data.rows)
      BY <1>4, <2>3
    <3> QED
      BY <1>5, <3>1, <3>2 DEF points!BoardIsTrue
  <2>4. CASE ~points!Data.truncated
    <3>1. points!OwnLine = "no points"
      BY <2>1, <2>4 DEF points!OwnLine
    <3>2. v3 \notin points!Ranked(n)
      BY <1>3, <1>4, <2>2, <2>4 DEF BoardTrue
    <3> QED
      BY <1>5, <3>1, <3>2 DEF points!BoardIsTrue
  <2> QED
    BY <2>3, <2>4
<1> QED
  BY <1>6, <1>7

\* a card of a venue shows what the answer in the cache says
LEMMA ShowsVenues ==
  PointsInv => points!VenueIsTrue("pendle", points!PendleScreen) /\ points!VenueIsTrue("morpho", points!MorphoScreen)
<1> SUFFICES ASSUME PointsInv, points!Mounted(v3), v1 \in {"pendle", "morpho"}
             PROVE  /\ v1 = "pendle" => points!VenueIsTrue("pendle", points!PendleScreen)
                    /\ v1 = "morpho" => points!VenueIsTrue("morpho", points!MorphoScreen)
  BY DEF points!VenueIsTrue
<1>1. points!QueryKey = v3 /\ v3 \in DOMAIN v6 /\ points!Entry = v6[v3] /\ v3 \in Visitors
  BY DEF points!QueryKey, points!Mounted, points!Nobody, PointsInv, Looking, points!Entry
<1>2. points!Entry.data = <<>> \/ AnswerTrue(v3, points!Data)
  BY <1>1, EntryIs
<1>3. CASE v1 = "pendle"
  <2>1. points!Entry.data = <<>> \/ VenueTrue(v3, "pendle", points!Data)
    BY <1>2, <1>3 DEF AnswerTrue
  <2>2. points!Entry.data = <<>> \/ ~points!Data.enabled
          \/ (/\ points!Data.excluded = v5[points!Data.block].status[v3] /\ points!Data.excluded \in points!Excluded \union {"none"}
              /\ points!Data.points = points!Credited(v3, "pendle", points!Data.block))
    <3>1. \A n \in DOMAIN v5 : v5[n].status[v3] \in points!Excluded \union {"none"}
      BY <1>1, MembersAre DEF PointsInv, ChainIs, IsBlock
    <3> QED
      BY <2>1, <3>1 DEF VenueTrue
  <2>3. points!Entry.data = <<>> \/ points!Data.enabled \/ ~v2 \/ \E n \in DOMAIN v5 : ~v5[n]["pendle"]
    BY <2>1 DEF VenueTrue
  <2> QED
    BY <1>3, <2>2, <2>3 DEF points!VenueIsTrue, points!PendleScreen, points!Excluded, points!Earning
<1>4. CASE v1 = "morpho"
  <2>1. points!Entry.data = <<>> \/ VenueTrue(v3, "morpho", points!Data)
    BY <1>2, <1>4 DEF AnswerTrue
  <2>2. points!Entry.data = <<>> \/ ~points!Data.enabled
          \/ (/\ points!Data.excluded = v5[points!Data.block].status[v3] /\ points!Data.excluded \in points!Excluded \union {"none"}
              /\ points!Data.points = points!Credited(v3, "morpho", points!Data.block))
    <3>1. \A n \in DOMAIN v5 : v5[n].status[v3] \in points!Excluded \union {"none"}
      BY <1>1, MembersAre DEF PointsInv, ChainIs, IsBlock
    <3> QED
      BY <2>1, <3>1 DEF VenueTrue
  <2>3. points!Entry.data = <<>> \/ points!Data.enabled \/ ~v2 \/ \E n \in DOMAIN v5 : ~v5[n]["morpho"]
    BY <2>1 DEF VenueTrue
  <2>4. points!Entry.data = <<>> \/ HeldBackTrue(v3, points!Data)
    BY <1>2, <1>4 DEF AnswerTrue
  <2> QED
    BY <1>4, <2>2, <2>3, <2>4 DEF points!VenueIsTrue, points!MorphoScreen, HeldBackTrue, points!Excluded, points!Earning
<1> QED
  BY <1>3, <1>4

\* the wallet's own figures shown
LEMMA ShowsLedger == PointsInv => points!LedgerIsTrue
<1> SUFFICES ASSUME PointsInv, v1 = "ledger", points!LedgerScreen = "figures" PROVE points!LedgerIsTrue
  BY DEF points!LedgerIsTrue
<1>1. points!QueryKey = v3 /\ v3 \in DOMAIN v6 /\ points!Entry = v6[v3]
  BY DEF points!QueryKey, points!LedgerScreen, points!Connected, points!Nobody, PointsInv, Looking, points!Entry
<1>2. PICK n : n = points!Data.block
  OBVIOUS
<1>3. \A read \in points!LedgerReads : points!Result(read) = <<>> \/ (n \in DOMAIN v5 /\ points!Result(read) = <<points!LedgerValue(v3, n, read)>>)
  <2>1. CASE points!Entry.data = <<>>
    BY <2>1 DEF points!Result
  <2>2. CASE points!Entry.data # <<>>
    <3>1. LedgerTrue(v3, points!Data)
      BY <1>1, <2>2, EntryIs DEF AnswerTrue
    <3> QED
      BY <1>2, <2>2, <3>1 DEF LedgerTrue, points!Result
  <2> QED
    BY <2>1, <2>2
<1>4. points!Result(<<"points", 0>>) # <<>> =>
        \E m \in DOMAIN v5 : points!Result(<<"points", 0>>)[1] = v5[m].points[v3].onchain
  <2>1. <<"points", 0>> \in points!LedgerReads /\ points!LedgerValue(v3, n, <<"points", 0>>) = v5[n].points[v3].onchain
    BY DEF points!LedgerReads, points!LedgerValue
  <2> QED
    BY <1>3, <2>1
<1>5. ASSUME NEW class \in CapitalClasses
      PROVE  points!Result(<<"capital", class>>) \in {<<>>, <<points!Capital(v3, class)>>}
  <2>1. <<"capital", class>> \in points!LedgerReads /\ points!LedgerValue(v3, n, <<"capital", class>>) = points!Capital(v3, class)
    BY DEF points!LedgerReads, points!LedgerValue
  <2> QED
    BY <1>3, <2>1
<1>6. points!CuratorBalance \in {<<>>, <<points!SumFunction([class \in CapitalClasses |-> points!Capital(v3, class)])>>}
  <2>1. CASE \A class \in CapitalClasses : points!Result(<<"capital", class>>) # <<>>
    <3>1. ASSUME NEW class \in CapitalClasses
          PROVE  points!Result(<<"capital", class>>)[1] = points!Capital(v3, class)
      <4>1. PICK r : r = points!Result(<<"capital", class>>)
        OBVIOUS
      <4>2. r = <<points!Capital(v3, class)>>
        BY <1>5, <2>1, <4>1
      <4> QED
        BY <4>1, <4>2
    <3>2. [class \in CapitalClasses |-> points!Result(<<"capital", class>>)[1]] = [class \in CapitalClasses |-> points!Capital(v3, class)]
      BY <3>1
    <3> QED
      BY <2>1, <3>2, Zenon DEF points!CuratorBalance
  <2>2. CASE ~\A class \in CapitalClasses : points!Result(<<"capital", class>>) # <<>>
    BY <2>2 DEF points!CuratorBalance
  <2> QED
    BY <2>1, <2>2
<1>7. ASSUME NEW class \in CapitalClasses, points!ShowsFrozen(class)
      PROVE  \E m \in DOMAIN v5 : <<v3, class>> \in v5[m].frozen
  <2>1. <<"freeze", class>> \in points!LedgerReads
    BY DEF points!LedgerReads
  <2>2. points!LedgerValue(v3, n, <<"freeze", class>>) = (<<v3, class>> \in v5[n].frozen)
    BY DEF points!LedgerValue
  <2>3. n \in DOMAIN v5 /\ points!LedgerValue(v3, n, <<"freeze", class>>) = TRUE
    <3>1. PICK held, yes : held = points!LedgerValue(v3, n, <<"freeze", class>>) /\ yes = TRUE
      OBVIOUS
    <3>2. points!Result(<<"freeze", class>>) = <<yes>>
      BY <1>7, <3>1 DEF points!ShowsFrozen
    <3>3. n \in DOMAIN v5 /\ points!Result(<<"freeze", class>>) = <<held>>
      BY <1>3, <2>1, <3>1, <3>2
    <3>4. held = yes
      BY <3>2, <3>3
    <3> QED
      BY <3>1, <3>3, <3>4, Zenon
  <2>4. <<v3, class>> \in v5[n].frozen
    BY <2>2, <2>3, Zenon
  <2> QED
    BY <2>3, <2>4
<1> QED
  BY <1>4, <1>6, <1>7 DEF points!LedgerIsTrue

\* all that is shown is true
LEMMA FiguresTrue == PointsInv => points!FiguresAreTrue
BY ShowsBoard, ShowsVenues, ShowsLedger DEF points!FiguresAreTrue

\* nothing of the points pages happens
LEMMA PointsRest ==
  ASSUME PointsInv, UNCHANGED <<v1, v2, v3, v4, v5, v6, v7, v8>>
  PROVE  PointsInv'
<1>1. v3' \in Visitors \union {0} /\ v7' \in Int
  BY DEF PointsInv, Looking
<1> QED
  BY <1>1, LookingKeeps

PointsKept == page = "points" => PointsInv

\* the points pages start in their invariant
LEMMA StartPoints == Init => PointsKept
<1> SUFFICES ASSUME Init, page = "points" PROVE PointsInv
  BY DEF PointsKept
<1>1. points!PointsInit
  BY DEF Init, Follows
<1> QED
  BY <1>1, PointsStarts

\* and every step of the page keeps it
LEMMA StepPoints == PointsKept /\ [Next]_vars => PointsKept'
<1> SUFFICES ASSUME PointsKept, [Next]_vars, page' = "points" PROVE PointsInv'
  BY DEF PointsKept
<1>1. CASE Next
  <2>1. page = "points" /\ points!PointsNext
    BY <1>1 DEF Next, On
  <2> QED
    BY <2>1, PointsKeep DEF PointsKept
<1>2. CASE UNCHANGED vars
  <2>1. UNCHANGED page /\ UNCHANGED <<v1, v2, v3, v4, v5, v6, v7, v8>>
    BY <1>2 DEF vars, own
  <2> QED
    BY <2>1, PointsRest DEF PointsKept
<1> QED
  BY <1>1, <1>2

----------------------------------------------------------------------------
(* The Solana curator's page: v3 is the read that runs, v6 the balance shown, v11 the notice, *)
(* v12 the write under way and v13 the transactions.                                         *)

TxsAreRecords ==
  /\ \E S : v13 \in Seq(S)
  /\ \A k \in DOMAIN v13 : v13[k] = [by |-> v13[k].by, fate |-> v13[k].fate]
WriteKnown ==
  /\ v12 = [pc |-> v12.pc, by |-> v12.by, tx |-> v12.tx, outcome |-> v12.outcome]
  /\ v12.pc # "none" => v12.by # curator!Nobody
  /\ v12.pc \in {"polling", "refreshing"} => v12.tx \in DOMAIN v13 /\ v13[v12.tx].by = v12.by
  /\ v12.pc = "refreshing" /\ v12.outcome = "confirmed" => v13[v12.tx].fate = "confirmed"
ReadKnown ==
  /\ v3 = [pc |-> v3.pc, of |-> v3.of, forRun |-> v3.forRun]
  /\ v3.forRun \in BOOLEAN
  /\ v3.forRun => v12.pc = "refreshing" /\ v3.of = v12.by
ReadAfter ==
  v3.pc = "balance" /\ v3.forRun =>
    v6.of = v12.by /\ (v12.outcome = "confirmed" => v12.tx \in v6.writes)
NoticeKept == curator!NoticeIsTrue /\ (v11.tone = "ok" => v11.tx \in DOMAIN v13)

PanelInv == TxsAreRecords /\ WriteKnown /\ ReadKnown /\ ReadAfter /\ NoticeKept

\* the invariant holds at the start
LEMMA PanelStarts == curator!CuratorInit => PanelInv
<1> SUFFICES ASSUME curator!CuratorInit PROVE PanelInv
  OBVIOUS
<1>1. TxsAreRecords
  <2>1. v13 = <<>> /\ v13 \in Seq({})
    BY DEF curator!CuratorInit
  <2> QED
    BY <2>1 DEF TxsAreRecords
<1>2. WriteKnown /\ ReadKnown /\ ReadAfter /\ NoticeKept
  BY DEF curator!CuratorInit, WriteKnown, ReadKnown, ReadAfter, NoticeKept, curator!NoticeIsTrue, curator!NoWrite, curator!NoRead, curator!NoNotice
<1> QED
  BY <1>1, <1>2 DEF PanelInv

\* the reads and the transactions that do not end a write
LEMMA PanelRests ==
  ASSUME PanelInv, UNCHANGED <<v13, v12, v3, v6, v11>>
  PROVE  PanelInv'
BY DEF PanelInv, TxsAreRecords, WriteKnown, ReadKnown, ReadAfter, NoticeKept, curator!NoticeIsTrue

\* a read that is not the write's
LEMMA OtherRead ==
  ASSUME PanelInv, UNCHANGED <<v13, v12, v6, v11>>, NEW pc, NEW of, v3' = [pc |-> pc, of |-> of, forRun |-> FALSE]
  PROVE  PanelInv'
BY DEF PanelInv, TxsAreRecords, WriteKnown, ReadKnown, ReadAfter, NoticeKept, curator!NoticeIsTrue

\* The same read, one request on
LEMMA ReadOn ==
  ASSUME PanelInv, UNCHANGED <<v13, v12, v6, v11>>, NEW pc, pc # "balance",
         v3' = [v3 EXCEPT !.pc = pc]
  PROVE  PanelInv'
<1> PICK r : r = [v3 EXCEPT !.pc = pc]
  OBVIOUS
<1>1. v3 = [pc |-> v3.pc, of |-> v3.of, forRun |-> v3.forRun]
  BY DEF PanelInv, ReadKnown
<1>2. v3' = [pc |-> pc, of |-> v3.of, forRun |-> v3.forRun]
  BY <1>1
<1> QED
  BY <1>2 DEF PanelInv, TxsAreRecords, WriteKnown, ReadKnown, ReadAfter, NoticeKept, curator!NoticeIsTrue

\* A read that says nothing good of a write.
LEMMA FailedReadReturns ==
  ASSUME PanelInv, UNCHANGED <<v13, v6>>, curator!Returns(FALSE), v3' = curator!NoRead
  PROVE  PanelInv'
<1>1. CASE ~v3.forRun
  <2>1. UNCHANGED <<v11, v12>>
    BY <1>1 DEF curator!Returns
  <2> QED
    BY <2>1, OtherRead DEF curator!NoRead
<1>2. CASE v3.forRun
  <2>1. v12' = curator!NoWrite /\ (v11' = v11 \/ v11'.tone = "bad")
    BY <1>2 DEF curator!Returns, curator!Announce, curator!Tell
  <2> QED
    BY <2>1 DEF PanelInv, TxsAreRecords, WriteKnown, ReadKnown, ReadAfter, NoticeKept, curator!NoticeIsTrue, curator!NoWrite, curator!NoRead
<1> QED
  BY <1>1, <1>2 DEF PanelInv, ReadKnown

\* the announcement after the balance was read
LEMMA ReadReturns ==
  ASSUME PanelInv, UNCHANGED <<v13, v6>>, curator!Returns(TRUE), v3.pc = "balance",
         NEW pc, NEW of, v3' = [pc |-> pc, of |-> of, forRun |-> FALSE]
  PROVE  PanelInv'
<1>1. CASE ~v3.forRun
  <2>1. UNCHANGED <<v11, v12>>
    BY <1>1 DEF curator!Returns
  <2> QED
    BY <2>1, OtherRead
<1>2. CASE v3.forRun
  <2>1. v12' = curator!NoWrite
    BY <1>2 DEF curator!Returns, curator!Announce
  <2>2. TxsAreRecords' /\ WriteKnown' /\ ReadKnown' /\ ReadAfter'
    BY <2>1 DEF PanelInv, TxsAreRecords, WriteKnown, ReadKnown, ReadAfter, curator!NoWrite
  <2>3. NoticeKept'
    <3>1. CASE v11' = v11
      BY <3>1 DEF PanelInv, NoticeKept, curator!NoticeIsTrue
    <3>2. CASE v11' # v11 /\ v12.outcome # "confirmed"
      <4>1. v11'.tone = "bad"
        BY <1>2, <3>2 DEF curator!Returns, curator!Announce, curator!Tell
      <4> QED
        BY <4>1 DEF NoticeKept, curator!NoticeIsTrue
    <3>3. CASE v11' # v11 /\ v12.outcome = "confirmed"
      <4>1. v11' = [by |-> v12.by, tone |-> "ok", tx |-> v12.tx, with |-> v6]
        BY <1>2, <3>3 DEF curator!Returns, curator!Announce, curator!Tell
      <4>2. v12.tx \in DOMAIN v13 /\ v13[v12.tx] = [by |-> v12.by, fate |-> "confirmed"]
        BY <1>2, <3>3 DEF PanelInv, TxsAreRecords, WriteKnown, ReadKnown
      <4>3. v6.of = v12.by /\ v12.tx \in v6.writes
        BY <1>2, <3>3 DEF PanelInv, ReadAfter
      <4> QED
        BY <4>1, <4>2, <4>3 DEF NoticeKept, curator!NoticeIsTrue
    <3> QED
      BY <3>1, <3>2, <3>3
  <2> QED
    BY <2>2, <2>3 DEF PanelInv
<1> QED
  BY <1>1, <1>2 DEF PanelInv, ReadKnown

\* a position is read: the balance read after it is of the same run
LEMMA PositionRead ==
  ASSUME PanelInv, curator!ReadPosition
  PROVE  PanelInv'
<1>1. v3 = [pc |-> v3.pc, of |-> v3.of, forRun |-> v3.forRun]
  BY DEF PanelInv, ReadKnown
<1>2. UNCHANGED <<v13, v12, v11>> /\ v6' = [of |-> v3.of, writes |-> curator!Landed(v3.of)]
  BY DEF curator!ReadPosition, curator!OnChain
<1>3. v3' = [pc |-> "balance", of |-> v3.of, forRun |-> v3.forRun]
  BY <1>1 DEF curator!ReadPosition
<1>4. ReadAfter'
  <2> SUFFICES ASSUME v3.forRun PROVE v6'.of = v12.by /\ (v12.outcome = "confirmed" => v12.tx \in v6'.writes)
    BY <1>2, <1>3 DEF ReadAfter
  <2>1. v12.pc = "refreshing" /\ v3.of = v12.by
    BY DEF PanelInv, ReadKnown
  <2>2. v12.outcome = "confirmed" => v12.tx \in curator!Landed(v12.by)
    BY <2>1 DEF PanelInv, WriteKnown, curator!Landed
  <2> QED
    BY <1>2, <2>1, <2>2
<1>5. TxsAreRecords' /\ WriteKnown' /\ ReadKnown' /\ NoticeKept'
  BY <1>2, <1>3 DEF PanelInv, TxsAreRecords, WriteKnown, ReadKnown, NoticeKept, curator!NoticeIsTrue
<1> QED
  BY <1>4, <1>5 DEF PanelInv

\* a write begins
LEMMA WriteStarts ==
  ASSUME PanelInv, curator!Press
  PROVE  PanelInv'
<1>1. v12' = [pc |-> "building", by |-> v1, tx |-> 0, outcome |-> "none"]
  BY DEF curator!Press, curator!NoWrite
<1>2. UNCHANGED <<v13, v3, v6>> /\ v11' = curator!NoNotice /\ v1 # curator!Nobody /\ ~v3.forRun
  BY DEF curator!Press, curator!readState, curator!Shown, PanelInv, ReadKnown, curator!NoWrite
<1> QED
  BY <1>1, <1>2 DEF PanelInv, TxsAreRecords, WriteKnown, ReadKnown, ReadAfter, NoticeKept, curator!NoticeIsTrue, curator!NoNotice

\* the wallet refuses
LEMMA WriteRefusedKeeps ==
  ASSUME PanelInv, curator!WriteRefused
  PROVE  PanelInv'
<1>1. UNCHANGED <<v13, v3, v6>> /\ v11'.tone = "bad" /\ v12' = curator!NoWrite /\ ~v3.forRun
  BY DEF curator!WriteRefused, curator!Tell, curator!readState, PanelInv, ReadKnown
<1> QED
  BY <1>1 DEF PanelInv, TxsAreRecords, WriteKnown, ReadKnown, ReadAfter, NoticeKept, curator!NoticeIsTrue, curator!NoWrite

\* the transaction is sent
LEMMA SendKeeps ==
  ASSUME PanelInv, curator!Send
  PROVE  PanelInv'
<1> DEFINE tx == [by |-> v12.by, fate |-> "pending"]
<1>1. UNCHANGED <<v3, v6, v11>> /\ v13' = Append(v13, tx) /\ v12.pc = "building"
  BY DEF curator!Send, curator!readState
<1>2. PICK S : v13 \in Seq(S)
  BY DEF PanelInv, TxsAreRecords
<1>3. v13 \in Seq(S \union {tx}) /\ Append(v13, tx) \in Seq(S \union {tx})
  BY <1>2
<1>4. DOMAIN v13' = DOMAIN v13 \union {Len(v13) + 1} /\ v13'[Len(v13) + 1] = tx
      /\ \A k \in DOMAIN v13 : v13'[k] = v13[k]
  BY <1>1, <1>2, <1>3
<1>5. v12' = [pc |-> "polling", by |-> v12.by, tx |-> Len(v13) + 1, outcome |-> v12.outcome]
  BY DEF curator!Send, PanelInv, WriteKnown
<1>6. TxsAreRecords'
  <2>1. \E T : v13' \in Seq(T)
    BY <1>1, <1>3
  <2>2. \A k \in DOMAIN v13' : v13'[k] = [by |-> v13'[k].by, fate |-> v13'[k].fate]
    BY <1>4 DEF PanelInv, TxsAreRecords
  <2> QED
    BY <2>1, <2>2 DEF TxsAreRecords
<1>7. WriteKnown' /\ ReadKnown' /\ ReadAfter'
  BY <1>1, <1>4, <1>5 DEF PanelInv, WriteKnown, ReadKnown, ReadAfter
<1>8. NoticeKept'
  BY <1>1, <1>4 DEF PanelInv, NoticeKept, curator!NoticeIsTrue
<1> QED
  BY <1>6, <1>7, <1>8 DEF PanelInv

\* a write whose outcome is known awaits its refresh
LEMMA OutcomeKeeps ==
  ASSUME PanelInv, v12.pc = "polling", NEW outcome, curator!AwaitsRefresh(outcome), UNCHANGED <<v13, v6>>,
         outcome = "confirmed" => v13[v12.tx].fate = "confirmed",
         v11' = v11 \/ v11'.tone = "bad"
  PROVE  PanelInv'
<1>1. CASE v1 = v12.by
  <2>1. v12' = [pc |-> "refreshing", by |-> v12.by, tx |-> v12.tx, outcome |-> outcome]
    BY <1>1 DEF curator!AwaitsRefresh, PanelInv, WriteKnown
  <2>2. PICK pc : pc # "balance" /\ v3' = [pc |-> pc, of |-> v12.by, forRun |-> TRUE]
    BY <1>1 DEF curator!AwaitsRefresh, curator!Refresh
  <2>3. v12.tx \in DOMAIN v13 /\ v13[v12.tx].by = v12.by /\ v12.by # curator!Nobody
    BY DEF PanelInv, WriteKnown
  <2>4. WriteKnown'
    BY <2>1, <2>3 DEF WriteKnown
  <2>5. ReadKnown' /\ ReadAfter'
    BY <2>1, <2>2 DEF ReadKnown, ReadAfter
  <2>6. TxsAreRecords' /\ NoticeKept'
    BY DEF PanelInv, TxsAreRecords, NoticeKept, curator!NoticeIsTrue
  <2> QED
    BY <2>4, <2>5, <2>6 DEF PanelInv
<1>2. CASE v1 # v12.by
  <2>1. v12' = curator!NoWrite /\ v3' = v3 /\ ~v3.forRun
    BY <1>2 DEF curator!AwaitsRefresh, PanelInv, ReadKnown
  <2> QED
    BY <2>1 DEF PanelInv, TxsAreRecords, WriteKnown, ReadKnown, ReadAfter, NoticeKept, curator!NoticeIsTrue, curator!NoWrite
<1> QED
  BY <1>1, <1>2

\* another read overtakes the refresh
LEMMA OvertakenKeeps ==
  ASSUME PanelInv, curator!RefreshOvertaken
  PROVE  PanelInv'
<1>1. UNCHANGED <<v13, v3, v6>> /\ v12' = curator!NoWrite /\ ~v3.forRun
      /\ (v11' = v11 \/ v11'.tone = "bad")
  BY DEF curator!RefreshOvertaken, curator!Announce, curator!Tell, curator!readState
<1> QED
  BY <1>1 DEF PanelInv, TxsAreRecords, WriteKnown, ReadKnown, ReadAfter, NoticeKept, curator!NoticeIsTrue, curator!NoWrite

\* the notice is set when the refresh has read the chain
LEMMA SettleKeeps ==
  ASSUME PanelInv, curator!Settle
  PROVE  PanelInv'
<1>1. PICK k \in DOMAIN v13, fate \in {"confirmed", "failed", "expired"} :
        v13[k].fate = "pending" /\ v13' = [v13 EXCEPT ![k].fate = fate]
  BY DEF curator!Settle
<1>2. PICK S : v13 \in Seq(S)
  BY DEF PanelInv, TxsAreRecords
<1>3. PICK tx : tx = [by |-> v13[k].by, fate |-> fate]
  OBVIOUS
<1>4. [v13[k] EXCEPT !.fate = fate] = tx
  BY <1>3 DEF PanelInv, TxsAreRecords
<1>5. v13' = [v13 EXCEPT ![k] = tx]
  BY <1>1, <1>4
<1>6. DOMAIN v13' = DOMAIN v13 /\ v13'[k] = tx /\ \A j \in DOMAIN v13 : j # k => v13'[j] = v13[j]
  BY <1>2, <1>5
<1>7. TxsAreRecords'
  <2>1. v13 \in Seq(S \union {tx})
    BY <1>2
  <2>2. v13' \in Seq(S \union {tx})
    BY <1>5, <2>1
  <2>3. \A j \in DOMAIN v13' : v13'[j] = [by |-> v13'[j].by, fate |-> v13'[j].fate]
    BY <1>3, <1>6 DEF PanelInv, TxsAreRecords
  <2> QED
    BY <2>2, <2>3 DEF TxsAreRecords
<1>8. UNCHANGED <<v12, v3, v6, v11>>
  BY DEF curator!Settle, curator!readState
<1>9. \A j \in DOMAIN v13 : v13'[j].by = v13[j].by /\ (v13[j].fate = "confirmed" => v13'[j] = v13[j])
  BY <1>1, <1>3, <1>6
<1>10. WriteKnown' /\ ReadKnown' /\ ReadAfter'
  BY <1>6, <1>8, <1>9 DEF PanelInv, WriteKnown, ReadKnown, ReadAfter
<1>11. NoticeKept'
  BY <1>6, <1>8, <1>9 DEF PanelInv, NoticeKept, curator!NoticeIsTrue
<1> QED
  BY <1>7, <1>10, <1>11 DEF PanelInv

\* every step of the panel
LEMMA PanelKeeps == PanelInv /\ curator!CuratorNext => PanelInv'
<1> SUFFICES ASSUME PanelInv, curator!CuratorNext PROVE PanelInv'
  OBVIOUS
<1>1. CASE curator!TimerFires \/ curator!Retry
  BY <1>1, OtherRead DEF curator!TimerFires, curator!Retry, curator!Refresh, curator!readState
<1>2. CASE curator!ReadGenesis
  <2>1. CASE v3' = curator!NoRead /\ curator!Returns(FALSE)
    BY <1>2, <2>1, FailedReadReturns DEF curator!ReadGenesis
  <2>2. CASE v3' = [v3 EXCEPT !.pc = "config"] /\ UNCHANGED <<v11, v12>>
    <3>1. UNCHANGED <<v13, v12, v6, v11>> /\ "config" # "balance"
      BY <1>2, <2>2 DEF curator!ReadGenesis
    <3> QED
      BY <2>2, <3>1, ReadOn
  <2> QED
    BY <1>2, <2>1, <2>2 DEF curator!ReadGenesis
<1>3. CASE curator!ReadConfig
  <2>1. CASE v3.of = curator!Nobody
    <3>1. ~v3.forRun
      BY <2>1 DEF PanelInv, ReadKnown, WriteKnown
    <3>2. UNCHANGED <<v13, v12, v11>> /\ v3' = curator!NoRead
      BY <1>3, <2>1, <3>1 DEF curator!ReadConfig, curator!Returns
    <3> QED
      BY <3>2 DEF PanelInv, TxsAreRecords, WriteKnown, ReadKnown, ReadAfter, NoticeKept, curator!NoticeIsTrue, curator!NoRead
  <2>2. CASE v3.of # curator!Nobody
    <3>1. UNCHANGED <<v13, v12, v6, v11>> /\ "position" # "balance" /\ v3' = [v3 EXCEPT !.pc = "position"]
      BY <1>3, <2>2 DEF curator!ReadConfig
    <3> QED
      BY <3>1, ReadOn
  <2> QED
    BY <2>1, <2>2
<1>4. CASE curator!ReadPosition
  BY <1>4, PositionRead
<1>5. CASE curator!ReadBalance
  <2>1. v3 = [pc |-> v3.pc, of |-> v3.of, forRun |-> v3.forRun]
    BY DEF PanelInv, ReadKnown
  <2>2. PICK pc, of : v3' = [pc |-> pc, of |-> of, forRun |-> FALSE]
    BY <1>5, <2>1 DEF curator!ReadBalance, curator!NoRead
  <2>3. UNCHANGED <<v13, v6>> /\ curator!Returns(TRUE) /\ v3.pc = "balance"
    BY <1>5 DEF curator!ReadBalance
  <2> QED
    BY <2>2, <2>3, ReadReturns
<1>6. CASE curator!LoadHistory
  BY <1>6, OtherRead DEF curator!LoadHistory, curator!NoRead
<1>7. CASE curator!ReadFails
  BY <1>7, FailedReadReturns DEF curator!ReadFails
<1>8. CASE curator!Press
  BY <1>8, WriteStarts
<1>9. CASE curator!WriteRefused
  BY <1>9, WriteRefusedKeeps
<1>10. CASE curator!Send
  BY <1>10, SendKeeps
<1>11. CASE curator!SignatureSettles
  <2>1. PICK outcome \in {v13[v12.tx].fate, "expired"} : curator!AwaitsRefresh(outcome)
    BY <1>11 DEF curator!SignatureSettles
  <2>2. v12.pc = "polling" /\ UNCHANGED <<v13, v6>> /\ v11' = v11
    BY <1>11 DEF curator!SignatureSettles, curator!readState
  <2>3. outcome = "confirmed" => v13[v12.tx].fate = "confirmed"
    OBVIOUS
  <2> QED
    BY <2>1, <2>2, <2>3, OutcomeKeeps
<1>12. CASE curator!SignatureUnreadable
  <2>1. v12.pc = "polling" /\ UNCHANGED <<v13, v6>> /\ v11'.tone = "bad" /\ curator!AwaitsRefresh("unknown")
    BY <1>12 DEF curator!SignatureUnreadable, curator!readState, curator!Tell
  <2>2. "unknown" = "confirmed" => v13[v12.tx].fate = "confirmed"
    OBVIOUS
  <2> QED
    BY <2>1, <2>2, OutcomeKeeps
<1>13. CASE curator!RefreshOvertaken
  BY <1>13, OvertakenKeeps
<1>14. CASE curator!Settle
  BY <1>14, SettleKeeps
<1>15. CASE curator!SwitchWallet
  <2>1. UNCHANGED <<v13, v12, v3, v6, v11>>
    BY <1>15 DEF curator!SwitchWallet, curator!readState
  <2> QED
    BY <2>1, PanelRests
<1> QED
  BY <1>1, <1>2, <1>3, <1>4, <1>5, <1>6, <1>7, <1>8, <1>9, <1>10, <1>11, <1>12, <1>13, <1>14, <1>15 DEF curator!CuratorNext

PanelKept == page = "curator" => PanelInv

\* the curator's page starts in its invariant
LEMMA StartPanel == Init => PanelKept
<1> SUFFICES ASSUME Init, page = "curator" PROVE PanelInv
  BY DEF PanelKept
<1>1. curator!CuratorInit
  BY DEF Init, Follows
<1> QED
  BY <1>1, PanelStarts

\* and every step of the page keeps it
LEMMA StepPanel == PanelKept /\ [Next]_vars => PanelKept'
<1> SUFFICES ASSUME PanelKept, [Next]_vars, page' = "curator" PROVE PanelInv'
  BY DEF PanelKept
<1>1. CASE Next
  <2>1. page = "curator" /\ curator!CuratorNext
    BY <1>1 DEF Next, On
  <2> QED
    BY <2>1, PanelKeeps DEF PanelKept
<1>2. CASE UNCHANGED vars
  <2>1. UNCHANGED page /\ UNCHANGED <<v13, v12, v3, v6, v11>>
    BY <1>2 DEF vars, own
  <2> QED
    BY <2>1, PanelRests DEF PanelKept
<1> QED
  BY <1>1, <1>2

\* Whatever a page says of a write or of a wallet's points is true of the account it shows.
THEOREM StatusStaysTrue ==
  Spec => []StatusIsTrue
<1>1. PointsKept /\ PanelKept /\ (page \in FlowPages => cards!StatusIsTrue) => StatusIsTrue
  BY FiguresTrue DEF PointsKept, PanelKept, PanelInv, NoticeKept, StatusIsTrue
<1> QED
  BY <1>1, FlowPagesSayTheTruth, StartPoints, StepPoints, StartPanel, StepPanel, PTL DEF Spec
=============================================================================
