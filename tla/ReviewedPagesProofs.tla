------------------------- MODULE ReviewedPagesProofs -------------------------
(***************************************************************************)
(* What is signed and released is what was reviewed, for any accounts,      *)
(* nodes, amounts, quotes, classes, versions and number of steps by hand:   *)
(* the Buy card, the Ethereum curator's page and the market page over the   *)
(* invariant of their flow, and the releases of the program and the site.   *)
(***************************************************************************)
EXTENDS AppPagesProofs, WellFoundedInduction

----------------------------------------------------------------------------
(* The Solana program: v1 is sourceAt, v2 work, v3 target, v4 artifact, v5 siteIdl, v6 receipt, *)
(* v7 activation, v8 chain, v9 check, v10 verified, v11 snapshot, v12 site                      *)

Release(version) == program!Elf(version, "release")
IsBuild(b) == b.commit \in 1..Len(v1) /\ b.elf = Release(v1[b.commit]) /\ b.idl = v1[b.commit]

ReleaseShapes ==
  /\ v1 \in Seq(Versions) /\ v2 \in Versions /\ v9 \in 0..5
  /\ v3 = [elf |-> v3.elf, idl |-> v3.idl]
  /\ v8 = [elf |-> v8.elf, idl |-> v8.idl, slot |-> v8.slot] /\ v8.slot \in Nat
  /\ v7.slot \in Nat /\ v7.slot <= v8.slot

\* how far the checks are, on a tree that nobody touches meanwhile
Checked ==
  /\ v9 >= 1 => v3.idl = v2
  /\ v9 >= 2 => v3.elf = Release(v2)
  /\ v9 >= 3 => IsBuild(v6) /\ v6.idl = v2 /\ v6.elf = v4
  /\ v9 >= 4 => (v8.slot = v7.slot => v8.elf = v6.elf)

\* what the records are of
Recorded ==
  /\ \A proof \in v10 : IsBuild(proof.build) /\ proof.slot \in Nat /\ proof.slot <= v8.slot
  /\ \A proof \in v10 : v8.slot = proof.slot => v8.elf = proof.build.elf
  /\ \A s \in v12 : s.idl = s.build.idl
  /\ \A s \in v11 : s.elf = s.build.elf

ProgramInv == ReleaseShapes /\ Checked /\ Recorded

\* the records of a proved build are of its commit
LEMMA RecordsAreProved == ProgramInv => program!ReleasedAsProved
<1> SUFFICES ASSUME ProgramInv, NEW proof \in v10
             PROVE  LET built == v1[proof.build.commit]
                    IN  /\ v8.slot = proof.slot => v8.elf = program!Elf(built, "release")
                        /\ \A s \in v12 : s.build = proof.build => s.idl = built
                        /\ \A s \in v11 : s.build = proof.build => s.elf = program!Elf(built, "release")
  BY DEF program!ReleasedAsProved
<1> QED
  BY DEF ProgramInv, Recorded, IsBuild, Release

LEMMA ProgramStarts == program!ProgramInit => ProgramInv
<1> SUFFICES ASSUME program!ProgramInit PROVE ProgramInv
  OBVIOUS
<1>1. PICK v : v1 = <<v>> /\ v2 \in Versions /\ v3 = [elf |-> program!Elf(v, "release"), idl |-> v] /\ v = CHOOSE version \in Versions : TRUE
  BY DEF program!ProgramInit
<1>2. v \in Versions
  BY <1>1
<1>3. /\ v8 = [elf |-> program!Elf(v, "release"), idl |-> v, slot |-> 1]
      /\ v7.slot = 1 /\ v9 = 0 /\ v10 = {} /\ v11 = {} /\ v12 = {}
  BY <1>1 DEF program!ProgramInit
<1>4. ReleaseShapes
  BY <1>1, <1>2, <1>3 DEF ReleaseShapes
<1> QED
  BY <1>3, <1>4 DEF ProgramInv, Checked, Recorded

\* a commit only adds to the branch
LEMMA BuildsStay ==
  ASSUME v1 \in Seq(Versions), NEW version \in Versions, v1' = Append(v1, version)
  PROVE  /\ v1' \in Seq(Versions)
         /\ \A b : IsBuild(b) => IsBuild(b)'
BY DEF IsBuild, Release, program!Elf

LEMMA RepositoryStays ==
  ASSUME UNCHANGED v1
  PROVE  \A b : IsBuild(b) => IsBuild(b)'
BY DEF IsBuild, Release, program!Elf

\* the operator works while no check runs
LEMMA OperatorKeeps ==
  ASSUME ProgramInv,
         \/ program!Edit \/ program!Commit \/ program!BuildOnce \/ program!Adopt
         \/ \E commit \in {program!Topic} \union 1..program!Tip : program!WriteReceipt(commit)
         \/ \E slot \in 1..v8.slot : program!RecordActivation(slot)
  PROVE  ProgramInv'
<1> USE DEF ProgramInv
<1>1. v9 = 0 /\ v9' = v9 /\ UNCHANGED <<v8, v10, v11, v12>>
  BY DEF program!Edit, program!Commit, program!BuildOnce, program!Adopt, program!WriteReceipt,
         program!RecordActivation, program!Effort, program!records
<1>2. v1' \in Seq(Versions) /\ v2' \in Versions /\ \A b : IsBuild(b) => IsBuild(b)'
  <2>0. v2 \in Versions
    BY DEF ReleaseShapes
  <2>1. v2' \in Versions /\ (v1' = v1 \/ \E version \in Versions : v1' = Append(v1, version))
    BY <2>0 DEF program!Edit, program!Commit, program!BuildOnce, program!Adopt, program!WriteReceipt, program!RecordActivation
  <2> QED
    BY <2>1, BuildsStay, RepositoryStays DEF ReleaseShapes
<1>3. v3' = [elf |-> v3'.elf, idl |-> v3'.idl]
  <2>1. CASE program!BuildOnce
    <3>1. CASE program!HostBuild
      BY <3>1 DEF program!HostBuild
    <3>2. CASE program!ReleaseBuild
      BY <3>2 DEF program!ReleaseBuild, ReleaseShapes
    <3> QED
      BY <2>1, <3>1, <3>2 DEF program!BuildOnce
  <2>2. CASE v3' = v3
    BY <2>2 DEF ReleaseShapes
  <2> QED
    BY <2>1, <2>2 DEF program!Edit, program!Commit, program!Adopt, program!WriteReceipt, program!RecordActivation
<1>4. v7'.slot \in Nat /\ v7'.slot <= v8'.slot
  <2>1. CASE v7' = v7
    BY <1>1, <2>1 DEF ReleaseShapes
  <2>2. ASSUME NEW slot \in 1..v8.slot, program!RecordActivation(slot) PROVE v7'.slot \in Nat /\ v7'.slot <= v8'.slot
    <3>1. v7' = [build |-> v6, slot |-> slot]
      BY <2>2 DEF program!RecordActivation
    <3> QED
      BY <1>1, <3>1 DEF ReleaseShapes
  <2> QED
    BY <2>1, <2>2 DEF program!Edit, program!Commit, program!BuildOnce, program!Adopt, program!WriteReceipt
<1>5. ReleaseShapes'
  BY <1>1, <1>2, <1>3, <1>4 DEF ReleaseShapes
<1>6. Checked'
  BY <1>1 DEF Checked
<1>7. Recorded'
  BY <1>1, <1>2 DEF Recorded
<1> QED
  BY <1>5, <1>6, <1>7

\* the chain moves on by itself, to a later slot with each upgrade
LEMMA ChainKeeps ==
  ASSUME ProgramInv, (\E elf : program!Upgrade(elf)) \/ (\E idl : program!PublishIdl(idl))
  PROVE  ProgramInv'
<1>0. ReleaseShapes /\ Checked /\ Recorded
  BY DEF ProgramInv
<1>1. UNCHANGED <<v1, v2, v3, v4, v6, v7, v9, v10, v11, v12>>
  BY DEF program!Upgrade, program!PublishIdl, program!repository, program!records
<1> DEFINE Goal == /\ v8' = [elf |-> v8'.elf, idl |-> v8'.idl, slot |-> v8'.slot] /\ v8'.slot \in Nat
                   /\ v8'.slot > v8.slot \/ (v8'.slot = v8.slot /\ v8'.elf = v8.elf)
<1>2. ASSUME NEW elf, program!Upgrade(elf) PROVE Goal
  <2>1. PICK c : c = [v8 EXCEPT !.elf = elf, !.slot = @ + 1]
    OBVIOUS
  <2>2. c = [elf |-> elf, idl |-> v8.idl, slot |-> v8.slot + 1]
    BY <1>0, <2>1 DEF ReleaseShapes
  <2>3. v8' = c
    BY <1>2, <2>1 DEF program!Upgrade
  <2>4. v8.slot \in Nat
    BY <1>0 DEF ReleaseShapes
  <2> QED
    BY <2>2, <2>3, <2>4
<1>3. ASSUME NEW idl, program!PublishIdl(idl) PROVE Goal
  <2>1. PICK c : c = [v8 EXCEPT !.idl = idl]
    OBVIOUS
  <2>2. c = [elf |-> v8.elf, idl |-> idl, slot |-> v8.slot]
    BY <1>0, <2>1 DEF ReleaseShapes
  <2>3. v8' = c
    BY <1>3, <2>1 DEF program!PublishIdl
  <2>4. v8.slot \in Nat
    BY <1>0 DEF ReleaseShapes
  <2> QED
    BY <2>2, <2>3, <2>4
<1>4. Goal
  BY <1>2, <1>3
<1> HIDE DEF Goal
<1>5. /\ v8' = [elf |-> v8'.elf, idl |-> v8'.idl, slot |-> v8'.slot] /\ v8'.slot \in Nat
      /\ v8'.slot > v8.slot \/ (v8'.slot = v8.slot /\ v8'.elf = v8.elf)
  BY <1>4 DEF Goal
<1>6. v8.slot \in Nat /\ v7.slot \in Nat /\ v7.slot <= v8.slot
  BY <1>0 DEF ReleaseShapes
<1>7. \A n \in Nat : n <= v8.slot => n <= v8'.slot /\ (v8'.slot = n => v8.slot = n /\ v8'.elf = v8.elf)
  BY <1>5, <1>6
<1>8. ReleaseShapes'
  BY <1>0, <1>1, <1>5, <1>6, <1>7 DEF ReleaseShapes
<1>9. \A b : IsBuild(b) => IsBuild(b)'
  BY <1>1, RepositoryStays
<1>10. Checked'
  BY <1>0, <1>1, <1>6, <1>7, <1>9 DEF Checked, Release, program!Elf
<1>11. Recorded'
  BY <1>0, <1>1, <1>7, <1>9 DEF Recorded
<1> QED
  BY <1>8, <1>10, <1>11 DEF ProgramInv

\* the checks go on: each finds what the next relies on, the last one records it
LEMMA ChecksKeep ==
  ASSUME ProgramInv, program!Checks, program!Advance
  PROVE  ProgramInv'
<1>0. ReleaseShapes /\ Checked /\ Recorded
  BY DEF ProgramInv
<1>1. v9 \in 0..5 /\ v9' = (v9 + 1) % 6
  BY <1>0 DEF ReleaseShapes, program!Advance, program!Steps
<1>2. UNCHANGED <<v1, v2, v4, v5, v6, v7, v8, v11, v12>>
  BY DEF program!Checks, program!repository, program!records
<1>3. \A b : IsBuild(b) => IsBuild(b)'
  BY <1>2, RepositoryStays
<1>4. Release(v2)' = Release(v2)
  BY <1>2 DEF Release, program!Elf
<1>5. CASE v9 = 0
  <2>1. v9' = 1 /\ v3' = [elf |-> program!Elf(v2, "host"), idl |-> v2] /\ UNCHANGED v10
    BY <1>1, <1>5 DEF program!Checks, program!HostBuild, program!records
  <2>2. v3' = [elf |-> v3'.elf, idl |-> v3'.idl] /\ v3'.idl = v2
    BY <2>1
  <2>3. ReleaseShapes'
    BY <1>0, <1>2, <2>1, <2>2 DEF ReleaseShapes
  <2>4. Checked'
    BY <1>2, <2>1, <2>2 DEF Checked
  <2>5. Recorded'
    BY <1>0, <1>2, <1>3, <2>1 DEF Recorded
  <2> QED
    BY <2>3, <2>4, <2>5 DEF ProgramInv
<1>6. CASE v9 = 1
  <2>1. v9' = 2 /\ v3' = [v3 EXCEPT !.elf = program!Elf(v2, "release")] /\ UNCHANGED v10
    BY <1>1, <1>6 DEF program!Checks, program!ReleaseBuild, program!records
  <2>2. PICK t : t = [v3 EXCEPT !.elf = Release(v2)]
    OBVIOUS
  <2>3. t = [elf |-> Release(v2), idl |-> v3.idl]
    BY <1>0, <2>2 DEF ReleaseShapes
  <2>4. v3' = t
    BY <2>1, <2>2 DEF Release
  <2>5. v3' = [elf |-> v3'.elf, idl |-> v3'.idl] /\ v3'.elf = Release(v2) /\ v3'.idl = v3.idl
    BY <2>3, <2>4
  <2>6. ReleaseShapes'
    BY <1>0, <1>2, <2>1, <2>5 DEF ReleaseShapes
  <2>7. Checked'
    BY <1>0, <1>2, <1>4, <1>6, <2>1, <2>5 DEF Checked
  <2>8. Recorded'
    BY <1>0, <1>2, <1>3, <2>1 DEF Recorded
  <2> QED
    BY <2>6, <2>7, <2>8 DEF ProgramInv
<1>7. CASE v9 \in {2, 3, 4}
  <2>1. v9' = v9 + 1 /\ v9' \in 1..5 /\ UNCHANGED <<v3, v10>>
    BY <1>1, <1>7 DEF program!Checks, program!repository, program!records
  <2>2. ReleaseShapes'
    BY <1>0, <1>2, <2>1 DEF ReleaseShapes
  <2>3. Recorded'
    BY <1>0, <1>2, <1>3, <2>1 DEF Recorded
  <2>4. v3'.idl = v2' /\ v3'.elf = Release(v2)'
    BY <1>0, <1>2, <1>4, <1>7, <2>1 DEF Checked
  <2>5. IsBuild(v6) /\ v6.idl = v2 /\ v6.elf = v4
    <3>1. CASE v9 = 2
      <4>1. program!Provenance
        BY <3>1 DEF program!Checks
      <4>2. /\ v2 = v1[Len(v1)] /\ v6.elf = v4 /\ v6.commit \in 1..Len(v1) /\ v1[v6.commit] = v1[Len(v1)]
            /\ v3.elf = v6.elf /\ v3.idl = v6.idl
        BY <4>1 DEF program!Provenance, program!Clean, program!Receipted, program!EnsureSourceCommit,
                    program!OnBranch, program!NoDrift, program!Generated, program!Tip, program!Len, Len
      <4>3. v3.idl = v2 /\ v3.elf = Release(v2)
        BY <1>0, <3>1 DEF Checked
      <4> QED
        BY <4>2, <4>3 DEF IsBuild
    <3>2. CASE v9 \in {3, 4}
      BY <1>0, <3>2 DEF Checked
    <3> QED
      BY <1>7, <3>1, <3>2
  <2>6. IsBuild(v6)' /\ v6'.idl = v2' /\ v6'.elf = v4'
    BY <1>2, <2>5 DEF IsBuild, Release, program!Elf
  <2>7. v9' >= 4 => (v8'.slot = v7'.slot => v8'.elf = v6'.elf)
    <3>1. CASE v9 = 2
      BY <2>1, <3>1
    <3>2. CASE v9 = 3
      <4>1. v8.elf = v4
        BY <3>2 DEF program!Checks, program!Activated
      <4> QED
        BY <1>2, <2>5, <4>1
    <3>3. CASE v9 = 4
      BY <1>0, <1>2, <3>3 DEF Checked
    <3> QED
      BY <1>7, <3>1, <3>2, <3>3
  <2>8. Checked'
    BY <2>4, <2>6, <2>7 DEF Checked
  <2> QED
    BY <2>2, <2>3, <2>8 DEF ProgramInv
<1>8. CASE v9 = 5
  <2>1. v9' = 0 /\ v10' = {[build |-> v6, slot |-> v7.slot]} /\ UNCHANGED v3
    BY <1>1, <1>8 DEF program!Checks, program!repository
  <2>2. ReleaseShapes'
    BY <1>0, <1>2, <2>1 DEF ReleaseShapes
  <2>3. Checked'
    BY <2>1 DEF Checked
  <2>4. IsBuild(v6) /\ (v8.slot = v7.slot => v8.elf = v6.elf) /\ v7.slot \in Nat /\ v7.slot <= v8.slot
    BY <1>0, <1>8 DEF Checked, ReleaseShapes
  <2>5. ASSUME NEW proof \in v10' PROVE proof.build = v6 /\ proof.slot = v7.slot
    BY <2>1
  <2>6. \A proof \in v10' : IsBuild(proof.build)'
    BY <1>3, <2>4, <2>5
  <2>7. Recorded'
    BY <1>0, <1>2, <2>4, <2>5, <2>6 DEF Recorded
  <2> QED
    BY <2>2, <2>3, <2>7 DEF ProgramInv
<1> QED
  BY <1>1, <1>5, <1>6, <1>7, <1>8

\* what else is recorded is of the committed files
LEMMA RecordsKeep ==
  ASSUME ProgramInv, program!ChecksFail \/ program!Snapshot \/ program!BuildSite
  PROVE  ProgramInv'
<1>0. ReleaseShapes /\ Checked /\ Recorded
  BY DEF ProgramInv
<1>1. UNCHANGED <<v1, v2, v3, v4, v6, v7, v8, v10>> /\ (v9' = v9 \/ v9' = 0)
  BY DEF program!ChecksFail, program!Snapshot, program!BuildSite, program!repository, program!records
<1>2. \A b : IsBuild(b) => IsBuild(b)'
  BY <1>1, RepositoryStays
<1>3. Release(v2)' = Release(v2) /\ (IsBuild(v6) => IsBuild(v6)')
  BY <1>1 DEF Release, program!Elf, IsBuild
<1>4. ReleaseShapes' /\ Checked'
  BY <1>0, <1>1, <1>3 DEF ReleaseShapes, Checked
<1>5. \A s \in v12' : s.idl = s.build.idl
  <2>1. CASE program!BuildSite
    <3>1. v12' = {[build |-> v6, idl |-> v5]} /\ v6.idl = v5
      BY <2>1 DEF program!BuildSite, program!BindsDeployment, program!Receipted
    <3> QED
      BY <3>1
  <2>2. CASE UNCHANGED v12
    BY <1>0, <2>2 DEF Recorded
  <2> QED
    BY <2>1, <2>2 DEF program!ChecksFail, program!Snapshot, program!records
<1>6. \A s \in v11' : s.elf = s.build.elf
  <2>1. CASE program!Snapshot
    <3>1. v11' = {[build |-> v6, elf |-> v8.elf]} /\ v6.elf = v8.elf
      BY <2>1 DEF program!Snapshot, program!Activated
    <3> QED
      BY <3>1
  <2>2. CASE UNCHANGED v11
    BY <1>0, <2>2 DEF Recorded
  <2> QED
    BY <2>1, <2>2 DEF program!ChecksFail, program!BuildSite, program!records
<1>7. Recorded'
  BY <1>0, <1>1, <1>2, <1>5, <1>6 DEF Recorded
<1> QED
  BY <1>4, <1>7 DEF ProgramInv

LEMMA ProgramKeeps == ProgramInv /\ program!ProgramNext => ProgramInv'
BY OperatorKeeps, ChainKeeps, ChecksKeep, RecordsKeep DEF program!ProgramNext

----------------------------------------------------------------------------
(* The Morpho market page: v4 counts the quotes, v6 is the submission and v7 preparedQuote *)

IsSubmission(s) == s = [pc |-> s.pc, by |-> s.by, action |-> s.action, approve |-> s.approve, quote |-> s.quote]

\* the quote kept for the wallet is the one that was checked
QuoteInv ==
  /\ v4 \in Nat /\ IsSubmission(v6)
  /\ v6.pc \in {"checking", "running"} => v6.quote = v7 /\ v7 # 0

LEMMA QuoteShows == QuoteInv => morpho!QuoteIsTheWrites
BY DEF QuoteInv, morpho!QuoteIsTheWrites, morpho!DisplayedQuote, morpho!PageBusy

LEMMA NothingSubmitted == IsSubmission(morpho!NoSubmission) /\ morpho!NoSubmission.pc = "none"
BY DEF IsSubmission, morpho!NoSubmission

LEMMA QuoteStarts == morpho!MarketInit => QuoteInv
BY NothingSubmitted DEF morpho!MarketInit, QuoteInv

LEMMA QuoteKeeps == QuoteInv /\ morpho!MarketNext => QuoteInv'
<1> SUFFICES ASSUME QuoteInv, morpho!MarketNext PROVE QuoteInv'
  OBVIOUS
<1>1. ASSUME v4' \in Nat, UNCHANGED <<v6, v7>> PROVE QuoteInv'
  BY <1>1 DEF QuoteInv, IsSubmission
<1>2. ASSUME v4' \in Nat, v6' = morpho!NoSubmission PROVE QuoteInv'
  BY <1>2, NothingSubmitted DEF QuoteInv
<1>3. v4 \in Nat /\ v4 + 1 \in Nat
  BY DEF QuoteInv
<1>4. CASE morpho!ReadMarket
  BY <1>1, <1>3, <1>4 DEF morpho!ReadMarket
<1>5. CASE morpho!Expire \/ morpho!SwitchAction \/ morpho!AcknowledgeRisk \/ morpho!Launch
  BY <1>1, <1>3, <1>5 DEF morpho!Expire, morpho!SwitchAction, morpho!AcknowledgeRisk, morpho!Launch
<1>6. CASE morpho!Submit
  <2>1. PICK s : s = [morpho!NoSubmission EXCEPT !.pc = "reading", !.by = account, !.action = v1.action]
    OBVIOUS
  <2>2. IsSubmission(s) /\ s.pc = "reading"
    BY <2>1 DEF IsSubmission, morpho!NoSubmission
  <2>3. v6' = s /\ v4' = v4
    BY <1>6, <2>1 DEF morpho!Submit
  <2> QED
    BY <1>3, <2>2, <2>3 DEF QuoteInv
<1>7. CASE morpho!SubmitFails \/ morpho!SubmitReturns
  BY <1>2, <1>3, <1>7 DEF morpho!SubmitFails, morpho!SubmitReturns, morpho!SubmitEnds
<1>8. CASE morpho!SubmitReads
  <2>1. v4' = v4 + 1 /\ v7' = v4'
    BY <1>8 DEF morpho!SubmitReads
  <2>2. CASE v6' = morpho!NoSubmission
    BY <1>2, <1>3, <2>1, <2>2
  <2>3. CASE v6' # morpho!NoSubmission
    <3>1. PICK a : a = (v6.action = "repay" /\ v6.by \notin v2.allowed)
      OBVIOUS
    <3>2. PICK s : s = [v6 EXCEPT !.pc = "checking", !.quote = v4', !.approve = a]
      OBVIOUS
    <3>3. v6' = s
      BY <1>8, <2>3, <3>1, <3>2 DEF morpho!SubmitReads, morpho!SubmitEnds
    <3>4. s = [pc |-> "checking", by |-> v6.by, action |-> v6.action, approve |-> a, quote |-> v4']
      BY <3>2 DEF QuoteInv, IsSubmission
    <3>5. IsSubmission(s) /\ s.quote = v4'
      BY <3>4 DEF IsSubmission
    <3>6. v4' \in Nat /\ v4' # 0
      BY <1>3, <2>1
    <3> QED
      BY <2>1, <3>3, <3>5, <3>6 DEF QuoteInv
  <2> QED
    BY <2>2, <2>3
<1>9. CASE morpho!SubmitRuns
  <2>1. PICK s : s = [v6 EXCEPT !.pc = "running"]
    OBVIOUS
  <2>2. v6' = s /\ v6.pc = "checking" /\ UNCHANGED <<v4, v7>>
    BY <1>9, <2>1 DEF morpho!SubmitRuns
  <2>3. s = [pc |-> "running", by |-> v6.by, action |-> v6.action, approve |-> v6.approve, quote |-> v6.quote]
    BY <2>1 DEF QuoteInv, IsSubmission
  <2>4. IsSubmission(s) /\ s.quote = v6.quote
    BY <2>3 DEF IsSubmission
  <2> QED
    BY <2>2, <2>4 DEF QuoteInv
<1>10. CASE \E i \in OneSlot : morpho!OpenWallet(i) \/ morpho!MarketRefreshed(i)
  BY <1>1, <1>3, <1>10 DEF morpho!OpenWallet, morpho!MarketRefreshed, morpho!marketVars
<1>11. CASE \E k \in DOMAIN txs : morpho!MarketMine(k)
  BY <1>1, <1>3, <1>11 DEF morpho!MarketMine
<1>12. CASE UNCHANGED morpho!marketVars
  BY <1>1, <1>3, <1>12 DEF morpho!marketVars
<1> QED
  BY <1>4, <1>5, <1>6, <1>7, <1>8, <1>9, <1>10, <1>11, <1>12 DEF morpho!MarketNext

----------------------------------------------------------------------------
(* The site: v1 is the manifest, v3 env, v4 mainHead, v5 built, v6 live and v7 served *)

Plan == release!Plan
Named(m) == m.at = [key \in release!Mapped |-> m.at[key]]
Configured(e) ==
  /\ e.chain = release!Mainnet => release!Contracts(e) = Plan.at /\ e.rpc = "https"
  /\ e.chain = release!LocalFork <=> e.rpc = "loopback"
  /\ e.curator \in {release!Unset, "bound"}
Sourced(source) == source.target = "production" => source.content = source.commit /\ source.commit \in 1..v4

ReleaseInv ==
  /\ Named(v1) /\ v4 \in Nat
  /\ \A deployment \in v5 : Configured(deployment.env) /\ Sourced(deployment.source)
  /\ \A deployment \in v6 : deployment.source.content \in 1..v4
  /\ \A proof \in v7 : proof.deployment.source.content = proof.commit

LEMMA ReleaseHolds == ReleaseInv => release!ReleasedAsApproved
BY DEF ReleaseInv, Configured, release!ReleasedAsApproved, Plan

\* what a deployment writes names every contract of the site
LEMMA WrittenIsNamed ==
  ASSUME NEW t
  PROVE  /\ Named(release!Written(t))
         /\ "at" \in DOMAIN release!Written(t)
         /\ \A key \in release!Mapped :
              release!Written(t).at[key] =
                IF key = "stable" THEN release!Usdc
                ELSE release!CreateSequence(t.principals.deployer, t.nonce).at[key]
BY DEF Named, release!Written

\* and so does one that went wrong
LEMMA SlippedIsNamed ==
  ASSUME NEW m \in {Plan} \union release!OneSlip(Plan)
  PROVE  Named(m)
<1>1. Named(Plan) /\ "at" \in DOMAIN Plan
  BY WrittenIsNamed DEF Plan, release!Plan
<1>2. PICK p : p = Plan
  OBVIOUS
<1>3. Named(p) /\ "at" \in DOMAIN p
  BY <1>1, <1>2
<1>4. ASSUME NEW q, q.at = p.at PROVE Named(q)
  BY <1>3, <1>4 DEF Named
<1>5. ASSUME NEW t PROVE Named(release!Written(t))
  BY WrittenIsNamed
<1>6. ASSUME NEW key PROVE Named([p EXCEPT !.at[key] = release!Stray])
  <2>1. PICK q : q = [p EXCEPT !.at[key] = release!Stray]
    OBVIOUS
  <2>2. q.at = [p.at EXCEPT ![key] = release!Stray]
    BY <1>3, <2>1
  <2>3. Named(q)
    BY <1>3, <2>2 DEF Named
  <2> QED
    BY <2>1, <2>3
<1>7. ASSUME NEW keys PROVE Named([p EXCEPT !.at[keys[1]] = p.at[keys[2]], !.at[keys[2]] = p.at[keys[1]]])
  <2>1. PICK q : q = [p EXCEPT !.at[keys[1]] = p.at[keys[2]]]
    OBVIOUS
  <2>2. q.at = [p.at EXCEPT ![keys[1]] = p.at[keys[2]]] /\ "at" \in DOMAIN q
    BY <1>3, <2>1
  <2>3. Named(q)
    BY <1>3, <2>2 DEF Named
  <2>4. PICK r : r = [q EXCEPT !.at[keys[2]] = p.at[keys[1]]]
    OBVIOUS
  <2>5. r.at = [q.at EXCEPT ![keys[2]] = p.at[keys[1]]]
    BY <2>2, <2>4
  <2>6. Named(r)
    BY <2>3, <2>5 DEF Named
  <2>7. [p EXCEPT !.at[keys[1]] = p.at[keys[2]], !.at[keys[2]] = p.at[keys[1]]] = r
    BY <2>1, <2>4
  <2> QED
    BY <2>6, <2>7
<1>8. /\ Named([p EXCEPT !.production = FALSE]) /\ Named([p EXCEPT !.keepOps = TRUE])
      /\ Named([p EXCEPT !.principals.roles = "other"]) /\ Named([p EXCEPT !.gas.funding = 5])
      /\ Named([p EXCEPT !.nonce = Nonce + 1]) /\ Named([p EXCEPT !.block = 8])
  BY <1>3, <1>4
<1>9. \/ m = p \/ \E t : m = release!Written(t)
      \/ \E key : m = [p EXCEPT !.at[key] = release!Stray]
      \/ \E keys : m = [p EXCEPT !.at[keys[1]] = p.at[keys[2]], !.at[keys[2]] = p.at[keys[1]]]
      \/ m \in {[p EXCEPT !.production = FALSE], [p EXCEPT !.keepOps = TRUE], [p EXCEPT !.principals.roles = "other"],
                [p EXCEPT !.gas.funding = 5], [p EXCEPT !.nonce = Nonce + 1], [p EXCEPT !.block = 8]}
  BY <1>2 DEF release!OneSlip
<1>10. CASE m \in {[p EXCEPT !.production = FALSE], [p EXCEPT !.keepOps = TRUE], [p EXCEPT !.principals.roles = "other"],
                  [p EXCEPT !.gas.funding = 5], [p EXCEPT !.nonce = Nonce + 1], [p EXCEPT !.block = 8]}
  BY <1>8, <1>10, Zenon
<1>11. CASE m = p
  BY <1>3, <1>11
<1>12. CASE \E t : m = release!Written(t)
  BY <1>5, <1>12
<1>13. CASE \E key : m = [p EXCEPT !.at[key] = release!Stray]
  BY <1>6, <1>13, Zenon
<1>14. CASE \E keys : m = [p EXCEPT !.at[keys[1]] = p.at[keys[2]], !.at[keys[2]] = p.at[keys[1]]]
  BY <1>7, <1>14, Zenon
<1> QED
  BY <1>9, <1>10, <1>11, <1>12, <1>13, <1>14, Zenon

\* a manifest that passes the gate names the contracts of the plan
LEMMA GateNamesThePlan ==
  ASSUME Named(v1), release!ProductionManifest(v1)
  PROVE  v1.at = Plan.at
<1> DEFINE planned == release!CreateSequence(release!PlanDeployer, Nonce).at
<1>1. /\ v1.at.stable = release!Usdc
      /\ release!DeploymentReceipt(v1) = release!DeploymentReceipt(release!PlanTerms)
      /\ release!AsCreated(v1)
  BY DEF release!ProductionManifest, release!ReceiptsRecompute, release!Approved
<1>2. v1.principals = release!PlanTerms.principals /\ v1.nonce = release!PlanTerms.nonce
  BY <1>1 DEF release!DeploymentReceipt, release!PrincipalReceipt
<1>3. release!PlanTerms.principals.deployer = release!PlanDeployer /\ release!PlanTerms.nonce = Nonce
  BY DEF release!PlanTerms, release!TermsOf
<1>4. \A key \in release!Proxies \union release!Alone : v1.at[key] = planned[key]
  BY <1>1, <1>2, <1>3 DEF release!AsCreated
<1>5. \A key \in release!Mapped : Plan.at[key] = IF key = "stable" THEN release!Usdc ELSE planned[key]
  BY <1>3, WrittenIsNamed DEF Plan, release!Plan
<1> HIDE DEF planned
<1>6. release!Mapped = release!Proxies \union release!Alone \union {"stable"}
  BY DEF release!Mapped
<1>7. \A key \in release!Mapped : v1.at[key] = Plan.at[key]
  BY <1>1, <1>4, <1>5, <1>6
<1>8. Named(Plan)
  BY WrittenIsNamed DEF Plan, release!Plan
<1> QED
  BY <1>7, <1>8 DEF Named

\* what is built resolves to what was approved
LEMMA BuiltAsApproved ==
  ASSUME Named(v1), NEW e, release!ConfigLoads(e), release!GatePasses(e)
  PROVE  Configured(e)
<1>0. PICK asked \in release!Answers \X release!Allowlists : release!BuildGate(e, asked[1], asked[2])
  BY DEF release!GatePasses
<1>1. PICK answer, allowlist : release!BuildGate(e, answer, allowlist)
  BY <1>0
<1>2. e.curator \in {release!Unset, "bound"}
  BY <1>1 DEF release!BuildGate
<1>3. e.chain = release!LocalFork <=> e.rpc = "loopback"
  BY DEF release!ConfigLoads, release!ForkIsLocal
<1>4. ASSUME e.chain = release!Mainnet PROVE release!Contracts(e) = Plan.at /\ e.rpc = "https"
  <2>1. /\ e.rpc = "https" /\ release!MatchesManifest(e, v1)
        /\ release!ProductionManifest(v1)
    BY <1>1, <1>4 DEF release!BuildGate, release!RemoteUrl, release!Exportable
  <2>2. PICK lines : lines = release!Exported(v1)
    OBVIOUS
  <2>3. "at" \in DOMAIN lines /\ lines.at = v1.at
    BY <2>2 DEF release!Exported
  <2>4. e.at = v1.at
    BY <2>1, <2>2, <2>3 DEF release!MatchesManifest
  <2>5. e.at = Plan.at /\ v1.at.stable = release!Usdc
    BY <2>1, <2>4, GateNamesThePlan DEF release!ProductionManifest
  <2>6. release!Contracts(e) = [e.at EXCEPT !.stable = release!Usdc]
    BY <1>4 DEF release!Contracts
  <2>7. e.at = [key \in release!Mapped |-> e.at[key]]
    BY <2>4 DEF Named
  <2>8. [e.at EXCEPT !.stable = release!Usdc] = e.at
    BY <2>4, <2>5, <2>7
  <2> QED
    BY <2>1, <2>5, <2>6, <2>8
<1> QED
  BY <1>2, <1>3, <1>4 DEF Configured

\* and a production build is of a commit of main
LEMMA BuiltFromMain ==
  ASSUME v4 \in Nat, NEW source \in release!Sources, release!SourceAllowed(source)
  PROVE  Sourced(source)
<1> SUFFICES ASSUME source.target = "production" PROVE source.content = source.commit /\ source.commit \in 1..v4
  BY DEF Sourced
<1>1. source.head # release!NoCommit
  BY DEF release!SourceAllowed, release!DeploySourceProblems
<1>2. \A target, branch, commit : release!Upload(target, branch, commit).head = release!NoCommit
  BY DEF release!Upload
<1>3. \A target, branch, commit :
        /\ release!Clone(target, branch, commit).target = target
        /\ release!Clone(target, branch, commit).commit = commit
        /\ release!Clone(target, branch, commit).content = commit
  BY DEF release!Clone
<1>4. PICK c \in 1..v4 : source = release!Clone("production", "main", c)
  BY <1>1, <1>2, <1>3 DEF release!Sources
<1> QED
  BY <1>3, <1>4

LEMMA ReleaseStarts == release!ReleaseInit => ReleaseInv
<1>1. Named(Plan)
  BY SlippedIsNamed
<1> QED
  BY <1>1 DEF release!ReleaseInit, ReleaseInv, Plan

LEMMA ReleaseKeeps == ReleaseInv /\ release!ReleaseNext => ReleaseInv'
<1> SUFFICES ASSUME ReleaseInv, release!ReleaseNext PROVE ReleaseInv'
  OBVIOUS
<1>1. Named(v1) /\ v4 \in Nat
  BY DEF ReleaseInv
<1>2. v4' \in Nat /\ v4' >= v4
  BY <1>1 DEF release!ReleaseNext, release!EditManifest, release!Archive, release!ExportEnv, release!SlipEnv, release!Push,
              release!Build, release!Rollback, release!CheckServed
<1>3. Named(v1)'
  <2>1. CASE release!EditManifest
    <3>1. v1' \in {Plan} \union release!OneSlip(Plan)
      BY <2>1 DEF release!EditManifest, Plan
    <3>2. Named(v1')
      BY <3>1, SlippedIsNamed
    <3> QED
      BY <3>2 DEF Named
  <2>2. CASE UNCHANGED v1
    BY <1>1, <2>2 DEF Named
  <2> QED
    BY <2>1, <2>2 DEF release!ReleaseNext, release!Archive, release!ExportEnv, release!SlipEnv, release!Push,
                      release!Build, release!Rollback, release!CheckServed
<1>4. \A n : n \in 1..v4 => n \in 1..v4'
  BY <1>1, <1>2
<1>5. \A source : Sourced(source) => Sourced(source)'
  BY <1>4 DEF Sourced
<1>6. \A e : Configured(e) => Configured(e)'
  BY DEF Configured, release!Contracts
<1>7. ASSUME UNCHANGED <<v5, v6, v7>> PROVE ReleaseInv'
  BY <1>2, <1>3, <1>4, <1>5, <1>6, <1>7 DEF ReleaseInv
<1>8. CASE release!EditManifest \/ release!Archive \/ release!ExportEnv \/ release!SlipEnv \/ release!Push
  BY <1>7, <1>8 DEF release!EditManifest, release!Archive, release!ExportEnv, release!SlipEnv, release!Push
<1>9. ASSUME NEW source \in release!Sources, release!Build(source) PROVE ReleaseInv'
  <2>1. PICK deployment : deployment = [source |-> source, env |-> v3]
    OBVIOUS
  <2>2. /\ v5' = v5 \union {deployment} /\ UNCHANGED v7
        /\ v6' = IF source.target = "production" THEN {deployment} ELSE v6
        /\ release!SourceAllowed(source) /\ release!ConfigLoads(v3) /\ release!GatePasses(v3)
    BY <1>9, <2>1 DEF release!Build
  <2>3. Configured(v3) /\ Sourced(source)
    BY <1>1, <2>2, BuiltAsApproved, BuiltFromMain
  <2>4. deployment.source = source /\ deployment.env = v3
    BY <2>1
  <2>5. PICK e : e = v3
    OBVIOUS
  <2>6. Configured(e)' /\ Sourced(source)'
    BY <1>5, <1>6, <2>3, <2>5
  <2>7. \A d \in v5' : Configured(d.env)' /\ Sourced(d.source)'
    BY <1>5, <1>6, <2>2, <2>4, <2>5, <2>6 DEF ReleaseInv
  <2>8. \A d \in v6' : d.source.content \in 1..v4'
    BY <1>4, <2>2, <2>3, <2>4 DEF ReleaseInv, Sourced
  <2> QED
    BY <1>2, <1>3, <2>2, <2>7, <2>8 DEF ReleaseInv
<1>10. ASSUME NEW deployment \in v5, release!Rollback(deployment) PROVE ReleaseInv'
  <2>1. deployment.source.content \in 1..v4 /\ v6' = {deployment} /\ UNCHANGED <<v5, v7>>
    BY <1>10 DEF release!Rollback, ReleaseInv, Sourced
  <2> QED
    BY <1>2, <1>3, <1>4, <1>5, <1>6, <2>1 DEF ReleaseInv
<1>11. ASSUME NEW deployment \in v5, NEW c, release!CheckServed(deployment, c) PROVE ReleaseInv'
  <2>1. v7' = {[commit |-> c, deployment |-> deployment]} /\ UNCHANGED <<v5, v6>>
    BY <1>11 DEF release!CheckServed
  <2>2. deployment.source.content = c
    BY <1>11 DEF release!CheckServed, ReleaseInv, Sourced
  <2>3. \A proof \in v7' : proof.deployment.source.content = proof.commit
    BY <2>1, <2>2
  <2> QED
    BY <1>2, <1>3, <1>4, <1>5, <1>6, <2>1, <2>3 DEF ReleaseInv
<1> QED
  BY <1>8, <1>9, <1>10, <1>11 DEF release!ReleaseNext

----------------------------------------------------------------------------
(* The Ethereum curator's page: v2 is known and v3 the selection *)

\* a class on display is bound to the account, and a write is for the class that was bound
Bound == ethereum!DefaultClass(v2) # ethereum!NoClass => v3.owner = account /\ v3.class # ethereum!NoClass
ClassKept ==
  \A i \in OneSlot : runs[i].live =>
    /\ runs[i].op.class # ethereum!NoClass
    /\ runs[i].op.what # "settle" => v3.owner = account /\ v3.class = runs[i].op.class

CuratorInv == curatorFlow!FlowInv /\ curatorFlow!OwnRuns /\ Bound /\ ClassKept

LEMMA CuratorHolds == CuratorInv => ethereum!NeverRetargeted
<1> SUFFICES ASSUME CuratorInv, NEW i \in OneSlot, runs[i].live, runs[i].op.what # "settle"
             PROVE  ethereum!CurrentClass \in {ethereum!NoClass, runs[i].op.class}
  BY DEF ethereum!NeverRetargeted
<1>1. v3.owner = account /\ v3.class = runs[i].op.class /\ runs[i].op.class # ethereum!NoClass
  BY DEF CuratorInv, ClassKept
<1>2. ethereum!EffectiveSelected = runs[i].op.class
  BY <1>1 DEF ethereum!EffectiveSelected, ethereum!Selected
<1> QED
  BY <1>2 DEF ethereum!CurrentClass

\* the first of some classes
LEMMA LeastOfNats ==
  ASSUME NEW S, S \subseteq Nat, S # {}
  PROVE  \E x \in S : \A y \in S : x <= y
<1> DEFINE R == OpToRel(<, Nat)
<1>1. IsWellFoundedOn(R, Nat)
  BY NatLessThanWellFounded
<1>2. \A x, y \in Nat : <<y, x>> \in R <=> y < x
  BY DEF OpToRel
<1> HIDE DEF R
<1>3. \E x \in S : \A y \in S : ~ (<<y, x>> \in R)
  BY <1>1, WFMin
<1>4. PICK x \in S : \A y \in S : ~ (<<y, x>> \in R)
  BY <1>3
<1>5. ASSUME NEW y \in S PROVE x <= y
  <2>1. x \in Nat /\ y \in Nat
    OBVIOUS
  <2>2. ~(<<y, x>> \in R)
    BY <1>4
  <2>3. ~(y < x)
    BY <1>2, <2>1, <2>2
  <2> QED
    BY <2>1, <2>3
<1> QED
  BY <1>5

LEMMA ClassesAreNamed ==
  /\ \A c \in CuratorClasses : c # ethereum!NoClass
  /\ \A k : ethereum!PositionViews(k) \subseteq CuratorClasses
  /\ ethereum!Least(CuratorClasses) \in CuratorClasses
<1>1. CuratorClasses \subseteq Nat \ {ethereum!NoClass} /\ CuratorClasses # {}
  BY PagesOK DEF ethereum!ClassesOK
<1>2. \E x \in CuratorClasses : \A y \in CuratorClasses : x <= y
  BY <1>1, LeastOfNats
<1>3. ethereum!Least(CuratorClasses) \in CuratorClasses
  BY <1>2 DEF ethereum!Least
<1> QED
  BY <1>1, <1>3 DEF ethereum!PositionViews

LEMMA CuratorStarts == ethereum!FlowInit /\ ethereum!CuratorPageInit => CuratorInv
<1> SUFFICES ASSUME ethereum!FlowInit, ethereum!CuratorPageInit PROVE CuratorInv
  OBVIOUS
<1>1. curatorFlow!FlowInv
  BY CuratorRest, curatorFlow!FlowStarts
<1>2. \A i \in OneSlot : runs[i].live = FALSE
  BY DEF ethereum!FlowInit, ethereum!NoRun
<1>3. ethereum!DefaultClass(v2) = ethereum!NoClass
  BY DEF ethereum!CuratorPageInit, ethereum!NothingKnown, ethereum!NoStanding, ethereum!DefaultClass, ethereum!PositionViews
<1> QED
  BY <1>1, <1>2, <1>3 DEF CuratorInv, curatorFlow!OwnRuns, Bound, ClassKept

\* what a read shows leaves a bound class alone
LEMMA ShowsBinds ==
  ASSUME CuratorInv, UNCHANGED account, NEW k, ethereum!Shows(k, account),
         \A i \in OneSlot : runs'[i].live => runs[i].live /\ runs'[i].op = runs[i].op
  PROVE  Bound' /\ ClassKept'
<1>1. v2' = k /\ account' = account
  BY DEF ethereum!Shows
<1>2. \/ v3' = v3 /\ (ethereum!DefaultClass(k) = ethereum!NoClass \/ (v3.owner = account /\ v3.class # ethereum!NoClass))
      \/ /\ ~(v3.owner = account /\ v3.class # ethereum!NoClass)
         /\ ethereum!DefaultClass(k) # ethereum!NoClass
         /\ v3'.owner = account /\ v3'.class = ethereum!DefaultClass(k)
  BY DEF ethereum!Shows
<1>3. ethereum!DefaultClass(v2)' = ethereum!DefaultClass(k)
  BY <1>1 DEF ethereum!DefaultClass, ethereum!PositionViews
<1>4. Bound'
  BY <1>1, <1>2, <1>3 DEF Bound
<1>5. ClassKept'
  BY <1>1, <1>2 DEF CuratorInv, ClassKept
<1> QED
  BY <1>4, <1>5

\* the class a write is begun for is the one that is bound
LEMMA CurrentIsBound ==
  ASSUME Bound, ethereum!CurrentClass # ethereum!NoClass
  PROVE  v3.owner = account /\ v3.class = ethereum!CurrentClass
<1>1. ethereum!CurrentClass = ethereum!EffectiveSelected
  BY DEF ethereum!CurrentClass
<1>2. CASE ethereum!Selected # ethereum!NoClass
  BY <1>1, <1>2 DEF ethereum!EffectiveSelected, ethereum!Selected
<1>3. CASE ethereum!Selected = ethereum!NoClass
  BY <1>1, <1>3 DEF Bound, ethereum!EffectiveSelected, ethereum!Selected
<1> QED
  BY <1>2, <1>3

LEMMA CuratorKeeps == CuratorInv /\ ethereum!CuratorPageNext => CuratorInv'
<1> SUFFICES ASSUME CuratorInv, ethereum!CuratorPageNext PROVE CuratorInv'
  OBVIOUS
<1>0. curatorFlow!FlowInv /\ curatorFlow!OwnRuns /\ Bound /\ ClassKept /\ curatorFlow!Shapes
  BY DEF CuratorInv, curatorFlow!FlowInv
<1>1. curatorFlow!FlowInv'
  BY <1>0, CuratorSteps, curatorFlow!FlowKeeps
<1>2. ASSUME curatorFlow!FlowGoesOn
      PROVE  /\ curatorFlow!OwnRuns'
             /\ \A i \in OneSlot : runs'[i].live => account' = account /\ runs[i].live /\ runs'[i].op = runs[i].op
  BY <1>0, <1>2, curatorFlow!OwnRunsStay, curatorFlow!RunsGoOn
<1>3. ASSUME curatorFlow!FlowGoesOn, UNCHANGED <<account, v2, v3>> PROVE CuratorInv'
  <2>1. curatorFlow!OwnRuns' /\ ClassKept'
    BY <1>0, <1>2, <1>3 DEF ClassKept
  <2>2. Bound'
    BY <1>0, <1>3 DEF Bound, ethereum!DefaultClass, ethereum!PositionViews
  <2> QED
    BY <1>1, <2>1, <2>2 DEF CuratorInv
<1>4. ASSUME curatorFlow!FlowGoesOn, UNCHANGED account, NEW k, ethereum!Shows(k, account) PROVE CuratorInv'
  BY <1>1, <1>2, <1>4, ShowsBinds DEF CuratorInv
<1>5. CASE ethereum!ReadModule \/ ethereum!ReadsFail
  <2>1. curatorFlow!FlowGoesOn /\ UNCHANGED account
    BY <1>5 DEF ethereum!ReadModule, ethereum!ReadsFail, ethereum!flowVars, curatorFlow!FlowGoesOn
  <2>2. \E k : ethereum!Shows(k, account)
    BY <1>5 DEF ethereum!ReadModule, ethereum!ReadsFail
  <2> QED
    BY <1>4, <2>1, <2>2
<1>6. CASE ethereum!Select
  <2>1. curatorFlow!FlowGoesOn /\ UNCHANGED <<account, runs>> /\ ~curatorFlow!Busy
    BY <1>6, CuratorRest DEF ethereum!Select, ethereum!flowVars, curatorFlow!FlowGoesOn
  <2>2. \A i \in OneSlot : ~runs[i].live
    BY <1>0, <2>1, curatorFlow!FlightIsBusy DEF curatorFlow!InFlight
  <2>3. PICK c \in CuratorClasses : v3' = [owner |-> account, class |-> c]
    BY <1>6, ClassesAreNamed DEF ethereum!Select
  <2>4. v3'.owner = account' /\ v3'.class # ethereum!NoClass
    BY <2>1, <2>3, ClassesAreNamed
  <2>5. Bound' /\ ClassKept'
    BY <2>1, <2>2, <2>4 DEF Bound, ClassKept
  <2> QED
    BY <1>1, <1>2, <2>1, <2>5 DEF CuratorInv
<1>7. ASSUME NEW what, NEW class, ethereum!Begins(what, class), class # ethereum!NoClass,
             what # "settle" => v3.owner = account /\ v3.class = class
      PROVE  CuratorInv'
  <2>1. UNCHANGED <<account, v2, v3>> /\ ethereum!Start([what |-> what, class |-> class])
    BY <1>7 DEF ethereum!Begins, ethereum!curatorPageVars
  <2>2. PICK op : op = [what |-> what, class |-> class]
    OBVIOUS
  <2>3. curatorFlow!StartFor(op, account)
    BY <2>1, <2>2, CuratorRest
  <2>4. curatorFlow!OwnRuns'
    BY <1>0, <2>1, <2>3, curatorFlow!OwnRunsStay
  <2>5. \A i \in OneSlot : runs'[i].live => runs'[i].op = op
    BY <1>0, <2>3, curatorFlow!RunBegun
  <2>6. op.what = what /\ op.class = class
    BY <2>2
  <2>7. ClassKept'
    BY <1>7, <2>1, <2>5, <2>6 DEF ClassKept
  <2>8. Bound'
    BY <1>0, <2>1 DEF Bound, ethereum!DefaultClass, ethereum!PositionViews
  <2> QED
    BY <1>1, <2>4, <2>7, <2>8 DEF CuratorInv
<1>8. CASE ethereum!Post \/ ethereum!Withdraw
  <2>1. ethereum!CurrentClass # ethereum!NoClass
    BY <1>8 DEF ethereum!Post, ethereum!Withdraw, ethereum!CanWrite
  <2>2. v3.owner = account /\ v3.class = ethereum!CurrentClass
    BY <1>0, <2>1, CurrentIsBound
  <2>3. \E what : ethereum!Begins(what, ethereum!CurrentClass)
    BY <1>8 DEF ethereum!Post, ethereum!Withdraw
  <2> QED
    BY <1>7, <2>1, <2>2, <2>3
<1>9. CASE ethereum!SettleClosedRound
  <2>1. \E class : class # ethereum!NoClass /\ ethereum!Begins("settle", class)
    <3>1. ethereum!RecoveryClass # ethereum!NoClass
      BY ClassesAreNamed DEF ethereum!RecoveryClass
    <3> QED
      BY <1>9, <3>1 DEF ethereum!SettleClosedRound
  <2> QED
    BY <1>7, <2>1
<1>10. CASE ethereum!ModuleMoves
  <2>1. curatorFlow!FlowGoesOn /\ UNCHANGED <<account, v2, v3>>
    BY <1>10 DEF ethereum!ModuleMoves, curatorFlow!FlowGoesOn
  <2> QED
    BY <1>3, <2>1
<1>11. CASE ethereum!PageSwitchAccount
  <2>1. curatorFlow!FlowGoesOn /\ account' # account /\ v2' = ethereum!NothingKnown
    BY <1>11, CuratorRest DEF ethereum!PageSwitchAccount, ethereum!SwitchAccount, curatorFlow!FlowGoesOn
  <2>2. ethereum!DefaultClass(ethereum!NothingKnown) = ethereum!NoClass
    BY DEF ethereum!NothingKnown, ethereum!NoStanding, ethereum!DefaultClass, ethereum!PositionViews
  <2>3. Bound'
    BY <2>1, <2>2 DEF Bound, ethereum!DefaultClass, ethereum!PositionViews
  <2>4. ClassKept'
    BY <1>2, <2>1 DEF ClassKept
  <2> QED
    BY <1>1, <1>2, <2>1, <2>3, <2>4 DEF CuratorInv
<1>12. ASSUME NEW i \in OneSlot, ethereum!PageRefreshed(i) PROVE CuratorInv'
  <2>1. ethereum!Refreshed(i)
    BY <1>12 DEF ethereum!PageRefreshed
  <2>2. curatorFlow!FlowGoesOn /\ UNCHANGED account
    BY <2>1, CuratorRuns DEF curatorFlow!FlowGoesOn, ethereum!Refreshed
  <2>3. CASE UNCHANGED <<v2, v3>>
    BY <1>3, <2>2, <2>3
  <2>4. CASE \E k : ethereum!Shows(k, account)
    BY <1>4, <2>2, <2>4
  <2>5. CASE ethereum!Succeeds(i) /\ v3' = [owner |-> account, class |-> runs[i].op.class]
    <3>1. runs[i].live /\ v3'.owner = account' /\ v3'.class = runs[i].op.class
      BY <2>2, <2>5 DEF ethereum!Succeeds, ethereum!Current
    <3>2. v3'.class # ethereum!NoClass
      BY <1>0, <3>1 DEF ClassKept
    <3>3. \A j \in OneSlot : ~runs'[j].live
      <4>1. runs'[i].live = FALSE /\ \A j \in OneSlot : j # i => runs'[j] = runs[j]
        BY <1>0, <2>1, CuratorRuns, curatorFlow!OneSlot DEF curatorFlow!Refreshed, curatorFlow!Done, curatorFlow!NoRun
      <4>2. \A j \in OneSlot : runs[j].live => j = i
        BY <1>0, <3>1 DEF curatorFlow!FlowInv, curatorFlow!OneAlive, curatorFlow!Alive, curatorFlow!OwnRuns
      <4> QED
        BY <4>1, <4>2
    <3>4. Bound' /\ ClassKept'
      BY <3>1, <3>2, <3>3 DEF Bound, ClassKept
    <3> QED
      BY <1>1, <1>2, <2>2, <3>4 DEF CuratorInv
  <2> QED
    BY <1>12, <2>3, <2>4, <2>5 DEF ethereum!PageRefreshed
<1>13. ASSUME NEW k \in DOMAIN txs, ethereum!PageMine(k) PROVE CuratorInv'
  <2>1. curatorFlow!FlowGoesOn /\ UNCHANGED <<account, v2, v3>>
    BY <1>13, CuratorRest DEF ethereum!PageMine, ethereum!Mine, curatorFlow!FlowGoesOn
  <2> QED
    BY <1>3, <2>1
<1>14. ASSUME NEW i \in OneSlot, ethereum!Advance(i), UNCHANGED ethereum!curatorPageVars PROVE CuratorInv'
  <2>1. curatorFlow!FlowGoesOn /\ UNCHANGED <<v2, v3>>
    BY <1>14, CuratorRuns DEF curatorFlow!FlowGoesOn, ethereum!curatorPageVars
  <2>2. UNCHANGED account
    BY <1>14, CuratorRuns, curatorFlow!RunSteps
  <2> QED
    BY <1>3, <2>1, <2>2
<1> QED
  BY <1>5, <1>6, <1>8, <1>9, <1>10, <1>11, <1>12, <1>13, <1>14 DEF ethereum!CuratorPageNext

----------------------------------------------------------------------------
(* The Buy card: v1 is the field, v4 prep, v5 locked, v6 fresh, v7 market, v9 terms and v10 agreed *)

IsPrep(p) == p = [phase |-> p.phase, op |-> p.op, amountIn |-> p.amountIn, minimum |-> p.minimum,
                  review |-> p.review, permit |-> p.permit]
IsAllowance(a) == a.amount \in Nat /\ a.expiration \in Nat
IsMarket(m) == m = [canReceive |-> m.canReceive, approved |-> m.approved, router |-> m.router] /\ IsAllowance(m.router)

BuyShapes ==
  /\ v1 \in Nat /\ IsPrep(v4) /\ IsMarket(v7)
  /\ v4.phase = "permit" => v4.op = "buy"

\* a review on screen is of the amount in the field, the minimum kept for it and the allowance read
ReviewKept ==
  v4.phase = "reviewReuse" =>
    /\ ~buyFlow!Busy
    /\ v5.amountIn = v1 /\ v6.amountIn = v1
    /\ v4.review = [amountIn |-> v1, minimum |-> v5.minimum, allowance |-> v6.allowance, direct |-> v6.direct]

\* a buy that is prepared is for what was on screen when its button was pressed
Preparing ==
  buy!PrepBusy /\ v4.op = "buy" =>
    /\ v4.amountIn = v1 /\ v5.amountIn = v1 /\ v10.amountIn = v1
    /\ v5.minimum = v4.minimum /\ v10.minimum = v4.minimum
    /\ v10.allowance = IF v4.review.direct THEN v4.review.allowance ELSE buy!NoAllowance

\* and so is one that is in flight, with the allowance it spends
Handed ==
  buyFlow!InFlight("buy") =>
    /\ v9.amountIn = v1 /\ v5.amountIn = v1 /\ v10.amountIn = v1
    /\ v5.minimum = v9.minimum /\ v10.minimum = v9.minimum
    /\ \/ v9.allowance = buy!NoAllowance
       \/ /\ v9.allowance = v10.allowance
          /\ v6 = [amountIn |-> v1, allowance |-> v9.allowance, direct |-> TRUE]

BuyInv ==
  /\ buyFlow!FlowInv /\ BuyQuiet /\ buyFlow!OwnRuns
  /\ BuyShapes /\ ReviewKept /\ Preparing /\ Handed

LEMMA BuyHolds == BuyInv => buy!SignedAsReviewed
<1> SUFFICES ASSUME BuyInv, buy!LiveBuy
             PROVE  /\ v9.amountIn = v10.amountIn /\ v10.amountIn = v1
                    /\ v9.minimum = v10.minimum /\ v10.minimum = buy!ShownMinimum
                    /\ \/ v9.allowance = buy!NoAllowance
                       \/ v9.allowance = v10.allowance /\ v9.allowance = buy!DisplayedAllowance
  BY DEF buy!SignedAsReviewed
<1>1. buyFlow!InFlight("buy")
  BY DEF buy!LiveBuy, buyFlow!InFlight
<1>2. buy!Busy
  BY <1>1, BuyRest, buyFlow!FlightIsBusy DEF BuyInv
<1>3. buy!ShownMinimum = v5.minimum
  BY <1>1, <1>2 DEF BuyInv, Handed, buy!ShownMinimum, buy!Locked, buy!BuyBusy
<1>4. v6 = [amountIn |-> v1, allowance |-> v9.allowance, direct |-> TRUE] => buy!DisplayedAllowance = v9.allowance
  BY DEF buy!DisplayedAllowance
<1> QED
  BY <1>1, <1>3, <1>4 DEF BuyInv, Handed

LEMMA IdleIsPrep ==
  /\ IsPrep(buy!IdlePrep) /\ buy!IdlePrep.phase = "idle"
  /\ \A phase : IsPrep(buy!Prepare(phase)) /\ buy!Prepare(phase).phase = phase
BY DEF IsPrep, buy!IdlePrep, buy!Prepare

LEMMA AllowancesTyped ==
  /\ IsAllowance(buy!NoAllowance) /\ \A a \in buy!Allowances : IsAllowance(a)
  /\ \A approved : \A m \in [canReceive : {TRUE}, approved : approved, router : buy!Allowances] : IsMarket(m)
<1>1. Expirations \subseteq Nat /\ Unlimited \in Nat
  BY PagesOK DEF buy!AmountsOK
<1>2. IsAllowance(buy!NoAllowance) /\ \A a \in buy!Allowances : IsAllowance(a)
  BY <1>1 DEF IsAllowance, buy!NoAllowance, buy!Allowances
<1>3. ASSUME NEW S, NEW m \in [canReceive : {TRUE}, approved : S, router : buy!Allowances] PROVE IsMarket(m)
  <2>1. m = [canReceive |-> m.canReceive, approved |-> m.approved, router |-> m.router] /\ m.router \in buy!Allowances
    OBVIOUS
  <2> QED
    BY <1>2, <2>1 DEF IsMarket
<1> QED
  BY <1>2, <1>3

LEMMA BuyStarts == buy!FlowInit /\ buy!BuyInit => BuyInv
<1> SUFFICES ASSUME buy!FlowInit, buy!BuyInit PROVE BuyInv
  OBVIOUS
<1>1. buyFlow!FlowInv
  BY BuyRest, buyFlow!FlowStarts
<1>2. \A i \in OneSlot : runs[i].live = FALSE
  BY DEF buy!FlowInit, buy!NoRun
<1>3. v4 = buy!IdlePrep /\ v1 = 0 /\ IsMarket(v7)
  BY AllowancesTyped DEF buy!BuyInit
<1>4. ~buy!PrepBusy
  BY <1>3, IdleIsPrep DEF buy!PrepBusy
<1>5. BuyShapes /\ ReviewKept /\ Preparing /\ BuyQuiet /\ buyFlow!OwnRuns
  BY <1>2, <1>3, <1>4, IdleIsPrep DEF BuyShapes, ReviewKept, Preparing, BuyQuiet, buyFlow!OwnRuns
<1>6. ~buyFlow!InFlight("buy")
  BY <1>2 DEF buyFlow!InFlight, buy!FlowInit, buy!IdleStatus
<1> QED
  BY <1>1, <1>5, <1>6 DEF BuyInv, Handed

\* the flow of the card, in one place
LEMMA BuyFlowKeeps == ASSUME BuyInv, buy!BuyNext PROVE buyFlow!FlowInv' /\ BuyQuiet'
<1>1. buyFlow!FlowInv /\ BuyQuiet
  BY DEF BuyInv
<1>2. buyFlow!FlowInv'
  BY <1>1, BuySteps, buyFlow!FlowKeeps DEF BuyQuiet
<1>3. BuyQuiet'
  BY <1>1, BuySteps, buyFlow!FlowQuiet DEF BuyQuiet
<1> QED
  BY <1>2, <1>3

\* while the flow goes on by itself, the card's part stays as it is
LEMMA CardRests ==
  ASSUME BuyInv, buyFlow!FlowGoesOn, UNCHANGED <<v1, v4, v5, v6, v9, v10>>
  PROVE  buyFlow!OwnRuns' /\ ReviewKept' /\ Preparing' /\ Handed'
<1>0. buyFlow!FlowInv /\ buyFlow!OwnRuns /\ buyFlow!Shapes /\ ReviewKept /\ Preparing /\ Handed
  BY DEF BuyInv, buyFlow!FlowInv
<1>1. buyFlow!OwnRuns'
  BY <1>0, buyFlow!OwnRunsStay
<1>2. ReviewKept'
  BY <1>0, buyFlow!FlowQuiet DEF ReviewKept
<1>3. Preparing'
  BY <1>0 DEF Preparing, buy!PrepBusy
<1>4. Handed'
  BY <1>0, buyFlow!FlightGoesOn DEF Handed
<1> QED
  BY <1>1, <1>2, <1>3, <1>4

\* a quiet flow has no buy in flight, and starts none by itself
LEMMA NoneInFlight ==
  ASSUME BuyInv, ~buyFlow!Busy, buyFlow!FlowGoesOn
  PROVE  ~buyFlow!Busy' /\ ~buyFlow!InFlight("buy")' /\ buyFlow!OwnRuns' /\ Handed'
<1>0. buyFlow!FlowInv /\ buyFlow!OwnRuns /\ buyFlow!Shapes
  BY DEF BuyInv, buyFlow!FlowInv
<1>1. ~buyFlow!InFlight("buy")
  BY <1>0, buyFlow!FlightIsBusy
<1>2. ~buyFlow!InFlight("buy")'
  BY <1>0, <1>1, buyFlow!FlightGoesOn
<1>3. ~buyFlow!Busy' /\ buyFlow!OwnRuns'
  BY <1>0, buyFlow!FlowQuiet, buyFlow!OwnRunsStay
<1> QED
  BY <1>2, <1>3 DEF Handed

\* the reads, the quotes, the slippage limit, the amount and the world
LEMMA CardReads ==
  ASSUME BuyInv, \/ buy!Refetch \/ buy!Requote \/ buy!QuoteAges \/ buy!ChangeSlippage \/ buy!MarketMoves
                 \/ (buy!Recheck \/ buy!PollArrives \/ buy!SwitchNode \/ buy!StopWaiting) /\ UNCHANGED buy!buyVars
  PROVE  BuyShapes' /\ buyFlow!OwnRuns' /\ ReviewKept' /\ Preparing' /\ Handed'
<1>1. UNCHANGED <<v1, v4, v5, v6, v9, v10>>
  BY DEF buy!Refetch, buy!Requote, buy!QuoteAges, buy!ChangeSlippage, buy!MarketMoves, buy!buyVars
<1>2. buyFlow!FlowGoesOn
  <2>1. CASE buy!StopWaiting
    BY <2>1, BuyRest DEF buyFlow!FlowGoesOn
  <2>2. CASE UNCHANGED <<account, status, runs, txs>>
    BY <2>2 DEF buyFlow!FlowGoesOn
  <2> QED
    BY <2>1, <2>2 DEF buy!Refetch, buy!Requote, buy!QuoteAges, buy!ChangeSlippage, buy!MarketMoves, buy!flowVars,
                      buy!Recheck, buy!PollArrives, buy!SwitchNode
<1>3. BuyShapes
  BY DEF BuyInv
<1>4. IsMarket(v7)'
  <2>1. CASE buy!MarketMoves
    <3>1. CASE v7' = [v7 EXCEPT !.canReceive = ~@]
      <4>1. PICK can : can = ~v7.canReceive
        OBVIOUS
      <4>2. PICK m : m = [v7 EXCEPT !.canReceive = can]
        OBVIOUS
      <4>3. m = [canReceive |-> can, approved |-> v7.approved, router |-> v7.router]
        BY <1>3, <4>2 DEF BuyShapes, IsMarket
      <4>4. v7' = m
        BY <3>1, <4>1, <4>2
      <4> QED
        BY <1>3, <4>3, <4>4 DEF BuyShapes, IsMarket
    <3>2. ASSUME NEW a \in buy!Allowances, v7' = [v7 EXCEPT !.router = a] PROVE IsMarket(v7)'
      <4>1. v7' = [canReceive |-> v7.canReceive, approved |-> v7.approved, router |-> a]
        BY <1>3, <3>2 DEF BuyShapes, IsMarket
      <4> QED
        BY <4>1, AllowancesTyped DEF IsMarket
    <3> QED
      BY <2>1, <3>1, <3>2 DEF buy!MarketMoves
  <2>2. CASE UNCHANGED v7
    BY <1>3, <2>2 DEF BuyShapes, IsMarket, IsAllowance
  <2> QED
    BY <2>1, <2>2 DEF buy!Refetch, buy!Requote, buy!QuoteAges, buy!ChangeSlippage, buy!buyVars
<1>5. BuyShapes'
  BY <1>1, <1>3, <1>4 DEF BuyShapes, IsPrep
<1> QED
  BY <1>1, <1>2, <1>5, CardRests

\* what is pressed while nothing is in flight and nothing is prepared
LEMMA PressKeeps ==
  ASSUME BuyInv, ~buyFlow!Busy, buyFlow!FlowGoesOn, UNCHANGED v7, v1' \in Nat, IsPrep(v4'), v4'.phase # "permit",
         v4'.phase # "reviewReuse",
         v4'.phase = "preparing" /\ v4'.op = "buy" =>
           /\ v4'.amountIn = v1' /\ v5'.amountIn = v1' /\ v10'.amountIn = v1'
           /\ v5'.minimum = v4'.minimum /\ v10'.minimum = v4'.minimum
           /\ v10'.allowance = IF v4'.review.direct THEN v4'.review.allowance ELSE buy!NoAllowance
  PROVE  BuyShapes' /\ buyFlow!OwnRuns' /\ ReviewKept' /\ Preparing' /\ Handed'
<1>1. buyFlow!OwnRuns' /\ Handed'
  BY NoneInFlight
<1>2. BuyShapes'
  BY DEF BuyInv, BuyShapes, IsMarket, IsPrep, IsAllowance
<1>3. ReviewKept' /\ Preparing'
  BY DEF ReviewKept, Preparing, buy!PrepBusy
<1> QED
  BY <1>1, <1>2, <1>3

\* another amount forgets the review
LEMMA AmountKeeps ==
  ASSUME BuyInv, buy!ChangeAmount
  PROVE  BuyShapes' /\ buyFlow!OwnRuns' /\ ReviewKept' /\ Preparing' /\ Handed'
<1>1. ~buyFlow!Busy /\ buyFlow!FlowGoesOn /\ ~buy!PrepBusy /\ UNCHANGED v7
  BY BuyRest DEF buy!ChangeAmount, buy!BuyBusy, buy!flowVars, buyFlow!FlowGoesOn
<1>2. v1' \in Nat
  BY PagesOK DEF buy!AmountsOK, buy!ChangeAmount
<1>3. IsPrep(v4) /\ v4.phase \notin {"preparing", "permit"}
  BY <1>1 DEF BuyInv, BuyShapes, buy!PrepBusy
<1>4. v4' = IF v4.phase \in {"notice", "error", "reviewReuse"} THEN buy!IdlePrep ELSE v4
  BY DEF buy!ChangeAmount
<1>5. IsPrep(v4') /\ v4'.phase \notin {"preparing", "permit", "reviewReuse"}
  BY <1>3, <1>4, IdleIsPrep
<1> QED
  BY <1>1, <1>2, <1>5, PressKeeps

\* what a button begins to prepare
Begun(op, amountIn, minimum, review) ==
  [buy!Prepare("preparing") EXCEPT !.op = op, !.amountIn = amountIn, !.minimum = minimum, !.review = review]

LEMMA BegunIsPrep ==
  ASSUME NEW op, NEW amountIn, NEW minimum, NEW review
  PROVE  /\ IsPrep(Begun(op, amountIn, minimum, review)) /\ Begun(op, amountIn, minimum, review).phase = "preparing"
         /\ Begun(op, amountIn, minimum, review).op = op /\ Begun(op, amountIn, minimum, review).amountIn = amountIn
         /\ Begun(op, amountIn, minimum, review).minimum = minimum /\ Begun(op, amountIn, minimum, review).review = review
<1>1. buy!Prepare("preparing") = [phase |-> "preparing", op |-> "none", amountIn |-> 0, minimum |-> 0,
                                  review |-> buy!NoReview, permit |-> buy!NoPermit]
  BY DEF buy!Prepare, buy!IdlePrep
<1>2. PICK p : p = [phase |-> "preparing", op |-> "none", amountIn |-> 0, minimum |-> 0,
                    review |-> buy!NoReview, permit |-> buy!NoPermit]
  OBVIOUS
<1>3. PICK q : q = [p EXCEPT !.op = op, !.amountIn = amountIn, !.minimum = minimum, !.review = review]
  OBVIOUS
<1>4. q = [phase |-> "preparing", op |-> op, amountIn |-> amountIn, minimum |-> minimum, review |-> review,
           permit |-> buy!NoPermit]
  BY <1>2, <1>3
<1>5. Begun(op, amountIn, minimum, review) = q
  BY <1>1, <1>2, <1>3 DEF Begun
<1> QED
  BY <1>4, <1>5 DEF IsPrep

\* the button
LEMMA ButtonKeeps ==
  ASSUME BuyInv, buy!PressApprove \/ buy!PressStale \/ buy!PressBuy \/ buy!PressContinue
  PROVE  BuyShapes' /\ buyFlow!OwnRuns' /\ ReviewKept' /\ Preparing' /\ Handed'
<1>0. ~buy!BuyBusy /\ ~buyFlow!Busy /\ v1 \in Nat
  BY BuyRest DEF buy!PressApprove, buy!PressStale, buy!PressBuy, buy!PressContinue, buy!CanSubmit, buy!BuyBusy,
                 BuyInv, BuyShapes
<1>1. ASSUME buy!Notice PROVE BuyShapes' /\ buyFlow!OwnRuns' /\ ReviewKept' /\ Preparing' /\ Handed'
  <2>1. buyFlow!FlowGoesOn /\ UNCHANGED <<v1, v7>> /\ v4' = buy!Prepare("notice")
    BY <1>1 DEF buy!Notice, buy!flowVars, buyFlow!FlowGoesOn
  <2>2. IsPrep(v4') /\ v4'.phase = "notice"
    BY <2>1, IdleIsPrep
  <2> QED
    BY <1>0, <2>1, <2>2, PressKeeps
<1>2. ASSUME NEW op, NEW amountIn, NEW minimum, NEW review, buy!Begin(op, amountIn, minimum, review)
      PROVE  /\ buyFlow!FlowGoesOn /\ UNCHANGED <<v1, v7>> /\ v1' \in Nat
             /\ IsPrep(v4') /\ v4'.phase = "preparing" /\ v4'.op = op
             /\ v4'.amountIn = amountIn /\ v4'.minimum = minimum /\ v4'.review = review
  <2>1. buyFlow!FlowGoesOn /\ UNCHANGED <<v1, v7>>
    BY <1>2, BuyRest DEF buy!Begin, buyFlow!FlowGoesOn
  <2>2. v4' = Begun(op, amountIn, minimum, review)
    BY <1>2 DEF buy!Begin, Begun
  <2> QED
    BY <1>0, <2>1, <2>2, BegunIsPrep
<1>3. CASE buy!PressApprove
  BY <1>0, <1>2, <1>3, PressKeeps DEF buy!PressApprove
<1>4. CASE buy!PressStale
  BY <1>1, <1>4 DEF buy!PressStale
<1>5. CASE buy!PressBuy
  <2>1. /\ v5'.amountIn = v1 /\ v5'.minimum = buy!Minimum
        /\ v10'.amountIn = v1 /\ v10'.minimum = buy!ShownMinimum /\ v10'.allowance = buy!NoAllowance
    BY <1>5 DEF buy!PressBuy
  <2>2. buy!ShownMinimum = buy!Minimum
    BY <1>0, <1>5 DEF buy!PressBuy, buy!ShownMinimum, buy!Locked
  <2>3. buy!Begin("buy", v1, buy!Minimum, buy!NoReview)
    BY <1>5 DEF buy!PressBuy
  <2>4. /\ buyFlow!FlowGoesOn /\ UNCHANGED <<v1, v7>> /\ v1' \in Nat
        /\ IsPrep(v4') /\ v4'.phase = "preparing" /\ v4'.op = "buy"
        /\ v4'.amountIn = v1 /\ v4'.minimum = buy!Minimum /\ v4'.review = buy!NoReview
    BY <1>2, <2>3
  <2>5. ~buy!NoReview.direct
    BY DEF buy!NoReview
  <2> QED
    BY <1>0, <2>1, <2>2, <2>4, <2>5, PressKeeps
<1>6. CASE buy!PressContinue /\ buy!Begin("buy", v5.amountIn, v5.minimum, v4.review)
  <2>1. v5.amountIn = v1 /\ v4.phase = "reviewReuse" /\ UNCHANGED v5
        /\ v10' = [amountIn |-> v1, minimum |-> buy!ShownMinimum,
                   allowance |-> IF v4.review.direct THEN buy!DisplayedAllowance ELSE buy!NoAllowance]
    <3>1. v4.phase = "reviewReuse"
      BY <1>6 DEF buy!PressContinue
    <3>2. v5.amountIn = v1
      BY <3>1 DEF BuyInv, ReviewKept
    <3> QED
      BY <1>6, <3>1, <3>2 DEF buy!PressContinue
  <2>2. buy!ShownMinimum = v5.minimum
    BY <2>1 DEF buy!ShownMinimum, buy!Locked
  <2>3. v4.review.direct => buy!DisplayedAllowance = v4.review.allowance
    BY <2>1 DEF BuyInv, ReviewKept, buy!DisplayedAllowance
  <2>4. /\ buyFlow!FlowGoesOn /\ UNCHANGED <<v1, v7>> /\ v1' \in Nat
        /\ IsPrep(v4') /\ v4'.phase = "preparing" /\ v4'.op = "buy"
        /\ v4'.amountIn = v5.amountIn /\ v4'.minimum = v5.minimum /\ v4'.review = v4.review
    BY <1>2, <1>6
  <2>5. /\ v10'.amountIn = v1 /\ v10'.minimum = v5.minimum
        /\ v10'.allowance = IF v4'.review.direct THEN v4'.review.allowance ELSE buy!NoAllowance
    BY <2>1, <2>2, <2>3, <2>4
  <2> QED
    BY <1>0, <2>1, <2>4, <2>5, PressKeeps
<1>7. CASE buy!PressContinue /\ buy!Notice
  BY <1>1, <1>7
<1> QED
  BY <1>3, <1>4, <1>5, <1>6, <1>7 DEF buy!PressContinue

\* a write that begins is the only one in flight
LEMMA BuyBegun ==
  ASSUME BuyInv, NEW op, buy!Start(op), UNCHANGED account
  PROVE  buyFlow!OwnRuns' /\ (buyFlow!InFlight("buy")' => op = "buy")
<1>0. buyFlow!Shapes /\ buyFlow!OwnRuns /\ buyFlow!StartFor(op, account)
  BY BuyRest DEF BuyInv, buyFlow!FlowInv
<1>1. \A j \in OneSlot : runs'[j].live => runs'[j].op = op
  BY <1>0, buyFlow!RunBegun
<1>2. status'.phase = "simulating"
  <2>1. PICK r : r = [buyFlow!NoRun EXCEPT !.pc = "probe", !.op = op, !.by = account, !.live = TRUE] /\ buyFlow!Say(r, buyFlow!Of(r, "simulating"))
    BY <1>0 DEF buyFlow!StartFor
  <2>2. r.live = TRUE /\ r.by = account
    BY <2>1 DEF buyFlow!NoRun
  <2>3. status' = buyFlow!Of(r, "simulating")
    BY <2>1, <2>2 DEF buyFlow!Say, buyFlow!Current
  <2> QED
    BY <2>3 DEF buyFlow!Of, buyFlow!IdleStatus
<1>3. buyFlow!OwnRuns'
  BY <1>0, buyFlow!OwnRunsStay
<1> QED
  BY <1>1, <1>2, <1>3 DEF buyFlow!InFlight

\* a preparation ends while nothing is in flight
LEMMA PrepEnds ==
  ASSUME BuyInv, buy!PrepBusy, buyFlow!FlowGoesOn, UNCHANGED <<v1, v7>>, v4' = buy!Prepare("error")
  PROVE  BuyShapes' /\ buyFlow!OwnRuns' /\ ReviewKept' /\ Preparing' /\ Handed'
<1>1. ~buyFlow!Busy /\ v1' \in Nat
  BY DEF BuyInv, BuyQuiet, BuyShapes
<1>2. IsPrep(v4') /\ v4'.phase = "error"
  BY IdleIsPrep
<1> QED
  BY <1>1, <1>2, PressKeeps

\* once it has begun, the card has nothing prepared
LEMMA HandedKeeps ==
  ASSUME BuyInv, NEW op, buy!Start(op), UNCHANGED <<account, v1, v7>>, v4' = buy!IdlePrep, op = "buy" => Handed'
  PROVE  BuyShapes' /\ buyFlow!OwnRuns' /\ ReviewKept' /\ Preparing' /\ Handed'
<1>1. buyFlow!OwnRuns' /\ (buyFlow!InFlight("buy")' => op = "buy")
  BY BuyBegun
<1>2. IsPrep(v4') /\ v4'.phase = "idle"
  BY IdleIsPrep
<1>3. BuyShapes'
  BY <1>2 DEF BuyInv, BuyShapes, IsMarket, IsAllowance
<1>4. ReviewKept' /\ Preparing'
  BY <1>2 DEF ReviewKept, Preparing, buy!PrepBusy
<1>5. Handed'
  BY <1>1 DEF Handed
<1> QED
  BY <1>1, <1>3, <1>4, <1>5

\* what is handed to the write flow is what was prepared
LEMMA HandOverKeeps ==
  ASSUME BuyInv, buy!PrepBusy, v4.op = "buy", NEW permit, NEW allowance, buy!HandOver(permit, allowance),
         UNCHANGED <<account, v1, v5, v7, v10>>,
         allowance = buy!NoAllowance \/
           (allowance = v10.allowance /\ v6' = [amountIn |-> v1, allowance |-> allowance, direct |-> TRUE])
  PROVE  BuyShapes' /\ buyFlow!OwnRuns' /\ ReviewKept' /\ Preparing' /\ Handed'
<1>1. CASE buy!PrepError
  BY <1>1, PrepEnds DEF buy!PrepError, buyFlow!FlowGoesOn
<1>2. CASE v4' = buy!IdlePrep /\ buy!Start("buy")
           /\ v9' = [amountIn |-> v4.amountIn, minimum |-> v4.minimum,
                     allowance |-> IF permit # buy!NoPermit THEN buy!NoAllowance ELSE allowance]
  <2>1. /\ v4.amountIn = v1 /\ v5.amountIn = v1 /\ v10.amountIn = v1
        /\ v5.minimum = v4.minimum /\ v10.minimum = v4.minimum
    BY DEF BuyInv, Preparing
  <2>2. v9'.amountIn = v1 /\ v9'.minimum = v4.minimum /\ v9'.allowance \in {buy!NoAllowance, allowance}
    BY <1>2, <2>1
  <2>3. Handed'
    BY <2>1, <2>2 DEF Handed
  <2> QED
    BY <1>2, <2>3, HandedKeeps
<1>3. /\ buy!BuildBuyExecuteArgs(v4.amountIn, v4.minimum, permit).swap.amountIn = v4.amountIn
      /\ buy!BuildBuyExecuteArgs(v4.amountIn, v4.minimum, permit).swap.minimum = v4.minimum
  BY DEF buy!BuildBuyExecuteArgs
<1> QED
  BY <1>1, <1>2, <1>3 DEF buy!HandOver

\* the preparation
LEMMA PreparationKeeps ==
  ASSUME BuyInv, buy!PrepFails \/ buy!ApprovePrepared \/ buy!PermitSigned
  PROVE  BuyShapes' /\ buyFlow!OwnRuns' /\ ReviewKept' /\ Preparing' /\ Handed'
<1>1. CASE buy!PrepFails
  BY <1>1, PrepEnds DEF buy!PrepFails, buy!PrepError, buyFlow!FlowGoesOn
<1>2. CASE buy!ApprovePrepared
  <2>1. buy!PrepBusy /\ UNCHANGED <<account, v1, v7>>
    BY <1>2 DEF buy!ApprovePrepared, buy!PrepBusy
  <2>2. CASE buy!PrepError
    BY <2>1, <2>2, PrepEnds DEF buy!PrepError, buyFlow!FlowGoesOn
  <2>3. CASE v4' = buy!IdlePrep /\ buy!Start("approve")
    BY <2>1, <2>3, HandedKeeps
  <2> QED
    BY <1>2, <2>2, <2>3 DEF buy!ApprovePrepared
<1>3. CASE buy!PermitSigned
  <2>1. buy!PrepBusy /\ v4.op = "buy" /\ UNCHANGED <<account, v1, v5, v7, v10>>
    BY <1>3 DEF buy!PermitSigned, buy!PrepBusy, BuyInv, BuyShapes
  <2>2. buy!HandOver(v4.permit, buy!NoAllowance)
    BY <1>3 DEF buy!PermitSigned
  <2> QED
    BY <2>1, <2>2, HandOverKeeps
<1> QED
  BY <1>1, <1>2, <1>3

\* what a prepared buy reads of the router, and shows
RouterRead == ~buy!NeedsPermit(v7.router, v4.amountIn)
Reviewed(direct) == [amountIn |-> v4.amountIn, minimum |-> v4.minimum, allowance |-> v7.router, direct |-> direct]
Freshly(direct) == [amountIn |-> v4.amountIn, allowance |-> v7.router, direct |-> direct]
UnderReview(review) == [buy!Prepare("reviewReuse") EXCEPT !.review = review]
Permitting == [v4 EXCEPT !.phase = "permit", !.permit = buy!BuildPermitSingle(v4.amountIn, v7.router.nonce)]

LEMMA ReviewShown ==
  ASSUME NEW review
  PROVE  IsPrep(UnderReview(review)) /\ UnderReview(review).phase = "reviewReuse" /\ UnderReview(review).review = review
<1>1. buy!Prepare("reviewReuse") = [phase |-> "reviewReuse", op |-> "none", amountIn |-> 0, minimum |-> 0,
                                    review |-> buy!NoReview, permit |-> buy!NoPermit]
  BY DEF buy!Prepare, buy!IdlePrep
<1>2. PICK p : p = [phase |-> "reviewReuse", op |-> "none", amountIn |-> 0, minimum |-> 0,
                    review |-> buy!NoReview, permit |-> buy!NoPermit]
  OBVIOUS
<1>3. PICK q : q = [p EXCEPT !.review = review]
  OBVIOUS
<1>4. q = [phase |-> "reviewReuse", op |-> "none", amountIn |-> 0, minimum |-> 0, review |-> review,
           permit |-> buy!NoPermit]
  BY <1>2, <1>3
<1>5. UnderReview(review) = q
  BY <1>1, <1>2, <1>3 DEF UnderReview
<1> QED
  BY <1>4, <1>5 DEF IsPrep

LEMMA PermitAsked ==
  ASSUME IsPrep(v4)
  PROVE  /\ IsPrep(Permitting) /\ Permitting.phase = "permit" /\ Permitting.op = v4.op
         /\ Permitting.amountIn = v4.amountIn /\ Permitting.minimum = v4.minimum /\ Permitting.review = v4.review
<1>1. PICK permit : permit = buy!BuildPermitSingle(v4.amountIn, v7.router.nonce)
  OBVIOUS
<1>2. PICK q : q = [v4 EXCEPT !.phase = "permit", !.permit = permit]
  OBVIOUS
<1>3. q = [phase |-> "permit", op |-> v4.op, amountIn |-> v4.amountIn, minimum |-> v4.minimum, review |-> v4.review,
           permit |-> permit]
  BY <1>2 DEF IsPrep
<1>4. Permitting = q
  BY <1>1, <1>2 DEF Permitting
<1> QED
  BY <1>3, <1>4 DEF IsPrep

LEMMA PreparedKeeps ==
  ASSUME BuyInv, buy!BuyPrepared
  PROVE  BuyShapes' /\ buyFlow!OwnRuns' /\ ReviewKept' /\ Preparing' /\ Handed'
<1>0. /\ buy!PrepBusy /\ v4.op = "buy" /\ UNCHANGED <<account, v1, v5, v7, v10>>
      /\ v1 \in Nat /\ IsPrep(v4) /\ IsMarket(v7) /\ ~buyFlow!Busy
  BY DEF buy!BuyPrepared, buy!PrepBusy, BuyInv, BuyShapes, BuyQuiet
<1>1. /\ v4.amountIn = v1 /\ v5.amountIn = v1 /\ v10.amountIn = v1
      /\ v5.minimum = v4.minimum /\ v10.minimum = v4.minimum
      /\ v10.allowance = IF v4.review.direct THEN v4.review.allowance ELSE buy!NoAllowance
  BY <1>0 DEF BuyInv, Preparing
<1>2. PICK direct \in BOOLEAN : direct = RouterRead
  BY DEF RouterRead
<1>3. \/ buy!PrepError
      \/ v4' = UnderReview(Reviewed(direct)) /\ v6' = Freshly(direct) /\ UNCHANGED <<runs, status, txs>>
      \/ /\ ~(buy!Standing(v7.router, v4.amountIn) /\ v4.review # Reviewed(direct))
         /\ direct /\ v6' = Freshly(direct) /\ buy!HandOver(buy!NoPermit, v7.router)
      \/ v4' = Permitting /\ UNCHANGED <<runs, status, txs>>
  BY <1>2 DEF buy!BuyPrepared, RouterRead, Reviewed, Freshly, UnderReview, Permitting
<1>4. CASE buy!PrepError
  BY <1>0, <1>4, PrepEnds DEF buy!PrepError, buyFlow!FlowGoesOn
<1>5. CASE v4' = UnderReview(Reviewed(direct)) /\ v6' = Freshly(direct) /\ UNCHANGED <<runs, status, txs>>
  <2>1. IsPrep(v4') /\ v4'.phase = "reviewReuse" /\ v4'.review = Reviewed(direct)
    BY <1>5, ReviewShown
  <2>2. buyFlow!FlowGoesOn
    BY <1>0, <1>5 DEF buyFlow!FlowGoesOn
  <2>3. ~buyFlow!Busy' /\ buyFlow!OwnRuns' /\ Handed'
    BY <1>0, <2>2, NoneInFlight
  <2>4. BuyShapes'
    BY <1>0, <2>1 DEF BuyShapes, IsMarket, IsAllowance
  <2>5. Preparing'
    BY <2>1 DEF Preparing, buy!PrepBusy
  <2>6. v6'.amountIn = v1 /\ v6'.allowance = v7.router /\ v6'.direct = direct
    BY <1>1, <1>5 DEF Freshly
  <2>7. v4'.review = [amountIn |-> v1, minimum |-> v5.minimum, allowance |-> v7.router, direct |-> direct]
    BY <1>1, <2>1 DEF Reviewed
  <2>8. ReviewKept'
    BY <1>0, <1>1, <2>3, <2>6, <2>7 DEF ReviewKept
  <2> QED
    BY <2>3, <2>4, <2>5, <2>8
<1>6. CASE /\ ~(buy!Standing(v7.router, v4.amountIn) /\ v4.review # Reviewed(direct))
           /\ direct /\ v6' = Freshly(direct) /\ buy!HandOver(buy!NoPermit, v7.router)
  <2>1. buy!Standing(v7.router, v4.amountIn)
    <3>1. RouterRead
      BY <1>2, <1>6
    <3>2. PICK r, a : r = v7.router /\ a = v4.amountIn
      OBVIOUS
    <3>3. r.amount \in Nat /\ r.expiration \in Nat /\ a \in Nat
      BY <1>0, <1>1, <3>2 DEF IsMarket, IsAllowance
    <3>4. ~(r.amount < a \/ r.expiration < 1200)
      BY <3>1, <3>2 DEF RouterRead, buy!NeedsPermit, buy!Deadline
    <3>5. r.amount >= a /\ r.expiration > 0
      BY <3>3, <3>4
    <3> QED
      BY <3>2, <3>5 DEF buy!Standing
  <2>2. v4.review = Reviewed(direct)
    BY <1>6, <2>1
  <2>3. v4.review.direct /\ v4.review.allowance = v7.router
    BY <1>6, <2>2 DEF Reviewed
  <2>4. v10.allowance = v7.router
    BY <1>1, <2>3
  <2>5. direct = TRUE
    BY <1>2, <1>6
  <2>6. v6' = [amountIn |-> v1, allowance |-> v7.router, direct |-> TRUE]
    BY <1>1, <1>6, <2>5 DEF Freshly
  <2> QED
    BY <1>0, <1>6, <2>4, <2>6, HandOverKeeps
<1>7. CASE v4' = Permitting /\ UNCHANGED <<runs, status, txs>>
  <2>1. /\ IsPrep(v4') /\ v4'.phase = "permit" /\ v4'.op = "buy"
        /\ v4'.amountIn = v4.amountIn /\ v4'.minimum = v4.minimum /\ v4'.review = v4.review
    BY <1>0, <1>7, PermitAsked
  <2>2. buyFlow!FlowGoesOn
    BY <1>0, <1>7 DEF buyFlow!FlowGoesOn
  <2>3. buyFlow!OwnRuns' /\ Handed'
    BY <1>0, <2>2, NoneInFlight
  <2>4. BuyShapes'
    BY <1>0, <2>1 DEF BuyShapes, IsMarket, IsAllowance
  <2>5. Preparing'
    BY <1>0, <1>1, <2>1 DEF Preparing
  <2>6. ReviewKept'
    BY <2>1 DEF ReviewKept
  <2> QED
    BY <2>3, <2>4, <2>5, <2>6
<1> QED
  BY <1>3, <1>4, <1>5, <1>6, <1>7

\* what the flow and the world do
LEMMA BuyRunsKeep ==
  ASSUME BuyInv, NEW i \in OneSlot, buy!BuyAdvance(i) \/ buy!BuyRefreshed(i)
  PROVE  BuyShapes' /\ buyFlow!OwnRuns' /\ ReviewKept' /\ Preparing' /\ Handed'
<1>0. /\ buyFlow!FlowInv /\ buyFlow!OwnRuns /\ buyFlow!Shapes
      /\ BuyShapes /\ ReviewKept /\ Preparing /\ Handed /\ BuyQuiet
  BY DEF BuyInv, buyFlow!FlowInv
<1>1. buyFlow!FlowGoesOn /\ UNCHANGED <<v4, v5, v6, v7>>
  BY BuyRuns DEF buy!BuyAdvance, buy!BuyRefreshed, buyFlow!FlowGoesOn
<1>2. IF buy!PrepBusy \/ buy!LiveBuy' THEN UNCHANGED <<v9, v10>> ELSE v9' = buy!NoTerms /\ v10' = buy!NoTerms
  BY DEF buy!BuyAdvance, buy!BuyRefreshed
<1>3. buy!LiveBuy' <=> buyFlow!InFlight("buy")'
  BY DEF buy!LiveBuy, buyFlow!InFlight
<1>4. buyFlow!OwnRuns'
  BY <1>0, <1>1, buyFlow!OwnRunsStay
<1>5. CASE UNCHANGED v1
  <2>1. BuyShapes'
    BY <1>0, <1>1, <1>5 DEF BuyShapes, IsPrep, IsMarket, IsAllowance
  <2>2. ReviewKept'
    BY <1>0, <1>1, <1>5, buyFlow!FlowQuiet DEF ReviewKept
  <2>3. Preparing'
    BY <1>0, <1>1, <1>2, <1>5 DEF Preparing, buy!PrepBusy
  <2>4. ASSUME buyFlow!InFlight("buy")' PROVE buyFlow!InFlight("buy") /\ UNCHANGED <<v9, v10>>
    BY <1>0, <1>1, <1>2, <1>3, <2>4, buyFlow!FlightGoesOn
  <2>5. Handed'
    BY <1>0, <1>1, <1>5, <2>4 DEF Handed
  <2> QED
    BY <1>4, <2>1, <2>2, <2>3, <2>5
<1>6. CASE v1' = 0 /\ buy!BuyRefreshed(i) /\ buy!Succeeds(i)
  <2>1. buy!Refreshed(i) /\ buyFlow!Refreshed(i) /\ buyFlow!Current(runs[i]) /\ buyFlow!Outcome(runs[i]) = "success"
    BY <1>6, BuyRuns DEF buy!BuyRefreshed, buy!Succeeds, buy!Current, buyFlow!Current, buy!Outcome, buyFlow!Outcome
  <2>2. runs[i].live
    BY <2>1 DEF buyFlow!Current
  <2>3. buyFlow!Busy
    <3>1. PICK op : op = runs[i].op
      OBVIOUS
    <3>2. buyFlow!InFlight(op)
      BY <2>2, <3>1 DEF buyFlow!InFlight
    <3> QED
      BY <1>0, <3>2, buyFlow!FlightIsBusy
  <2>4. ~buy!PrepBusy /\ v4.phase # "reviewReuse"
    BY <1>0, <2>3 DEF BuyQuiet, ReviewKept
  <2>5. \A j \in OneSlot : ~runs'[j].live
    <3>1. runs'[i].live = FALSE /\ \A j \in OneSlot : j # i => runs'[j] = runs[j]
      BY <1>0, <2>1, buyFlow!OneSlot DEF buyFlow!Refreshed, buyFlow!Done, buyFlow!NoRun
    <3>2. \A j \in OneSlot : runs[j].live => j = i
      BY <1>0, <2>2 DEF buyFlow!FlowInv, buyFlow!OneAlive, buyFlow!Alive, buyFlow!OwnRuns
    <3> QED
      BY <3>1, <3>2
  <2>6. status'.phase = "success"
    BY <2>1 DEF buyFlow!Refreshed, buyFlow!Say, buyFlow!Of, buyFlow!IdleStatus
  <2>7. ~buyFlow!InFlight("buy")'
    BY <2>5, <2>6 DEF buyFlow!InFlight
  <2>8. BuyShapes'
    BY <1>0, <1>1, <1>6 DEF BuyShapes, IsPrep, IsMarket, IsAllowance
  <2>9. ReviewKept' /\ Preparing' /\ Handed'
    BY <1>1, <2>4, <2>7 DEF ReviewKept, Preparing, Handed, buy!PrepBusy
  <2> QED
    BY <1>4, <2>8, <2>9
<1>7. UNCHANGED v1 \/ (v1' = 0 /\ buy!BuyRefreshed(i) /\ buy!Succeeds(i))
  BY DEF buy!BuyAdvance, buy!BuyRefreshed
<1> QED
  BY <1>5, <1>6, <1>7

LEMMA CardMines ==
  ASSUME BuyInv, NEW k \in DOMAIN txs, buy!BuyMine(k)
  PROVE  BuyShapes' /\ buyFlow!OwnRuns' /\ ReviewKept' /\ Preparing' /\ Handed'
<1>1. buyFlow!FlowGoesOn /\ UNCHANGED <<v1, v4, v5, v6, v9, v10>>
  BY BuyRest DEF buy!BuyMine, buyFlow!FlowGoesOn
<1>2. BuyShapes
  BY DEF BuyInv
<1>3. PICK n : n = v7.router.nonce + 1
  OBVIOUS
<1>4. PICK spent : spent = [buy!NoAllowance EXCEPT !.nonce = n]
  OBVIOUS
<1>5. spent = [amount |-> 0, expiration |-> 0, nonce |-> n]
  BY <1>4 DEF buy!NoAllowance
<1>6. UNCHANGED v7 \/ v7' = [v7 EXCEPT !.approved = Unlimited] \/ v7' = [v7 EXCEPT !.router = spent]
  BY <1>3, <1>4 DEF buy!BuyMine
<1>7. IsMarket(v7')
  <2>1. CASE UNCHANGED v7
    BY <1>2, <2>1 DEF BuyShapes, IsMarket, IsAllowance
  <2>2. CASE v7' = [v7 EXCEPT !.approved = Unlimited]
    <3>1. v7' = [canReceive |-> v7.canReceive, approved |-> Unlimited, router |-> v7.router]
      BY <1>2, <2>2 DEF BuyShapes, IsMarket
    <3> QED
      BY <1>2, <3>1 DEF BuyShapes, IsMarket
  <2>3. CASE v7' = [v7 EXCEPT !.router = spent]
    <3>1. v7' = [canReceive |-> v7.canReceive, approved |-> v7.approved, router |-> spent]
      BY <1>2, <2>3 DEF BuyShapes, IsMarket
    <3> QED
      BY <1>5, <3>1 DEF IsMarket, IsAllowance
  <2> QED
    BY <1>6, <2>1, <2>2, <2>3
<1>8. BuyShapes'
  BY <1>1, <1>2, <1>7 DEF BuyShapes, IsPrep
<1> QED
  BY <1>1, <1>8, CardRests

LEMMA CardSwitches ==
  ASSUME BuyInv, buy!BuySwitchAccount
  PROVE  BuyShapes' /\ buyFlow!OwnRuns' /\ ReviewKept' /\ Preparing' /\ Handed'
<1>0. buyFlow!FlowInv /\ buyFlow!OwnRuns /\ buyFlow!Shapes /\ v1 \in Nat
  BY DEF BuyInv, BuyShapes, buyFlow!FlowInv
<1>1. buyFlow!FlowGoesOn /\ account' # account /\ v4' = buy!IdlePrep /\ UNCHANGED v1
  BY BuyRest DEF buy!BuySwitchAccount, buy!SwitchAccount, buyFlow!FlowGoesOn
<1>2. buyFlow!OwnRuns' /\ ~buyFlow!InFlight("buy")'
  BY <1>0, <1>1, buyFlow!OwnRunsStay, buyFlow!FlightGoesOn
<1>3. IsMarket(v7')
  BY AllowancesTyped DEF buy!BuySwitchAccount
<1>4. IsPrep(v4') /\ v4'.phase = "idle"
  BY <1>1, IdleIsPrep
<1>5. BuyShapes'
  BY <1>0, <1>1, <1>3, <1>4 DEF BuyShapes
<1>6. ReviewKept' /\ Preparing' /\ Handed'
  BY <1>2, <1>4 DEF ReviewKept, Preparing, Handed, buy!PrepBusy
<1> QED
  BY <1>2, <1>5, <1>6

LEMMA BuyKeeps == BuyInv /\ buy!BuyNext => BuyInv'
<1> SUFFICES ASSUME BuyInv, buy!BuyNext PROVE BuyInv'
  OBVIOUS
<1> DEFINE Kept == BuyShapes' /\ buyFlow!OwnRuns' /\ ReviewKept' /\ Preparing' /\ Handed'
<1>1. CASE \/ buy!Refetch \/ buy!Requote \/ buy!QuoteAges \/ buy!ChangeSlippage \/ buy!MarketMoves
           \/ (buy!Recheck \/ buy!PollArrives \/ buy!SwitchNode \/ buy!StopWaiting) /\ UNCHANGED buy!buyVars
  <2>1. Kept
    BY <1>1, CardReads
  <2> QED
    BY <2>1, BuyFlowKeeps DEF BuyInv
<1>2. CASE buy!ChangeAmount
  BY <1>2, AmountKeeps, BuyFlowKeeps DEF BuyInv
<1>3. CASE buy!PressApprove \/ buy!PressStale \/ buy!PressBuy \/ buy!PressContinue
  BY <1>3, ButtonKeeps, BuyFlowKeeps DEF BuyInv
<1>4. CASE buy!PrepFails \/ buy!ApprovePrepared \/ buy!PermitSigned
  BY <1>4, PreparationKeeps, BuyFlowKeeps DEF BuyInv
<1>5. CASE buy!BuyPrepared
  BY <1>5, PreparedKeeps, BuyFlowKeeps DEF BuyInv
<1>6. CASE buy!BuySwitchAccount
  BY <1>6, CardSwitches, BuyFlowKeeps DEF BuyInv
<1>7. ASSUME NEW i \in OneSlot, buy!BuyAdvance(i) \/ buy!BuyRefreshed(i) PROVE BuyInv'
  BY <1>7, BuyRunsKeep, BuyFlowKeeps DEF BuyInv
<1>8. ASSUME NEW k \in DOMAIN txs, buy!BuyMine(k) PROVE BuyInv'
  BY <1>8, CardMines, BuyFlowKeeps DEF BuyInv
<1> QED
  BY <1>1, <1>2, <1>3, <1>4, <1>5, <1>6, <1>7, <1>8 DEF buy!BuyNext

----------------------------------------------------------------------------
(* All of them *)

ReviewedKept ==
  /\ page = "buy" => BuyInv
  /\ page = "ethereum" => CuratorInv
  /\ page = "morpho" => QuoteInv
  /\ page = "release" => ReleaseInv
  /\ page = "program" => ProgramInv

LEMMA StartReviewed == Init => ReviewedKept
<1> SUFFICES ASSUME Init PROVE ReviewedKept
  OBVIOUS
<1>1. CASE page = "buy"
  BY <1>1, BuyStarts DEF Init, Follows, ReviewedKept
<1>2. CASE page = "ethereum"
  BY <1>2, CuratorStarts DEF Init, Follows, ReviewedKept
<1>3. CASE page = "morpho"
  BY <1>3, QuoteStarts DEF Init, Follows, ReviewedKept
<1>4. CASE page = "release"
  BY <1>4, ReleaseStarts DEF Init, Follows, ReviewedKept
<1>5. CASE page = "program"
  BY <1>5, ProgramStarts DEF Init, Follows, ReviewedKept
<1> QED
  BY <1>1, <1>2, <1>3, <1>4, <1>5 DEF ReviewedKept

\* a step that changes nothing keeps what each of them knows
LEMMA BuyRestsKept == ASSUME BuyInv, UNCHANGED vars PROVE BuyInv'
<1>1. UNCHANGED <<account, status, runs, txs>> /\ UNCHANGED <<v1, v4, v5, v6, v7, v9, v10>>
  BY DEF vars, flowVars, own
<1>2. buyFlow!FlowGoesOn
  BY <1>1 DEF buyFlow!FlowGoesOn
<1>3. buyFlow!FlowInv /\ BuyQuiet /\ BuyShapes
  BY DEF BuyInv
<1>4. buyFlow!FlowInv'
  BY <1>2, <1>3, buyFlow!FlowKeeps
<1>5. BuyQuiet'
  BY <1>1, <1>3 DEF BuyQuiet, buy!PrepBusy, buyFlow!Busy
<1>6. BuyShapes'
  BY <1>1, <1>3 DEF BuyShapes, IsPrep, IsMarket, IsAllowance
<1> QED
  BY <1>1, <1>2, <1>4, <1>5, <1>6, CardRests DEF BuyInv

LEMMA CuratorRestsKept == ASSUME CuratorInv, UNCHANGED vars PROVE CuratorInv'
<1>1. UNCHANGED <<account, status, runs, txs>> /\ UNCHANGED <<v2, v3>>
  BY DEF vars, flowVars, own
<1>2. curatorFlow!FlowGoesOn
  BY <1>1 DEF curatorFlow!FlowGoesOn
<1>3. curatorFlow!FlowInv /\ curatorFlow!Shapes /\ curatorFlow!OwnRuns /\ Bound /\ ClassKept
  BY DEF CuratorInv, curatorFlow!FlowInv
<1>4. curatorFlow!FlowInv' /\ curatorFlow!OwnRuns'
  BY <1>2, <1>3, curatorFlow!FlowKeeps, curatorFlow!OwnRunsStay
<1>5. ClassKept'
  BY <1>1, <1>3 DEF ClassKept
<1>6. Bound'
  BY <1>1, <1>3 DEF Bound, ethereum!DefaultClass, ethereum!PositionViews
<1> QED
  BY <1>4, <1>5, <1>6 DEF CuratorInv

LEMMA OthersRestKept ==
  ASSUME UNCHANGED vars
  PROVE  (QuoteInv => QuoteInv') /\ (ReleaseInv => ReleaseInv') /\ (ProgramInv => ProgramInv')
<1>1. UNCHANGED <<v1, v2, v3, v4, v5, v6, v7, v8, v9, v10, v11, v12>>
  BY DEF vars, own
<1>2. QuoteInv => QuoteInv'
  BY <1>1 DEF QuoteInv, IsSubmission
<1>3. ReleaseInv => ReleaseInv'
  BY <1>1 DEF ReleaseInv, Named, Configured, Sourced, Plan
<1>4. ASSUME ProgramInv PROVE ProgramInv'
  <2>1. ReleaseShapes'
    BY <1>1, <1>4 DEF ProgramInv, ReleaseShapes
  <2>2. Checked'
    BY <1>1, <1>4 DEF ProgramInv, Checked, IsBuild
  <2>3. Recorded'
    BY <1>1, <1>4 DEF ProgramInv, Recorded, IsBuild
  <2> QED
    BY <2>1, <2>2, <2>3 DEF ProgramInv
<1> QED
  BY <1>2, <1>3, <1>4

LEMMA StepReviewed == ReviewedKept /\ [Next]_vars => ReviewedKept'
<1> SUFFICES ASSUME ReviewedKept, [Next]_vars PROVE ReviewedKept'
  OBVIOUS
<1>1. CASE UNCHANGED vars
  <2>1. page' = page
    BY <1>1 DEF vars
  <2> QED
    BY <1>1, <2>1, BuyRestsKept, CuratorRestsKept, OthersRestKept DEF ReviewedKept
<1>2. CASE Next
  <2>1. page' = page
    BY <1>2 DEF Next, On
  <2>2. CASE page = "buy"
    <3>1. buy!BuyNext
      BY <1>2, <2>2 DEF Next, On
    <3> QED
      BY <2>1, <2>2, <3>1, BuyKeeps DEF ReviewedKept
  <2>3. CASE page = "ethereum"
    <3>1. ethereum!CuratorPageNext
      BY <1>2, <2>3 DEF Next, On
    <3> QED
      BY <2>1, <2>3, <3>1, CuratorKeeps DEF ReviewedKept
  <2>4. CASE page = "morpho"
    <3>1. morpho!MarketNext
      BY <1>2, <2>4 DEF Next, On
    <3> QED
      BY <2>1, <2>4, <3>1, QuoteKeeps DEF ReviewedKept
  <2>5. CASE page = "release"
    <3>1. release!ReleaseNext
      BY <1>2, <2>5 DEF Next, On
    <3> QED
      BY <2>1, <2>5, <3>1, ReleaseKeeps DEF ReviewedKept
  <2>6. CASE page = "program"
    <3>1. program!ProgramNext
      BY <1>2, <2>6 DEF Next, On
    <3> QED
      BY <2>1, <2>6, <3>1, ProgramKeeps DEF ReviewedKept
  <2>7. CASE page \notin {"buy", "ethereum", "morpho", "release", "program"}
    BY <2>1, <2>7 DEF ReviewedKept
  <2> QED
    BY <2>2, <2>3, <2>4, <2>5, <2>6, <2>7
<1> QED
  BY <1>1, <1>2

\* However quotes, limits, allowances, accounts, classes and networks move meanwhile, the wallet
\* signs what was on screen when the button was pressed and still is (BuyUsdfrPanel.tsx act and
\* buy, EthereumCuratorPanel.tsx, MorphoMarketSurface.tsx), and whatever slips in a manifest, an
\* environment or a checkout, what is released was approved and built from its commit
\* (frontend-env-from-manifest.mjs, next.config.ts, build-provenance.mjs, verify-devnet.ts).
THEOREM WhatWasReviewedIsSigned == Spec => []SignedAsReviewed
<1>1. ReviewedKept => SignedAsReviewed
  BY BuyHolds, CuratorHolds, QuoteShows, ReleaseHolds, RecordsAreProved DEF ReviewedKept, SignedAsReviewed
<1> QED
  BY <1>1, StartReviewed, StepReviewed, PTL DEF Spec
=============================================================================
