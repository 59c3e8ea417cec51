--------------------------- MODULE ProgramRelease ---------------------------
(***************************************************************************)
(* How a build of the Solana program is recorded, proved, activated on      *)
(* devnet and bound to the site: solana/curator-vault/scripts and           *)
(* tools/curator-vault-manifest.mjs.                                        *)
(*                                                                         *)
(* The inputs of a build are a version of the source.  Release builds are   *)
(* reproducible; the host build writes the same ELF path with other bytes.  *)
(* A hash is the file it is of.  The checks run in the order of the         *)
(* program's README on one checkout; the chain may change under them.       *)
(***************************************************************************)
EXTENDS Integers, Sequences

CONSTANTS Versions,
          MaxHistory, MaxUpgrades, MaxEfforts   \* bounds: commits, upgrades of the chain, steps by hand

VARIABLES sourceAt, work,        \* the inputs at each commit of the branch, and in the working tree
          target,                \* what the last builds left
          artifact, siteIdl,     \* the committed ELF and interface
          receipt, activation,   \* build.json; the build and slot the devnet manifest records
          chain,                 \* the program data and published interface on devnet
          check,                 \* how far the checks are, 0 when none runs
          verified, snapshot, site,  \* the last records of each, if any
          efforts

programVars == <<sourceAt, work, target, artifact, siteIdl, receipt, activation, chain, check,
                 verified, snapshot, site, efforts>>
repository == <<sourceAt, work, target, artifact, siteIdl, receipt, activation>>
records == <<verified, snapshot, site>>

Elf(version, builder) == <<version, builder>>
Tip == Len(sourceAt)
Topic == 0                       \* a commit of another branch

ProgramInit ==
    LET v == CHOOSE version \in Versions : TRUE
    IN  /\ sourceAt = <<v>> /\ work \in Versions
        /\ target = [elf |-> Elf(v, "release"), idl |-> v]
        /\ artifact = Elf(v, "release") /\ siteIdl = v
        /\ receipt = [commit |-> 1, elf |-> Elf(v, "release"), idl |-> v]
        /\ activation = [build |-> receipt, slot |-> 1]
        /\ chain = [elf |-> Elf(v, "release"), idl |-> v, slot |-> 1]
        /\ check = 0 /\ verified = {} /\ snapshot = {} /\ site = {} /\ efforts = 0

(* ------------------------------- conditions ------------------------------- *)

Clean == work = sourceAt[Tip]
OnBranch(commit) == commit \in 1..Tip
NoDrift(commit) == sourceAt[commit] = sourceAt[Tip]
EnsureSourceCommit(commit) == OnBranch(commit) /\ NoDrift(commit)

Receipted == receipt.elf = artifact /\ receipt.idl = siteIdl
Generated == target.elf = receipt.elf /\ target.idl = receipt.idl
Provenance == Clean /\ Receipted /\ EnsureSourceCommit(receipt.commit) /\ Generated

Activated == chain.slot = activation.slot /\ chain.elf = artifact

\* The gate of a site with a curator vault.
BindsDeployment == activation.build = receipt /\ Receipted

(* ------------------------------ the operator ------------------------------ *)

\* Nothing of the checkout is touched while the checks run on it.
Effort == check = 0 /\ efforts < MaxEfforts /\ efforts' = efforts + 1

Edit ==
    /\ Effort /\ work' \in Versions \ {work}
    /\ UNCHANGED <<sourceAt, target, artifact, siteIdl, receipt, activation, chain, check, records>>

Commit ==
    /\ Effort /\ Tip < MaxHistory /\ sourceAt' = Append(sourceAt, work)
    /\ UNCHANGED <<work, target, artifact, siteIdl, receipt, activation, chain, check, records>>

HostBuild == target' = [elf |-> Elf(work, "host"), idl |-> work]
ReleaseBuild == target' = [target EXCEPT !.elf = Elf(work, "release")]

BuildOnce ==
    /\ Effort /\ (HostBuild \/ ReleaseBuild)
    /\ UNCHANGED <<sourceAt, work, artifact, siteIdl, receipt, activation, chain, check, records>>

\* The built files are copied over the committed ones, both or one of them.
Adopt ==
    /\ Effort
    /\ \/ artifact' = target.elf /\ siteIdl' = target.idl
       \/ artifact' = target.elf /\ UNCHANGED siteIdl
       \/ siteIdl' = target.idl /\ UNCHANGED artifact
    /\ UNCHANGED <<sourceAt, work, target, receipt, activation, chain, check, records>>

WriteReceipt(commit) ==
    /\ Effort /\ Clean /\ EnsureSourceCommit(commit)
    /\ receipt' = [commit |-> commit, elf |-> artifact, idl |-> target.idl]
    /\ UNCHANGED <<sourceAt, work, target, artifact, siteIdl, activation, chain, check, records>>

RecordActivation(slot) ==
    /\ Effort /\ activation' = [build |-> receipt, slot |-> slot]
    /\ UNCHANGED <<sourceAt, work, target, artifact, siteIdl, receipt, chain, check, records>>

\* The upgrade authority, at any time: the committed files or what was just built.
Upgrade(elf) ==
    /\ chain.slot <= MaxUpgrades /\ chain' = [chain EXCEPT !.elf = elf, !.slot = @ + 1]
    /\ UNCHANGED <<repository, check, records, efforts>>

PublishIdl(idl) ==
    /\ idl # chain.idl /\ chain' = [chain EXCEPT !.idl = idl]
    /\ UNCHANGED <<repository, check, records, efforts>>

(* ------------------------------- the checks ------------------------------- *)

\* build:program, build:release, --verify-generated, then verify:devnet read by read: the files,
\* the program data, the interface, and the record.  Any of them may fail and end the run.
Steps == 6
Advance == check' = (check + 1) % Steps
Checks ==
    \/ /\ check = 0 /\ HostBuild
       /\ UNCHANGED <<sourceAt, work, artifact, siteIdl, receipt, activation, chain, records, efforts>>
    \/ /\ check = 1 /\ ReleaseBuild
       /\ UNCHANGED <<sourceAt, work, artifact, siteIdl, receipt, activation, chain, records, efforts>>
    \/ /\ \/ check = 2 /\ Provenance
          \/ check = 3 /\ Receipted /\ Activated
          \/ check = 4 /\ chain.idl = siteIdl
       /\ UNCHANGED <<repository, chain, records, efforts>>
    \/ /\ check = 5 /\ verified' = {[build |-> receipt, slot |-> activation.slot]}
       /\ UNCHANGED <<repository, chain, snapshot, site, efforts>>

ChecksFail ==
    /\ check > 0 /\ check' = 0
    /\ UNCHANGED <<repository, chain, records, efforts>>

\* The accounts and the program data are read at one slot.
Snapshot ==
    /\ activation.build = receipt /\ receipt.elf = artifact /\ Activated
    /\ snapshot' = {[build |-> receipt, elf |-> chain.elf]}
    /\ UNCHANGED <<repository, chain, check, verified, site, efforts>>

BuildSite ==
    /\ BindsDeployment /\ site' = {[build |-> receipt, idl |-> siteIdl]}
    /\ UNCHANGED <<repository, chain, check, verified, snapshot, efforts>>

ProgramNext ==
    \/ Edit \/ Commit \/ BuildOnce \/ Adopt
    \/ \E commit \in {Topic} \union 1..Tip : WriteReceipt(commit)
    \/ \E slot \in 1..chain.slot : RecordActivation(slot)
    \/ \E elf \in {artifact, target.elf} : Upgrade(elf)
    \/ \E idl \in {siteIdl, target.idl} : PublishIdl(idl)
    \/ Checks /\ Advance
    \/ ChecksFail \/ Snapshot \/ BuildSite

(* ------------------------------ properties ------------------------------ *)

\* Of a receipt the checks passed for: until the next upgrade the chain runs the release build
\* of its commit, and a site or a snapshot of the fork test bound to it has that commit's
\* interface and bytes, whatever was edited, committed, half adopted or upgraded meanwhile.
ReleasedAsProved ==
    \A proof \in verified :
        LET built == sourceAt[proof.build.commit]
        IN  /\ chain.slot = proof.slot => chain.elf = Elf(built, "release")
            /\ \A s \in site : s.build = proof.build => s.idl = built
            /\ \A s \in snapshot : s.build = proof.build => s.elf = Elf(built, "release")
=============================================================================
