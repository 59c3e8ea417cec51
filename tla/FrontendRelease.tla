-------------------------- MODULE FrontendRelease --------------------------
(***************************************************************************)
(* How a build of the site is configured, gated and put in front of users:  *)
(* the environment exported from the deployment manifest, the build gate    *)
(* (tools/frontend-env-from-manifest.mjs), the deploy source gate           *)
(* (frontend/next.config.ts), the configuration the site resolves           *)
(* (frontend/src/config/contracts.ts) and the check of what is served.      *)
(*                                                                         *)
(* Operators slip: a manifest of another run, one wrong field, one wrong    *)
(* variable, an upload from a disk.  Hashes are injective: a receipt is the *)
(* tuple it hashes, the checksum of a manifest is the manifest.  Approved   *)
(* is the receipt approved before the deployment, independently of it.      *)
(***************************************************************************)
EXTENDS Integers, Sequences, FiniteSets, SequencesExt

CONSTANTS Nonce,                 \* the deployer's approved first nonce
          SlippedKeys,           \* the addresses an operator may get wrong
          MaxSlips, MaxCommits, MaxBuilds   \* bounds: mistakes, commits of main, deployments

VARIABLES manifest, archived,    \* the manifest in the tree, and that whose checksum was approved, if any
          env,                   \* the variables the next build sees
          mainHead,              \* commits 1..mainHead of main
          built, live,           \* deployments, and that the production domains serve, if any
          served,                \* what the last check of the served revision proved, if any
          slips

releaseVars == <<manifest, archived, env, mainHead, built, live, served, slips>>

Mainnet == 1
Sepolia == 11155111
LocalFork == 31337
None == <<>>
Unset == "unset"
Usdc == <<"usdc", 0>>
Stray == <<"stray", 0>>
PlanDeployer == "deployer"

(* ---------------------------- the manifest ---------------------------- *)

Order == [timelock |-> 0, grove |-> 1, compliance |-> 2, usdfr |-> 3, reserves |-> 4,
          controller |-> 5, vault |-> 6, points |-> 7, registry |-> 8, oracle |-> 9, bridge |-> 10,
          curator |-> 11, waterfall |-> 12, defaultManager |-> 13, assessedImpairmentSource |-> 14,
          queue |-> 15, sGrove |-> 16]
Proxies == DOMAIN Order
Alone == {"votesAggregator", "governor", "mtmExecutor"}
Mapped == Proxies \union Alone \union {"stable"}

\* An implementation and its proxy for each, then the aggregator, the governor's pair, the executor.
CreateSequence(from, nonce) ==
    LET At(n) == <<from, nonce + n>>
        rest == 2 * Cardinality(Proxies)
        last == [votesAggregator |-> 0, governor |-> 2, mtmExecutor |-> 3]
    IN  [impl |-> [key \in Proxies \union {"governor"} |-> At(IF key \in Proxies THEN 2 * Order[key] ELSE rest + 1)],
         at   |-> [key \in Proxies \union Alone |->
                     At(IF key \in Proxies THEN 2 * Order[key] + 1 ELSE rest + last[key])]]

PrincipalReceipt(m) == <<"principals", m.principals>>
GasReceipt(m) == <<"gas", m.gas>>
DeploymentReceipt(m) == <<"deployment", m.config, m.artifacts, PrincipalReceipt(m), GasReceipt(m), m.nonce>>

\* What a deployment is started with, and the manifest it writes, with receipts of what it did.
TermsOf(chain, deployer, nonce) ==
    [chain |-> chain, production |-> chain = Mainnet, keepOps |-> FALSE, block |-> 7,
     principals |-> [deployer |-> deployer, roles |-> "approved", usdc |-> Usdc],
     gas |-> [limit |-> 2, maxFee |-> 3, priority |-> 1, funding |-> 6],
     config |-> "config", artifacts |-> "artifacts", nonce |-> nonce]
Written(t) ==
    LET done == CreateSequence(t.principals.deployer, t.nonce)
    IN  [chain |-> t.chain, production |-> t.production, keepOps |-> t.keepOps, block |-> t.block,
         principals |-> t.principals, gas |-> t.gas, config |-> t.config, artifacts |-> t.artifacts,
         nonce |-> t.nonce, impl |-> done.impl,
         at |-> [key \in Mapped |-> IF key = "stable" THEN Usdc ELSE done.at[key]],
         principalReceipt |-> PrincipalReceipt(t), gasReceipt |-> GasReceipt(t),
         receipt |-> DeploymentReceipt(t), approvedReceipt |-> DeploymentReceipt(t)]

PlanTerms == TermsOf(Mainnet, PlanDeployer, Nonce)
Plan == Written(PlanTerms)
Approved == DeploymentReceipt(PlanTerms)

OneSlip(m) ==
    {Written(TermsOf(Mainnet, PlanDeployer, Nonce + 1)), Written(TermsOf(Mainnet, "rehearser", Nonce)),
     Written(TermsOf(Sepolia, PlanDeployer, Nonce))}
    \union {[m EXCEPT !.at[key] = Stray] : key \in SlippedKeys}
    \union {[m EXCEPT !.at[keys[1]] = m.at[keys[2]], !.at[keys[2]] = m.at[keys[1]]] :
               keys \in SlippedKeys \X SlippedKeys}
    \union {[m EXCEPT !.production = FALSE], [m EXCEPT !.keepOps = TRUE], [m EXCEPT !.principals.roles = "other"],
            [m EXCEPT !.gas.funding = 5], [m EXCEPT !.nonce = Nonce + 1], [m EXCEPT !.block = 8]}

(* ---------------------------- the build gate ---------------------------- *)

GasAffordable(gas) == gas.limit > 0 /\ gas.maxFee > 0 /\ gas.priority <= gas.maxFee /\ gas.funding >= gas.limit * gas.maxFee

ReceiptsRecompute(m) ==
    /\ m.approvedReceipt = Approved /\ m.receipt = Approved
    /\ m.principalReceipt = PrincipalReceipt(m) /\ m.gasReceipt = GasReceipt(m)
    /\ DeploymentReceipt(m) = Approved

AsCreated(m) ==
    LET expected == CreateSequence(m.principals.deployer, m.nonce)
    IN  m.impl = expected.impl /\ \A key \in Proxies \union Alone : m.at[key] = expected.at[key]

ProductionManifest(m) ==
    /\ m.production /\ m.at.stable = Usdc /\ m.principals.usdc = Usdc /\ ~m.keepOps
    /\ GasAffordable(m.gas)
    /\ archived = {m}
    /\ ReceiptsRecompute(m) /\ AsCreated(m)

\* What both modes of the script require of the manifest before they print or compare its lines.
Exportable(m) ==
    /\ m.chain = Mainnet => ProductionManifest(m)
    /\ m.block > 0 /\ IsInjective(m.at)

Exported(m) ==
    [chain |-> m.chain, block |-> m.block, feeAbi |-> "1", at |-> m.at,
     receipt |-> IF m.chain = Mainnet THEN m.receipt ELSE None,
     checksum |-> IF m.chain = Mainnet THEN <<m>> ELSE None]

\* What the endpoints answer while the gate asks: chain, height, code at the addresses, a log read.
Answering == [chain |-> Mainnet, height |-> 9, code |-> TRUE, archiveChain |-> Mainnet, logs |-> TRUE]
Answers == {Answering, [Answering EXCEPT !.chain = Sepolia], [Answering EXCEPT !.height = 6], [Answering EXCEPT !.code = FALSE],
            [Answering EXCEPT !.archiveChain = Sepolia], [Answering EXCEPT !.logs = FALSE]}
RpcServes(answer, m) == answer.chain = Mainnet /\ answer.height >= m.block /\ answer.code
ArchiveServes(answer) == answer.archiveChain = Mainnet /\ answer.logs

RemoteUrl(rpc) == rpc = "https"
MatchesManifest(e, m) == LET lines == Exported(m) IN \A name \in DOMAIN lines : e[name] = lines[name]

\* Reown's allowlist covers every public origin: equal labels, or a wildcard for a whole label.
PublicOrigins == {<<"forestroadvault", "com">>, <<"www", "forestroadvault", "com">>,
                  <<"forest-road-vault", "vercel", "app">>, <<"forest-road-vault-design-staging", "vercel", "app">>}
RuleAllows(rule, host) ==
    /\ rule.scheme \in {"any", "https"} /\ Len(rule.host) = Len(host)
    /\ \A i \in DOMAIN host : rule.host[i] \in {"*", host[i]}
MissingOrigins(rules) == {host \in PublicOrigins : \A rule \in rules : ~RuleAllows(rule, host)}

Rule(scheme, host) == [scheme |-> scheme, host |-> host]
Wildcards == {Rule("any", <<"*", "forestroadvault", "com">>), Rule("https", <<"*", "vercel", "app">>)}
Allowlists == {Wildcards, Wildcards \union {Rule("https", <<"forestroadvault", "com">>)}}

BuildGate(e, answer, allowlist) ==
    /\ e.chain \in {Mainnet, Sepolia, LocalFork}
    /\ e.curator \in {Unset, "bound"}
    /\ e.walletConnect => MissingOrigins(allowlist) = {}
    /\ e.chain = Mainnet =>
         /\ RemoteUrl(e.rpc) /\ RemoteUrl(e.archive)
         /\ RpcServes(answer, manifest) /\ ArchiveServes(answer)
         /\ manifest.chain = Mainnet /\ Exportable(manifest) /\ MatchesManifest(e, manifest)

(* ------------------ the configuration the site resolves ------------------ *)

FeeAbiResolves(e) ==
    /\ e.feeAbi = Unset => e.at.vault = None
    /\ e.feeAbi = "0" => e.chain # Mainnet /\ e.at.vault # None

SepoliaContracts == [key \in Mapped |-> <<"sepolia", key>>]

Contracts(e) ==
    IF e.chain = Mainnet THEN [e.at EXCEPT !.stable = Usdc]
    ELSE [key \in Mapped |-> IF e.at[key] = None THEN SepoliaContracts[key] ELSE e.at[key]]

ForkIsLocal(e) == IF e.chain = LocalFork THEN e.rpc = "loopback" ELSE e.rpc # "loopback"
ConfigLoads(e) ==
    /\ e.chain \in {Mainnet, Sepolia, LocalFork} /\ FeeAbiResolves(e) /\ ForkIsLocal(e)
    /\ e.chain = Mainnet =>
         /\ e.rpc # Unset /\ e.block > 0 /\ e.receipt # None /\ e.checksum # None
         /\ LET contracts == Contracts(e) IN None \notin Range(contracts) /\ IsInjective(contracts)
         /\ e.at.stable \in {Usdc, None}

(* ------------------------ where a build comes from ------------------------ *)

\* The Git integration builds a clone of a commit; an upload carries a disk and no repository,
\* with whatever branch and commit its uploader's checkout reports.
NoCommit == 0
OtherSource == -1      \* not a commit of main
Clone(target, branch, commit) ==
    [target |-> target, branch |-> branch, commit |-> commit, head |-> commit, content |-> commit]
Upload(target, branch, commit) ==
    [target |-> target, branch |-> branch, commit |-> commit, head |-> NoCommit, content |-> OtherSource]
Sources ==
    {Clone("production", "main", c) : c \in 1..mainHead} \union {Clone("preview", "topic", OtherSource)}
    \union {Upload(target, "main", c) : target \in {"production", "preview"}, c \in {mainHead, NoCommit}}

DeploySourceProblems(source) ==
    \/ source.branch # "main" \/ source.commit = NoCommit
    \/ source.head = NoCommit \/ source.head # source.commit
SourceAllowed(source) ==
    /\ source.target # "preview" => source.commit # NoCommit
    /\ source.target = "production" => ~DeploySourceProblems(source)

(* -------------------------------- actions -------------------------------- *)

NoVariables == [chain |-> Sepolia, block |-> 0, feeAbi |-> Unset, at |-> [key \in Mapped |-> None], receipt |-> None,
                checksum |-> None, rpc |-> "https", archive |-> "https", curator |-> Unset, walletConnect |-> TRUE]

ReleaseInit ==
    /\ manifest = Plan /\ archived = {} /\ env = NoVariables /\ mainHead = 1
    /\ built = {} /\ live = {} /\ served = {} /\ slips = 0

Slip == slips < MaxSlips /\ slips' = slips + 1

\* The tree's manifest is restored, or goes wrong.
EditManifest ==
    /\ \/ manifest' = Plan /\ UNCHANGED slips
       \/ Slip /\ manifest' \in OneSlip(Plan)
    /\ UNCHANGED <<archived, env, mainHead, built, live, served>>

Archive ==
    /\ archived = {} /\ archived' = {manifest}
    /\ UNCHANGED <<manifest, env, mainHead, built, live, served, slips>>

ExportEnv ==
    /\ Exportable(manifest)
    /\ env' = Exported(manifest) @@ env
    /\ UNCHANGED <<manifest, archived, mainHead, built, live, served, slips>>

SlipEnv ==
    /\ Slip
    /\ \/ \E chain \in {Mainnet, Sepolia, LocalFork, 0} : env' = [env EXCEPT !.chain = chain]
       \/ \E rpc \in {"https", "loopback", Unset} : env' = [env EXCEPT !.rpc = rpc]
       \/ \E key \in SlippedKeys, a \in {Stray, None} : env' = [env EXCEPT !.at[key] = a]
       \/ \E curator \in {Unset, "partial", "bound", "other"} : env' = [env EXCEPT !.curator = curator]
       \/ env' = [env EXCEPT !.feeAbi = "0"]
    /\ UNCHANGED <<manifest, archived, mainHead, built, live, served>>

Push ==
    /\ mainHead < MaxCommits /\ mainHead' = mainHead + 1
    /\ UNCHANGED <<manifest, archived, env, built, live, served, slips>>

\* The gate passes as the endpoints answer and the allowlist reads at that moment.
GatePasses(e) ==
    {asked \in Answers \X Allowlists : BuildGate(e, asked[1], asked[2])} # {}

Build(source) ==
    /\ Cardinality(built) < MaxBuilds
    /\ SourceAllowed(source) /\ ConfigLoads(env) /\ GatePasses(env)
    /\ LET deployment == [source |-> source, env |-> env]
       IN  /\ built' = built \union {deployment}
           /\ live' = IF source.target = "production" THEN {deployment} ELSE live
    /\ UNCHANGED <<manifest, archived, env, mainHead, served, slips>>

\* An instant rollback rebuilds nothing.
Rollback(deployment) ==
    /\ deployment.source.target = "production" /\ live' = {deployment}
    /\ UNCHANGED <<manifest, archived, env, mainHead, built, served, slips>>

\* /api/revision of a production or a preview address against an expected commit.
CheckServed(deployment, expected) ==
    /\ deployment.source.commit = expected /\ deployment.source.target = "production"
    /\ served' = {[commit |-> expected, deployment |-> deployment]}
    /\ UNCHANGED <<manifest, archived, env, mainHead, built, live, slips>>

ReleaseNext ==
    \/ EditManifest \/ Archive \/ ExportEnv \/ SlipEnv \/ Push
    \/ \E source \in Sources : Build(source)
    \/ \E deployment \in built : Rollback(deployment) \/ \E c \in 1..mainHead : CheckServed(deployment, c)

(* ------------------------------ properties ------------------------------ *)

\* A site labelled mainnet names exactly the contracts the approved plan creates and canonical
\* USDC, and reads them over a remote endpoint, whatever manifest was archived and whatever was
\* exported or edited; a local fork and nothing else reads a local node; the curator surface is
\* bound or absent; production serves a commit of main, and a proved revision is what was built.
ReleasedAsApproved ==
    /\ \A deployment \in built :
         LET e == deployment.env
         IN  /\ e.chain = Mainnet => Contracts(e) = Plan.at /\ e.rpc = "https"
             /\ e.chain = LocalFork <=> e.rpc = "loopback"
             /\ e.curator \in {Unset, "bound"}
    /\ \A deployment \in live : deployment.source.content \in 1..mainHead
    /\ \A proof \in served : proof.deployment.source.content = proof.commit
=============================================================================
