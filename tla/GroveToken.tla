----------------------------- MODULE GroveToken -----------------------------
(***************************************************************************)
(* GROVE, the governance token (contracts/src/GroveToken.sol): a fixed     *)
(* supply whose wallet balances vote through OpenZeppelin's ERC20Votes.    *)
(* Holders are 1..NumHolders; GROVE may also sit with the sGROVE contract, *)
(* which never delegates.  Votes are the current ones; the checkpoints of  *)
(* the past are these values at earlier instants.                          *)
(***************************************************************************)
EXTENDS Integers, Sums

CONSTANTS
  NumHolders,        \* holders of GROVE, who may stake it
  Delegatees,        \* whom a holder may delegate to
  Transfers,         \* GROVE amounts transferred in one call
  InitGrove          \* what each holder starts with

Holders == 1..NumHolders
Nobody == 0          \* address(0): undelegated

ASSUME GroveAssumption ==
  /\ NumHolders \in Nat \ {0}
  /\ Delegatees \subseteq 0..NumHolders
  /\ Transfers \subseteq Nat \ {0}
  /\ InitGrove \in Nat

VARIABLES
  grove,          \* balanceOf, for the holders
  custody,        \* balanceOf(sGROVE)
  groveDelegate,  \* delegates
  groveVotes      \* getVotes

groveVars == <<grove, custody, groveDelegate, groveVotes>>

\* VotesUpgradeable._moveDelegateVotes
MoveVotes(votes, from, to, units) ==
  IF from = to THEN votes
  ELSE [d \in Holders |-> votes[d] + (IF d = to THEN units ELSE 0)
                                   - (IF d = from THEN units ELSE 0)]

\* the treasury holds the supply and votes with it, and has handed some out
GroveInit ==
  /\ grove = [h \in Holders |-> InitGrove]
  /\ custody = 0
  /\ groveDelegate = [h \in Holders |-> IF h = 1 THEN 1 ELSE Nobody]
  /\ groveVotes = [h \in Holders |-> IF h = 1 THEN InitGrove ELSE 0]

\* transferFrom(h, sGROVE, a): units under no delegate any more
GroveIn(h, a) ==
  /\ grove[h] >= a
  /\ grove' = [grove EXCEPT ![h] = @ - a]
  /\ custody' = custody + a
  /\ groveVotes' = MoveVotes(groveVotes, groveDelegate[h], Nobody, a)
  /\ UNCHANGED groveDelegate

\* transfer(h, a) by sGROVE
GroveOut(h, a) ==
  /\ grove' = [grove EXCEPT ![h] = @ + a]
  /\ custody' = custody - a
  /\ groveVotes' = MoveVotes(groveVotes, Nobody, groveDelegate[h], a)
  /\ UNCHANGED groveDelegate

GroveTransfer(h, to, a) ==
  /\ h # to
  /\ grove[h] >= a
  /\ grove' = [grove EXCEPT ![h] = @ - a, ![to] = @ + a]
  /\ groveVotes' = MoveVotes(groveVotes, groveDelegate[h], groveDelegate[to], a)
  /\ UNCHANGED <<custody, groveDelegate>>

GroveDelegate(h, d) ==
  /\ groveDelegate' = [groveDelegate EXCEPT ![h] = d]
  /\ groveVotes' = MoveVotes(groveVotes, groveDelegate[h], d, grove[h])
  /\ UNCHANGED <<grove, custody>>

GroveNext ==
  \/ \E h, to \in Holders, a \in Transfers : GroveTransfer(h, to, a)
  \/ \E h \in Holders, a \in Transfers : GroveIn(h, a)    \* a gift to the contract
  \/ \E h \in Holders, d \in Delegatees : GroveDelegate(h, d)

GroveTypeOK ==
  /\ grove \in [Holders -> Nat] /\ custody \in Nat
  /\ groveDelegate \in [Holders -> 0..NumHolders]
  /\ groveVotes \in [Holders -> Nat]
=============================================================================
