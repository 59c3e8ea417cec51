---------------------------- MODULE SGroveProofs ----------------------------
(***************************************************************************)
(* Proofs about sGROVE for any number of holders, amounts and durations,   *)
(* from lemmas on its ledgers, its entries and its account of rewards:     *)
(* IInv is inductive, so that the one USDfr balance always covers the      *)
(* reserve, every pending reward and the rest of the stream, votes are     *)
(* active stakes, and no GROVE votes twice.                                *)
(***************************************************************************)
EXTENDS SGrove, SumsProofs

----------------------------------------------------------------------------
(* A ledger of votes: balances, delegations and the votes they add up to   *)

\* what d has been given to vote with
Given(del, bal, d) ==
  SumTo([h \in Holders |-> IF del[h] = d THEN bal[h] ELSE 0], NumHolders)

Ledger(bal, del, v) ==
  /\ bal \in [Holders -> Nat]
  /\ del \in [Holders -> 0..NumHolders]
  /\ v \in [Holders -> Nat]
  /\ \A d \in Holders : v[d] = Given(del, bal, d)
  /\ SumTo(v, NumHolders) + Given(del, bal, Nobody) = SumTo(bal, NumHolders)

\* what a delegate is given is a natural number
LEMMA GivenNat ==
  ASSUME NEW bal \in [Holders -> Nat], NEW del, NEW d
  PROVE  Given(del, bal, d) \in Nat
<1> DEFINE f == [h \in Holders |-> IF del[h] = d THEN bal[h] ELSE 0]
<1>1. \A h \in 1..NumHolders : f[h] \in Nat
  BY DEF Holders
<1>2. NumHolders \in Nat
  BY GroveAssumption
<1> HIDE DEF f
<1>3. SumTo(f, NumHolders) \in Nat
  BY <1>1, <1>2, SumToNat
<1> QED
  BY <1>3 DEF f, Given

\* nothing but the holder h has changed
Elsewhere(bal, del, bal2, del2, h) ==
  /\ bal \in [Holders -> Nat]
  /\ bal2 \in [Holders -> Nat]
  /\ h \in Holders
  /\ \A k \in Holders : k # h => bal2[k] = bal[k] /\ del2[k] = del[k]

\* the part of what d is given that comes from h
Share(del, bal, h, d) == IF del[h] = d THEN bal[h] ELSE 0

\* a change at one holder moves what one delegate loses and another gains
LEMMA GivenChange ==
  ASSUME NEW bal, NEW del, NEW bal2, NEW del2, NEW h, NEW d, Elsewhere(bal, del, bal2, del2, h)
  PROVE  Given(del2, bal2, d) = Given(del, bal, d) + Share(del2, bal2, h, d) - Share(del, bal, h, d)
<1> USE DEF Elsewhere, Share
<1> DEFINE f == [k \in Holders |-> IF del[k] = d THEN bal[k] ELSE 0]
           g == [k \in Holders |-> IF del2[k] = d THEN bal2[k] ELSE 0]
<1>1. \A k \in 1..NumHolders : f[k] \in Int /\ g[k] \in Int
  BY DEF Holders
<1>2. \A k \in 1..NumHolders : k # h => g[k] = f[k]
  BY DEF Holders
<1>3. f[h] = (IF del[h] = d THEN bal[h] ELSE 0) /\ g[h] = (IF del2[h] = d THEN bal2[h] ELSE 0)
  OBVIOUS
<1>4. NumHolders \in Nat /\ h \in 1..NumHolders
  BY GroveAssumption DEF Holders
<1> HIDE DEF f, g
<1>5. SumTo(g, NumHolders) = SumTo(f, NumHolders) + g[h] - f[h]
  BY <1>1, <1>2, <1>4, SumToChange
<1>6. SumTo(g, NumHolders) = Given(del2, bal2, d) /\ SumTo(f, NumHolders) = Given(del, bal, d)
  BY DEF f, g, Given
<1>7. f[h] = Share(del, bal, h, d) /\ g[h] = Share(del2, bal2, h, d)
  BY <1>3
<1> QED
  BY ONLY <1>5, <1>6, <1>7

\* changing one balance changes the sum of all balances by as much
LEMMA BalanceChange ==
  ASSUME NEW bal \in [Holders -> Nat], NEW bal2 \in [Holders -> Nat], NEW h \in Holders,
         \A k \in Holders : k # h => bal2[k] = bal[k]
  PROVE  SumTo(bal2, NumHolders) = SumTo(bal, NumHolders) + bal2[h] - bal[h]
<1>1. \A k \in 1..NumHolders : bal[k] \in Int /\ bal2[k] \in Int
  BY DEF Holders
<1>2. \A k \in 1..NumHolders : k # h => bal2[k] = bal[k]
  BY DEF Holders
<1>3. NumHolders \in Nat /\ h \in 1..NumHolders
  BY GroveAssumption DEF Holders
<1> QED
  BY <1>1, <1>2, <1>3, SumToChange

\* all balances and all votes have natural sums
LEMMA BalanceNat ==
  ASSUME NEW bal \in [Holders -> Nat]
  PROVE  SumTo(bal, NumHolders) \in Nat
<1>1. \A k \in 1..NumHolders : bal[k] \in Nat
  BY DEF Holders
<1>2. NumHolders \in Nat
  BY GroveAssumption
<1> QED
  BY <1>1, <1>2, SumToNat

\* what a move of votes does to each delegate
LEMMA MoveEach ==
  ASSUME NEW v \in [Holders -> Nat], NEW from, NEW to, NEW u \in Nat
  PROVE  /\ \A d \in Holders : MoveVotes(v, from, to, u)[d] =
              v[d] + (IF d = to THEN u ELSE 0) - (IF d = from THEN u ELSE 0)
         /\ MoveVotes(v, from, to, u) \in [Holders -> Int]
<1>1. CASE from = to
  BY <1>1 DEF MoveVotes
<1>2. CASE from # to
  BY <1>2 DEF MoveVotes
<1> QED
  BY <1>1, <1>2

\* the sum over one entry u at position x of 1..n, if x is one of them
LEMMA SumAt ==
  ASSUME NEW x \in 0..NumHolders, NEW u \in Nat
  PROVE  SumTo([d \in Holders |-> IF d = x THEN u ELSE 0], NumHolders) = IF x = Nobody THEN 0 ELSE u
<1> DEFINE f == [d \in Holders |-> IF d = x THEN u ELSE 0]
<1>1. NumHolders \in Nat
  BY GroveAssumption
<1>2. CASE x = 0
  <2>1. \A k \in 1..NumHolders : f[k] = 0
    BY <1>1, <1>2 DEF Holders
  <2> HIDE DEF f
  <2>2. SumTo(f, NumHolders) = 0 * NumHolders
    BY <1>1, <2>1, SumToConst
  <2>3. SumTo(f, NumHolders) = 0
    BY <1>1, <2>2
  <2> QED
    BY <2>3, <1>2 DEF f, Nobody
<1>3. CASE x # 0
  <2>1. x \in 1..NumHolders
    BY <1>1, <1>3
  <2>2. \A k \in 1..NumHolders : f[k] = IF k = x THEN u ELSE 0
    BY DEF Holders
  <2>3. u \in Int
    OBVIOUS
  <2> HIDE DEF f
  <2>4. SumTo(f, NumHolders) = u
    BY <1>1, <2>1, <2>2, <2>3, SumToSingle
  <2> QED
    BY <2>4, <1>3 DEF f, Nobody
<1> QED
  BY <1>2, <1>3

\* what a move of votes does to their sum
LEMMA MoveSum ==
  ASSUME NEW v \in [Holders -> Nat], NEW from \in 0..NumHolders, NEW to \in 0..NumHolders, NEW u \in Nat
  PROVE  SumTo(MoveVotes(v, from, to, u), NumHolders) =
           SumTo(v, NumHolders) + (IF to = Nobody THEN 0 ELSE u) - (IF from = Nobody THEN 0 ELSE u)
<1> DEFINE w == MoveVotes(v, from, to, u)
           f == [d \in Holders |-> IF d = to THEN u ELSE 0]
           g == [d \in Holders |-> IF d = from THEN u ELSE 0]
           p == [d \in Holders |-> v[d] + f[d]]
<1>0. NumHolders \in Nat
  BY GroveAssumption
<1>1. \A d \in Holders : w[d] = v[d] + (IF d = to THEN u ELSE 0) - (IF d = from THEN u ELSE 0)
  BY MoveEach
<1>2. \A k \in 1..NumHolders : v[k] \in Int /\ f[k] \in Int /\ p[k] = v[k] + f[k]
  BY DEF Holders
<1>3. \A k \in 1..NumHolders : w[k] \in Int /\ g[k] \in Int /\ p[k] = w[k] + g[k]
  BY <1>1, SMTT(20) DEF Holders
<1>4. SumTo(f, NumHolders) = (IF to = Nobody THEN 0 ELSE u) /\ SumTo(g, NumHolders) = (IF from = Nobody THEN 0 ELSE u)
  BY SumAt
<1>5. SumTo(v, NumHolders) \in Nat
  BY BalanceNat
<1> HIDE DEF w, f, g, p
<1>6. SumTo(p, NumHolders) = SumTo(v, NumHolders) + SumTo(f, NumHolders)
  BY <1>0, <1>2, SumToPlus
<1>7. SumTo(p, NumHolders) = SumTo(w, NumHolders) + SumTo(g, NumHolders)
  BY <1>0, <1>3, SumToPlus
<1>8. SumTo(w, NumHolders) \in Int
  BY <1>0, <1>3, SumToInt
<1>9. SumTo(w, NumHolders) = SumTo(v, NumHolders) + (IF to = Nobody THEN 0 ELSE u) - (IF from = Nobody THEN 0 ELSE u)
  BY <1>4, <1>5, <1>6, <1>7, <1>8
<1> QED
  BY <1>9 DEF w

\* A step of the ledger: the holder h changes balance or delegate, and the
\* votes that move are exactly what its old and its new delegate differ by.
Shifts(bal, del, bal2, del2, h, from, to, u) ==
  /\ bal2 \in [Holders -> Nat]
  /\ del2 \in [Holders -> 0..NumHolders]
  /\ \A k \in Holders : k # h => bal2[k] = bal[k] /\ del2[k] = del[k]
  /\ \A d \in Holders : (IF del2[h] = d THEN bal2[h] ELSE 0) - (IF del[h] = d THEN bal[h] ELSE 0)
                           = (IF d = to THEN u ELSE 0) - (IF d = from THEN u ELSE 0)
  /\ (IF del2[h] = Nobody THEN 0 ELSE bal2[h]) - (IF del[h] = Nobody THEN 0 ELSE bal[h])
       = (IF to = Nobody THEN 0 ELSE u) - (IF from = Nobody THEN 0 ELSE u)

\* such a step keeps the ledger
LEMMA LedgerStep ==
  ASSUME NEW bal, NEW del, NEW v, Ledger(bal, del, v), NEW bal2, NEW del2, NEW h \in Holders,
         NEW from \in 0..NumHolders, NEW to \in 0..NumHolders, NEW u \in Nat,
         Shifts(bal, del, bal2, del2, h, from, to, u)
  PROVE  Ledger(bal2, del2, MoveVotes(v, from, to, u))
<1> DEFINE w == MoveVotes(v, from, to, u)
<1>1. /\ bal \in [Holders -> Nat] /\ v \in [Holders -> Nat] /\ del \in [Holders -> 0..NumHolders]
      /\ \A d \in Holders : v[d] = Given(del, bal, d)
      /\ SumTo(v, NumHolders) + Given(del, bal, Nobody) = SumTo(bal, NumHolders)
  BY DEF Ledger
<1>s. /\ bal2 \in [Holders -> Nat] /\ del2 \in [Holders -> 0..NumHolders]
      /\ \A k \in Holders : k # h => bal2[k] = bal[k] /\ del2[k] = del[k]
  BY DEF Shifts
<1>2. \A d : Given(del2, bal2, d) = Given(del, bal, d) + Share(del2, bal2, h, d) - Share(del, bal, h, d)
  <2>1. Elsewhere(bal, del, bal2, del2, h)
    BY <1>1, <1>s DEF Elsewhere
  <2> QED
    BY <2>1, GivenChange
<1>3. /\ \A d \in Holders : w[d] = v[d] + (IF d = to THEN u ELSE 0) - (IF d = from THEN u ELSE 0)
      /\ w \in [Holders -> Int]
  BY <1>1, MoveEach
<1>4. \A d : Given(del, bal, d) \in Nat /\ Given(del2, bal2, d) \in Nat
  BY <1>1, <1>s, GivenNat
<1> HIDE DEF w
<1>5. ASSUME NEW d \in Holders PROVE w[d] = Given(del2, bal2, d)
  <2>1. PICK a \in Int, b \in Int, x \in Nat, y \in Nat :
          /\ a = (IF del2[h] = d THEN bal2[h] ELSE 0) /\ b = (IF del[h] = d THEN bal[h] ELSE 0)
          /\ x = Given(del, bal, d) /\ y = Given(del2, bal2, d)
    BY <1>1, <1>s, <1>4, SMTT(20)
  <2>2. y = x + a - b
    BY <1>2, <2>1 DEF Share
  <2>3. a - b = (IF d = to THEN u ELSE 0) - (IF d = from THEN u ELSE 0)
    BY <2>1 DEF Shifts
  <2>4. w[d] = x + (IF d = to THEN u ELSE 0) - (IF d = from THEN u ELSE 0)
    BY <1>1, <1>3, <2>1
  <2> QED
    BY <2>1, <2>2, <2>3, <2>4
<1>6. w \in [Holders -> Nat]
  <2>1. \A d \in Holders : w[d] \in Nat
    BY <1>4, <1>5
  <2> QED
    BY <1>3, <2>1
<1>7. SumTo(w, NumHolders) + Given(del2, bal2, Nobody) = SumTo(bal2, NumHolders)
  <2>1. PICK a \in Int, b \in Int :
          a = (IF to = Nobody THEN 0 ELSE u) /\ b = (IF from = Nobody THEN 0 ELSE u)
    OBVIOUS
  <2>2. PICK x \in Nat, y \in Nat : x = bal2[h] /\ y = bal[h]
    BY <1>1, <1>s
  <2>3. PICK p \in Int, q \in Int :
          p = (IF del2[h] = Nobody THEN x ELSE 0) /\ q = (IF del[h] = Nobody THEN y ELSE 0)
    OBVIOUS
  <2>4. (x - p) - (y - q) = a - b
    <3>1. (IF del2[h] = Nobody THEN 0 ELSE x) - (IF del[h] = Nobody THEN 0 ELSE y) = a - b
      BY <2>1, <2>2 DEF Shifts
    <3>2. x - p = (IF del2[h] = Nobody THEN 0 ELSE x) /\ y - q = (IF del[h] = Nobody THEN 0 ELSE y)
      BY <2>2, <2>3
    <3> QED
      BY <3>1, <3>2
  <2>5. SumTo(w, NumHolders) = SumTo(v, NumHolders) + a - b
    BY <1>1, <2>1, MoveSum DEF w
  <2>6. Given(del2, bal2, Nobody) = Given(del, bal, Nobody) + p - q
    BY <1>2, <2>2, <2>3 DEF Share
  <2>7. SumTo(bal2, NumHolders) = SumTo(bal, NumHolders) + x - y
    BY <1>1, <1>s, <2>2, BalanceChange
  <2>8. SumTo(v, NumHolders) \in Nat /\ SumTo(bal, NumHolders) \in Nat /\ Given(del, bal, Nobody) \in Nat
    BY <1>1, <1>4, BalanceNat
  <2> QED
    BY <1>1, <2>4, <2>5, <2>6, <2>7, <2>8
<1>8. Ledger(bal2, del2, w)
  BY <1>s, <1>5, <1>6, <1>7 DEF Ledger
<1> QED
  BY <1>8 DEF w

\* units that come to a holder go to its delegate
LEMMA LedgerAdd ==
  ASSUME NEW bal, NEW del, NEW v, Ledger(bal, del, v), NEW h \in Holders, NEW a \in Nat
  PROVE  Ledger([bal EXCEPT ![h] = @ + a], del, MoveVotes(v, Nobody, del[h], a))
<1> DEFINE bal2 == [bal EXCEPT ![h] = @ + a]
<1>1. bal \in [Holders -> Nat] /\ del \in [Holders -> 0..NumHolders]
  BY DEF Ledger
<1>2. bal2 \in [Holders -> Nat] /\ bal2[h] = bal[h] + a /\ \A k \in Holders : k # h => bal2[k] = bal[k]
  BY <1>1
<1>3. Nobody \in 0..NumHolders /\ del[h] \in 0..NumHolders /\ Nobody \notin Holders
  BY <1>1, GroveAssumption DEF Nobody, Holders
<1> HIDE DEF bal2
<1>4. \A d \in Holders : (IF del[h] = d THEN bal2[h] ELSE 0) - (IF del[h] = d THEN bal[h] ELSE 0)
                           = (IF d = del[h] THEN a ELSE 0) - (IF d = Nobody THEN a ELSE 0)
  BY <1>1, <1>2, <1>3
<1>5. (IF del[h] = Nobody THEN 0 ELSE bal2[h]) - (IF del[h] = Nobody THEN 0 ELSE bal[h])
        = (IF del[h] = Nobody THEN 0 ELSE a) - (IF Nobody = Nobody THEN 0 ELSE a)
  BY <1>1, <1>2
<1>6. \A k \in Holders : k # h => bal2[k] = bal[k] /\ del[k] = del[k]
  BY <1>2
<1>7. Shifts(bal, del, bal2, del, h, Nobody, del[h], a)
  BY <1>1, <1>2, <1>3, <1>4, <1>5, <1>6 DEF Shifts
<1>8. Ledger(bal2, del, MoveVotes(v, Nobody, del[h], a))
  BY <1>3, <1>7, LedgerStep
<1> QED
  BY <1>8 DEF bal2

\* units that leave a holder leave its delegate
LEMMA LedgerTake ==
  ASSUME NEW bal, NEW del, NEW v, Ledger(bal, del, v), NEW h \in Holders, NEW a \in Nat, a <= bal[h]
  PROVE  Ledger([bal EXCEPT ![h] = @ - a], del, MoveVotes(v, del[h], Nobody, a))
<1> DEFINE bal2 == [bal EXCEPT ![h] = @ - a]
<1>1. bal \in [Holders -> Nat] /\ del \in [Holders -> 0..NumHolders]
  BY DEF Ledger
<1>2. bal2 \in [Holders -> Nat] /\ bal2[h] = bal[h] - a /\ \A k \in Holders : k # h => bal2[k] = bal[k]
  BY <1>1
<1>3. Nobody \in 0..NumHolders /\ del[h] \in 0..NumHolders /\ Nobody \notin Holders
  BY <1>1, GroveAssumption DEF Nobody, Holders
<1> HIDE DEF bal2
<1>4. \A d \in Holders : (IF del[h] = d THEN bal2[h] ELSE 0) - (IF del[h] = d THEN bal[h] ELSE 0)
                           = (IF d = Nobody THEN a ELSE 0) - (IF d = del[h] THEN a ELSE 0)
  BY <1>1, <1>2, <1>3
<1>5. (IF del[h] = Nobody THEN 0 ELSE bal2[h]) - (IF del[h] = Nobody THEN 0 ELSE bal[h])
        = (IF Nobody = Nobody THEN 0 ELSE a) - (IF del[h] = Nobody THEN 0 ELSE a)
  BY <1>1, <1>2
<1>6. \A k \in Holders : k # h => bal2[k] = bal[k] /\ del[k] = del[k]
  BY <1>2
<1>7. Shifts(bal, del, bal2, del, h, del[h], Nobody, a)
  BY <1>1, <1>2, <1>3, <1>4, <1>5, <1>6 DEF Shifts
<1>8. Ledger(bal2, del, MoveVotes(v, del[h], Nobody, a))
  BY <1>3, <1>7, LedgerStep
<1> QED
  BY <1>8 DEF bal2

\* a new delegate gets all that the old one had from the holder
LEMMA LedgerDelegate ==
  ASSUME NEW bal, NEW del, NEW v, Ledger(bal, del, v), NEW h \in Holders, NEW d \in 0..NumHolders
  PROVE  Ledger(bal, [del EXCEPT ![h] = d], MoveVotes(v, del[h], d, bal[h]))
<1> DEFINE del2 == [del EXCEPT ![h] = d]
<1>1. bal \in [Holders -> Nat] /\ del \in [Holders -> 0..NumHolders]
  BY DEF Ledger
<1>2. del2 \in [Holders -> 0..NumHolders] /\ del2[h] = d /\ \A k \in Holders : k # h => del2[k] = del[k]
  BY <1>1
<1>3. del[h] \in 0..NumHolders /\ bal[h] \in Nat
  BY <1>1
<1> HIDE DEF del2
<1>4. \A e \in Holders : (IF del2[h] = e THEN bal[h] ELSE 0) - (IF del[h] = e THEN bal[h] ELSE 0)
                           = (IF e = d THEN bal[h] ELSE 0) - (IF e = del[h] THEN bal[h] ELSE 0)
  BY <1>2, <1>3
<1>5. (IF del2[h] = Nobody THEN 0 ELSE bal[h]) - (IF del[h] = Nobody THEN 0 ELSE bal[h])
        = (IF d = Nobody THEN 0 ELSE bal[h]) - (IF del[h] = Nobody THEN 0 ELSE bal[h])
  BY <1>2, <1>3
<1>6. \A k \in Holders : k # h => bal[k] = bal[k] /\ del2[k] = del[k]
  BY <1>2
<1>7. Shifts(bal, del, bal, del2, h, del[h], d, bal[h])
  BY <1>1, <1>2, <1>3, <1>4, <1>5, <1>6 DEF Shifts
<1>8. Ledger(bal, del2, MoveVotes(v, del[h], d, bal[h]))
  BY <1>3, <1>7, LedgerStep
<1> QED
  BY <1>8 DEF del2

\* a transfer takes from one delegate and gives to the other
LEMMA LedgerMove ==
  ASSUME NEW bal, NEW del, NEW v, Ledger(bal, del, v), NEW h \in Holders, NEW to \in Holders, h # to,
         NEW a \in Nat, a <= bal[h]
  PROVE  Ledger([bal EXCEPT ![h] = @ - a, ![to] = @ + a], del, MoveVotes(v, del[h], del[to], a))
<1> DEFINE b1 == [bal EXCEPT ![h] = @ - a]
           b2 == [b1 EXCEPT ![to] = @ + a]
           v1 == MoveVotes(v, del[h], Nobody, a)
           v2 == MoveVotes(v1, Nobody, del[to], a)
           w == MoveVotes(v, del[h], del[to], a)
<1>1. bal \in [Holders -> Nat] /\ v \in [Holders -> Nat] /\ del \in [Holders -> 0..NumHolders]
  BY DEF Ledger
<1>2. Ledger(b1, del, v1)
  BY LedgerTake
<1>3. v1 \in [Holders -> Nat]
  BY <1>2 DEF Ledger
<1> HIDE DEF b1, v1
<1>4. Ledger(b2, del, v2)
  BY <1>2, LedgerAdd
<1>5. b2 = [bal EXCEPT ![h] = @ - a, ![to] = @ + a]
  BY <1>1 DEF b1
<1>6. Nobody \notin Holders
  BY GroveAssumption DEF Nobody, Holders
<1>7. \A d \in Holders : v1[d] = v[d] + (IF d = Nobody THEN a ELSE 0) - (IF d = del[h] THEN a ELSE 0)
  BY <1>1, MoveEach DEF v1
<1>8. /\ \A d \in Holders : v2[d] = v1[d] + (IF d = del[to] THEN a ELSE 0) - (IF d = Nobody THEN a ELSE 0)
      /\ v2 \in [Holders -> Int]
  BY <1>3, MoveEach
<1>9. /\ \A d \in Holders : w[d] = v[d] + (IF d = del[to] THEN a ELSE 0) - (IF d = del[h] THEN a ELSE 0)
      /\ w \in [Holders -> Int]
  BY <1>1, MoveEach
<1> HIDE DEF v2, w
<1>10. \A d \in Holders : w[d] = v2[d]
  BY <1>1, <1>6, <1>7, <1>8, <1>9
<1>11. w = v2
  BY <1>8, <1>9, <1>10
<1>12. Ledger(b2, del, w)
  BY <1>4, <1>11
<1> QED
  BY <1>5, <1>12 DEF w

----------------------------------------------------------------------------
(* Unbonding entries *)

EntrySum(s) == SumTo([i \in 1..Len(s) |-> s[i].amount], Len(s))
OwedGrove(u) == SumTo([h \in Holders |-> EntrySum(u[h])], NumHolders)

\* every entry has a natural amount
LEMMA EntriesNat ==
  ASSUME NEW s \in Seq(Entry)
  PROVE  \A i \in 1..Len(s) : s[i] \in Entry /\ s[i].amount \in Nat
<1>1. \A i \in 1..Len(s) : s[i] \in Entry
  OBVIOUS
<1>2. \A e \in Entry : e.amount \in Nat
  BY DEF Entry
<1> QED
  BY <1>1, <1>2

\* what a list of entries adds up to is a natural number
LEMMA EntryNat ==
  ASSUME NEW s \in Seq(Entry)
  PROVE  EntrySum(s) \in Nat
<1> DEFINE f == [i \in 1..Len(s) |-> s[i].amount]
<1>1. \A i \in 1..Len(s) : f[i] \in Nat
  BY EntriesNat
<1>2. Len(s) \in Nat
  OBVIOUS
<1> HIDE DEF f
<1>3. SumTo(f, Len(s)) \in Nat
  BY <1>1, <1>2, SumToNat
<1> QED
  BY <1>3 DEF f, EntrySum

\* a new entry adds its amount
LEMMA EntryAppend ==
  ASSUME NEW s \in Seq(Entry), NEW e \in Entry
  PROVE  EntrySum(Append(s, e)) = EntrySum(s) + e.amount
<1> DEFINE t == Append(s, e)
           f == [i \in 1..Len(s) |-> s[i].amount]
           g == [i \in 1..Len(t) |-> t[i].amount]
<1>1. Len(s) \in Nat /\ Len(t) = Len(s) + 1 /\ t[Len(s) + 1] = e
  OBVIOUS
<1>2. \A i \in 1..Len(s) : t[i] = s[i]
  OBVIOUS
<1>3. g[Len(s) + 1] = e.amount /\ \A i \in 1..Len(s) : g[i] = f[i]
  BY <1>1, <1>2
<1> HIDE DEF f, g, t
<1>4. SumTo(g, Len(s) + 1) = SumTo(g, Len(s)) + e.amount
  <2>1. Len(s) + 1 \in Nat /\ Len(s) + 1 # 0 /\ (Len(s) + 1) - 1 = Len(s)
    BY <1>1
  <2>2. SumTo(g, Len(s) + 1) = SumTo(g, (Len(s) + 1) - 1) + g[Len(s) + 1]
    BY <2>1, SumToStep
  <2> QED
    BY <1>3, <2>1, <2>2
<1>5. SumTo(g, Len(s)) = SumTo(f, Len(s))
  BY <1>1, <1>3, SumToSame
<1>6. EntrySum(t) = SumTo(g, Len(s) + 1) /\ EntrySum(s) = SumTo(f, Len(s))
  BY <1>1 DEF EntrySum, f, g
<1> QED
  BY <1>4, <1>5, <1>6 DEF t

\* a spent entry takes its amount away
LEMMA EntrySpend ==
  ASSUME NEW s \in Seq(Entry), NEW j \in 1..Len(s)
  PROVE  /\ [s EXCEPT ![j] = Spent(@)] \in Seq(Entry)
         /\ s[j].amount \in Nat
         /\ EntrySum([s EXCEPT ![j] = Spent(@)]) = EntrySum(s) - s[j].amount
<1> DEFINE t == [s EXCEPT ![j] = Spent(@)]
           f == [i \in 1..Len(s) |-> s[i].amount]
           g == [i \in 1..Len(t) |-> t[i].amount]
<1>1. Len(s) \in Nat /\ s[j] \in Entry
  OBVIOUS
<1>2. Spent(s[j]) \in Entry /\ Spent(s[j]).amount = 0
  BY <1>1 DEF Spent, Entry
<1>3. t \in Seq(Entry) /\ Len(t) = Len(s)
  BY <1>2
<1>4. t[j].amount = 0 /\ \A i \in 1..Len(s) : i # j => t[i] = s[i]
  BY <1>2
<1>5. g[j] = 0 /\ f[j] = s[j].amount /\ \A i \in 1..Len(s) : i # j => g[i] = f[i]
  BY <1>3, <1>4
<1>6. \A i \in 1..Len(s) : f[i] \in Int /\ g[i] \in Int
  <2>1. \A i \in 1..Len(s) : f[i] \in Nat
    BY EntriesNat
  <2> HIDE DEF t
  <2>2. \A i \in 1..Len(s) : g[i] \in Nat
    BY <1>3, EntriesNat
  <2> QED
    BY <2>1, <2>2
<1>7. s[j].amount \in Nat
  BY <1>1 DEF Entry
<1> HIDE DEF f, g, t
<1>8. SumTo(g, Len(s)) = SumTo(f, Len(s)) + g[j] - f[j]
  <2>1. \A i \in 1..Len(s) : i # j => g[i] = f[i]
    BY <1>5
  <2>2. \A n \in Nat : \A a, b : \A i \in 1..n :
           (/\ \A k \in 1..n : a[k] \in Int /\ b[k] \in Int
            /\ \A k \in 1..n : k # i => b[k] = a[k])
           => SumTo(b, n) = SumTo(a, n) + b[i] - a[i]
    BY SumToChange
  <2> QED
    BY <1>1, <1>6, <2>1, <2>2
<1>9. EntrySum(t) = SumTo(g, Len(s)) /\ EntrySum(s) = SumTo(f, Len(s))
  BY <1>3 DEF EntrySum, f, g
<1>10. EntrySum(s) \in Nat
  BY EntryNat
<1>11. EntrySum(t) = EntrySum(s) - s[j].amount
  BY <1>5, <1>7, <1>8, <1>9, <1>10
<1> QED
  BY <1>3, <1>7, <1>11 DEF t

\* all entries add up to a natural number
LEMMA OwedNat ==
  ASSUME NEW u \in [Holders -> Seq(Entry)]
  PROVE  OwedGrove(u) \in Nat
<1> DEFINE f == [h \in Holders |-> EntrySum(u[h])]
<1>1. \A h \in 1..NumHolders : f[h] \in Nat
  BY EntryNat DEF Holders
<1>2. NumHolders \in Nat
  BY GroveAssumption
<1> HIDE DEF f
<1>3. SumTo(f, NumHolders) \in Nat
  BY <1>1, <1>2, SumToNat
<1> QED
  BY <1>3 DEF f, OwedGrove

\* a change of one holder's entries changes the total by as much
LEMMA OwedChange ==
  ASSUME NEW u \in [Holders -> Seq(Entry)], NEW h \in Holders, NEW s \in Seq(Entry)
  PROVE  OwedGrove([u EXCEPT ![h] = s]) = OwedGrove(u) + EntrySum(s) - EntrySum(u[h])
<1> DEFINE u2 == [u EXCEPT ![h] = s]
           f == [k \in Holders |-> EntrySum(u[k])]
           g == [k \in Holders |-> EntrySum(u2[k])]
<1>1. u2 \in [Holders -> Seq(Entry)] /\ u2[h] = s /\ \A k \in Holders : k # h => u2[k] = u[k]
  OBVIOUS
<1> HIDE DEF u2
<1>2. \A k \in 1..NumHolders : f[k] \in Int /\ g[k] \in Int
  BY <1>1, EntryNat DEF Holders
<1>3. \A k \in 1..NumHolders : k # h => g[k] = f[k]
  BY <1>1 DEF Holders
<1>4. f[h] = EntrySum(u[h]) /\ g[h] = EntrySum(s)
  BY <1>1
<1>5. NumHolders \in Nat /\ h \in 1..NumHolders
  BY GroveAssumption DEF Holders
<1> HIDE DEF f, g
<1>6. SumTo(g, NumHolders) = SumTo(f, NumHolders) + g[h] - f[h]
  BY <1>2, <1>3, <1>5, SumToChange
<1>7. OwedGrove(u2) = SumTo(g, NumHolders) /\ OwedGrove(u) = SumTo(f, NumHolders)
  BY DEF OwedGrove, f, g
<1> QED
  BY <1>4, <1>6, <1>7 DEF u2

----------------------------------------------------------------------------
(* Rewards, exactly: what is in no holder's balance yet is kept in units   *)
(* of 1/Wad, without rounding                                              *)

\* what the index owes each holder, as last advanced and as of now
Debt == [h \in Holders |-> staked[h] * (index - userIndex[h])]
DebtNow == [h \in Holders |-> staked[h] * (RewardPerToken - userIndex[h])]

StakeSum == staked \in [Holders -> Nat] /\ totalStaked = SumTo(staked, NumHolders)

RewardTypes ==
  /\ index \in Nat /\ rate \in Nat /\ left \in Nat /\ elapsed \in Nat /\ duration \in Nat
  /\ userIndex \in [Holders -> Nat] /\ accrued \in [Holders -> Nat]
  /\ reserve \in Nat /\ usdfr \in Nat
  /\ \A h \in Holders : userIndex[h] <= index

Solvent ==
  Wad * usdfr >= Wad * (reserve + rate * (left + elapsed) + SumTo(accrued, NumHolders))
                   + SumTo(Debt, NumHolders)

\* after the index is advanced, the streamed time is in the debts
SolventNow ==
  Wad * usdfr >= Wad * (reserve + rate * left + SumTo(accrued, NumHolders))
                   + SumTo(DebtNow, NumHolders)

\* products of natural numbers are natural numbers
LEMMA Product ==
  ASSUME NEW a \in Nat, NEW b \in Nat
  PROVE  a * b \in Nat
OBVIOUS

\* quotients are rounded down
LEMMA Quotient ==
  ASSUME NEW x \in Nat, NEW y \in Nat \ {0}
  PROVE  x \div y \in Nat /\ y * (x \div y) <= x
OBVIOUS

\* the index never falls, and advancing it owes no more than was streamed
LEMMA IndexGrows ==
  ASSUME StakeSum, RewardTypes
  PROVE  /\ RewardPerToken \in Nat
         /\ RewardPerToken >= index
         /\ totalStaked * (RewardPerToken - index) <= elapsed * rate * Wad
<1>1. totalStaked \in Nat
  BY BalanceNat DEF StakeSum
<1>2. PICK x \in Nat : x = elapsed * rate * Wad
  <2>1. elapsed * rate \in Nat
    BY Product DEF RewardTypes
  <2>2. Wad \in Nat
    BY SGroveAssumption
  <2> QED
    BY <2>1, <2>2, Product
<1>3. index \in Nat
  BY DEF RewardTypes
<1>4. CASE totalStaked = 0
  <2>1. RewardPerToken = index
    BY <1>4 DEF RewardPerToken
  <2>2. totalStaked * (RewardPerToken - index) = 0
    BY <2>1, <1>3, <1>4
  <2> QED
    BY <1>2, <1>3, <2>1, <2>2
<1>5. CASE totalStaked # 0
  <2>1. x \div totalStaked \in Nat /\ totalStaked * (x \div totalStaked) <= x
    BY <1>1, <1>5, Quotient
  <2>2. PICK q \in Nat : q = x \div totalStaked
    BY <2>1
  <2>3. RewardPerToken = index + q
    BY <1>2, <1>5, <2>2 DEF RewardPerToken
  <2>4. RewardPerToken - index = q
    BY <1>3, <2>3
  <2>5. totalStaked * q <= x
    BY <2>1, <2>2
  <2> QED
    BY <1>2, <1>3, <2>3, <2>4, <2>5
<1> QED
  BY <1>4, <1>5

\* debts are natural numbers
LEMMA DebtNat ==
  ASSUME StakeSum, RewardTypes
  PROVE  /\ \A h \in Holders : Debt[h] \in Nat /\ DebtNow[h] \in Nat
         /\ SumTo(Debt, NumHolders) \in Nat /\ SumTo(DebtNow, NumHolders) \in Nat
         /\ SumTo(accrued, NumHolders) \in Nat
<1>1. RewardPerToken \in Nat /\ RewardPerToken >= index
  BY IndexGrows
<1>2. ASSUME NEW h \in Holders PROVE Debt[h] \in Nat /\ DebtNow[h] \in Nat
  <2>1. staked[h] \in Nat /\ index - userIndex[h] \in Nat /\ RewardPerToken - userIndex[h] \in Nat
    BY <1>1 DEF StakeSum, RewardTypes
  <2>2. staked[h] * (index - userIndex[h]) \in Nat /\ staked[h] * (RewardPerToken - userIndex[h]) \in Nat
    BY <2>1, Product
  <2> QED
    BY <2>2 DEF Debt, DebtNow
<1>3. NumHolders \in Nat
  BY GroveAssumption
<1>4. SumTo(Debt, NumHolders) \in Nat /\ SumTo(DebtNow, NumHolders) \in Nat
  BY <1>2, <1>3, SumToNat DEF Holders
<1>5. SumTo(accrued, NumHolders) \in Nat
  BY BalanceNat DEF RewardTypes
<1> QED
  BY <1>2, <1>4, <1>5

\* the debts now are the debts as last advanced and what the index gained
LEMMA DebtsAdvance ==
  ASSUME StakeSum, RewardTypes
  PROVE  SumTo(DebtNow, NumHolders) = SumTo(Debt, NumHolders) + totalStaked * (RewardPerToken - index)
<1>1. PICK g \in Nat : g = RewardPerToken - index
  BY IndexGrows DEF RewardTypes
<1> DEFINE f == [h \in Holders |-> g * staked[h]]
<1>2. NumHolders \in Nat
  BY GroveAssumption
<1>3. \A h \in 1..NumHolders : staked[h] \in Int /\ f[h] = g * staked[h]
  BY DEF StakeSum, Holders
<1>4. ASSUME NEW h \in Holders PROVE Debt[h] \in Int /\ f[h] \in Int /\ DebtNow[h] = Debt[h] + f[h]
  <2>1. PICK a \in Nat, b \in Nat : a = staked[h] /\ b = index - userIndex[h]
    BY DEF StakeSum, RewardTypes
  <2>2. RewardPerToken - userIndex[h] = b + g
    BY <1>1, <2>1, IndexGrows DEF RewardTypes
  <2>3. a * (b + g) = a * b + g * a
    OBVIOUS
  <2>4. Debt[h] = a * b /\ DebtNow[h] = a * (b + g) /\ f[h] = g * a
    BY <2>1, <2>2 DEF Debt, DebtNow
  <2> QED
    BY <2>3, <2>4
<1> HIDE DEF f
<1>5. SumTo(DebtNow, NumHolders) = SumTo(Debt, NumHolders) + SumTo(f, NumHolders)
  BY <1>2, <1>4, SumToPlus DEF Holders
<1>6. SumTo(f, NumHolders) = g * SumTo(staked, NumHolders)
  BY <1>2, <1>3, SumToScale
<1>7. SumTo(f, NumHolders) = totalStaked * (RewardPerToken - index)
  <2>1. totalStaked = SumTo(staked, NumHolders) /\ totalStaked \in Nat
    BY BalanceNat DEF StakeSum
  <2>2. g * totalStaked = totalStaked * g
    BY <2>1
  <2> QED
    BY <1>1, <1>6, <2>1, <2>2
<1> QED
  BY <1>5, <1>7

\* Advancing the index keeps the account solvent: what it owes is covered by
\* the time that streamed.
LEMMA Advance ==
  ASSUME StakeSum, RewardTypes, Solvent
  PROVE  SolventNow
<1>1. PICK w \in Nat, l \in Nat, e \in Nat, r \in Nat, c \in Nat :
        w = Wad /\ l = left /\ e = elapsed /\ r = rate /\ c = reserve + SumTo(accrued, NumHolders)
  <2>1. Wad \in Nat /\ left \in Nat /\ elapsed \in Nat /\ rate \in Nat
    BY SGroveAssumption DEF RewardTypes
  <2>2. reserve + SumTo(accrued, NumHolders) \in Nat
    BY DebtNat DEF RewardTypes
  <2> QED
    BY <2>1, <2>2, Zenon
<1>2. PICK d \in Nat, n \in Nat, x \in Nat :
        d = SumTo(Debt, NumHolders) /\ n = SumTo(DebtNow, NumHolders) /\ x = w * usdfr
  BY <1>1, DebtNat, Product DEF RewardTypes
<1>3. n <= d + e * r * w
  <2>1. PICK y \in Int : y = totalStaked * (RewardPerToken - index)
    <3>1. totalStaked \in Nat /\ RewardPerToken - index \in Nat
      BY BalanceNat, IndexGrows DEF StakeSum, RewardTypes
    <3> QED
      BY <3>1, Product
  <2>2. n = d + y
    BY <1>2, <2>1, DebtsAdvance
  <2>3. y <= e * r * w
    BY <1>1, <2>1, IndexGrows
  <2>4. e * r * w \in Nat
    BY Product
  <2> QED
    BY <2>2, <2>3, <2>4
<1>4. x >= w * (c + r * (l + e)) + d
  <2>1. reserve + rate * (left + elapsed) + SumTo(accrued, NumHolders) = c + r * (l + e)
    <3>1. reserve \in Nat /\ SumTo(accrued, NumHolders) \in Nat /\ rate * (left + elapsed) \in Nat
      BY DebtNat, Product DEF RewardTypes
    <3>2. reserve + rate * (left + elapsed) + SumTo(accrued, NumHolders)
            = (reserve + SumTo(accrued, NumHolders)) + rate * (left + elapsed)
      BY <3>1
    <3> QED
      BY <1>1, <3>2
  <2> QED
    BY <1>1, <1>2, <2>1 DEF Solvent
<1>5. w * (c + r * (l + e)) = w * (c + r * l) + e * r * w
  OBVIOUS
<1>6. x >= w * (c + r * l) + n
  <2>1. w * (c + r * l) \in Nat /\ e * r * w \in Nat
    <3>1. r * l \in Nat /\ e * r \in Nat
      BY Product
    <3>2. c + r * l \in Nat
      BY <3>1
    <3> QED
      BY <3>1, <3>2, Product
  <2>2. PICK p \in Nat, q \in Nat : p = w * (c + r * l) /\ q = e * r * w
    BY <2>1
  <2>3. x >= (p + q) + d /\ n <= d + q
    BY <1>3, <1>4, <1>5, <2>2
  <2>4. x >= p + n
    BY <2>3
  <2> QED
    BY <2>2, <2>4
<1>7. reserve + rate * left + SumTo(accrued, NumHolders) = c + r * l
  <2>1. reserve \in Nat /\ SumTo(accrued, NumHolders) \in Nat /\ rate * left \in Nat
    BY DebtNat, Product DEF RewardTypes
  <2>2. reserve + rate * left + SumTo(accrued, NumHolders)
          = (reserve + SumTo(accrued, NumHolders)) + rate * left
    BY <2>1
  <2> QED
    BY <1>1, <2>2
<1> QED
  BY <1>1, <1>2, <1>6, <1>7 DEF SolventNow

\* a pending reward is a natural number and, in units of 1/Wad, no more than
\* what is banked and owed
LEMMA PendingBound ==
  ASSUME StakeSum, RewardTypes, NEW h \in Holders
  PROVE  /\ Owed(h) \in Nat /\ Pending(h) \in Nat
         /\ Pending(h) = accrued[h] + Owed(h)
         /\ Wad * Owed(h) <= DebtNow[h]
<1>1. PICK x \in Nat : x = DebtNow[h]
  BY DebtNat
<1>2. Owed(h) = x \div Wad
  BY <1>1 DEF Owed, DebtNow
<1>3. x \div Wad \in Nat /\ Wad * (x \div Wad) <= x
  BY SGroveAssumption, Quotient
<1>4. accrued[h] \in Nat
  BY DEF RewardTypes
<1> QED
  BY <1>1, <1>2, <1>3, <1>4 DEF Pending

PendingAll == [h \in Holders |-> Pending(h)]

\* all pending rewards together
LEMMA PendingSum ==
  ASSUME StakeSum, RewardTypes
  PROVE  /\ SumTo(PendingAll, NumHolders) \in Nat
         /\ Wad * SumTo(PendingAll, NumHolders)
              <= Wad * SumTo(accrued, NumHolders) + SumTo(DebtNow, NumHolders)
<1> DEFINE o == [h \in Holders |-> Owed(h)]
           so == [h \in Holders |-> Wad * Owed(h)]
<1>0. NumHolders \in Nat /\ Wad \in Nat
  BY GroveAssumption, SGroveAssumption
<1>1. \A h \in 1..NumHolders : accrued[h] \in Int /\ o[h] \in Int /\ PendingAll[h] = accrued[h] + o[h]
  BY PendingBound DEF RewardTypes, PendingAll, Holders
<1>2. \A h \in 1..NumHolders : o[h] \in Int /\ so[h] = Wad * o[h]
  BY PendingBound DEF Holders
<1>3. \A h \in 1..NumHolders : so[h] \in Nat /\ DebtNow[h] \in Nat /\ so[h] <= DebtNow[h]
  <2>1. \A h \in Holders : Wad * Owed(h) \in Nat
    BY <1>0, PendingBound, Product
  <2> QED
    BY <2>1, PendingBound, DebtNat DEF Holders
<1>4. \A h \in 1..NumHolders : PendingAll[h] \in Nat
  BY PendingBound DEF PendingAll, Holders
<1> HIDE DEF o, so
<1>5. SumTo(PendingAll, NumHolders) = SumTo(accrued, NumHolders) + SumTo(o, NumHolders)
  BY <1>0, <1>1, SumToPlus
<1>6. SumTo(so, NumHolders) = Wad * SumTo(o, NumHolders)
  BY <1>0, <1>2, SumToScale
<1>7. SumTo(so, NumHolders) <= SumTo(DebtNow, NumHolders)
  BY <1>0, <1>3, SumToOrdered
<1>8. SumTo(PendingAll, NumHolders) \in Nat
  BY <1>0, <1>4, SumToNat
<1>9. SumTo(o, NumHolders) \in Int
  BY <1>0, <1>2, SumToInt
<1>10. PICK a \in Nat, b \in Int : a = SumTo(accrued, NumHolders) /\ b = SumTo(o, NumHolders)
  BY <1>9, DebtNat
<1>11. Wad * (a + b) = Wad * a + Wad * b
  BY <1>0
<1>12. Wad * SumTo(PendingAll, NumHolders) = Wad * a + Wad * b
  BY <1>5, <1>10, <1>11
<1>13. Wad * b <= SumTo(DebtNow, NumHolders)
  BY <1>6, <1>7, <1>10
<1> QED
  BY <1>0, <1>8, <1>10, <1>12, <1>13, DebtNat

\* A factor can be cancelled on both sides.
LEMMA Cancel ==
  ASSUME NEW w \in Nat \ {0}, NEW a \in Int, NEW b \in Int, w * a <= w * b
  PROVE  a <= b
OBVIOUS

\* The account covers what is claimable, the reserve and the stream to come.
LEMMA AccountCovers ==
  ASSUME StakeSum, RewardTypes, SolventNow
  PROVE  usdfr >= reserve + SumTo(PendingAll, NumHolders) + left * rate
<1>1. PICK r \in Nat, l \in Nat : r = reserve /\ l = rate * left
  BY Product DEF RewardTypes
<1>2. PICK a \in Nat, p \in Nat, n \in Nat :
        a = SumTo(accrued, NumHolders) /\ p = SumTo(PendingAll, NumHolders) /\ n = SumTo(DebtNow, NumHolders)
  BY DebtNat, PendingSum
<1>3. PICK w \in Nat \ {0}, u \in Nat : w = Wad /\ u = usdfr
  BY SGroveAssumption DEF RewardTypes
<1>4. w * u >= w * (r + l + a) + n
  BY <1>1, <1>2, <1>3 DEF SolventNow
<1>5. w * p <= w * a + n
  BY <1>2, <1>3, PendingSum
<1>6. w * (r + l + a) = w * (r + l) + w * a /\ w * (r + l + p) = w * (r + l) + w * p
  OBVIOUS
<1>7. w * u \in Nat /\ w * (r + l) \in Nat /\ w * a \in Nat /\ w * p \in Nat
  BY Product
<1>8. w * (r + l + p) <= w * u
  BY <1>4, <1>5, <1>6, <1>7
<1>9. r + l + p <= u
  BY <1>8, Cancel
<1>10. left * rate = rate * left
  BY DEF RewardTypes
<1> QED
  BY <1>1, <1>2, <1>3, <1>9, <1>10

\* RewardsHeld is what the exact account says, rounded.
LEMMA HeldFromAccount ==
  ASSUME StakeSum, RewardTypes, Solvent
  PROVE  RewardsHeld
<1>1. usdfr >= reserve + SumTo(PendingAll, NumHolders) + left * rate
  BY Advance, AccountCovers
<1> QED
  BY <1>1 DEF RewardsHeld, PendingAll

\* The holder h is brought up to date, keeps x of its pending reward banked and
\* is paid the rest; its stake may change at the same time.
Settles(h, x, paid) ==
  /\ x \in Nat
  /\ paid \in Nat
  /\ x + paid = Pending(h)
  /\ accrued' = [accrued EXCEPT ![h] = x]
  /\ UpdateReward(h)
  /\ staked' \in [Holders -> Nat]
  /\ \A k \in Holders : k # h => staked'[k] = staked[k]
  /\ usdfr' = usdfr - paid
  /\ UNCHANGED <<rate, left, duration, reserve>>

\* Settling a holder keeps the account solvent and its balances natural.
LEMMA SettleSolvent ==
  ASSUME StakeSum, RewardTypes, Solvent, NEW h \in Holders, NEW x, NEW paid, Settles(h, x, paid)
  PROVE  RewardTypes' /\ Solvent'
<1> DEFINE R == RewardPerToken
           D2 == [k \in Holders |-> staked'[k] * (index' - userIndex'[k])]
<1>0. NumHolders \in Nat /\ h \in 1..NumHolders /\ Wad \in Nat
  BY GroveAssumption, SGroveAssumption DEF Holders
<1>1. R \in Nat /\ R >= index /\ index \in Nat
  BY IndexGrows DEF RewardTypes
<1> HIDE DEF R
<1>2. index' = R /\ elapsed' = 0 /\ userIndex' = [userIndex EXCEPT ![h] = R]
  BY DEF Settles, UpdateReward, MarkAfter, R
<1>3. userIndex \in [Holders -> Nat] /\ accrued \in [Holders -> Nat] /\ staked \in [Holders -> Nat]
  BY DEF RewardTypes, StakeSum
<1>4. accrued' = [accrued EXCEPT ![h] = x] /\ x \in Nat /\ paid \in Nat
  BY DEF Settles
<1>5. userIndex' \in [Holders -> Nat] /\ \A k \in Holders : userIndex'[k] <= index'
  BY <1>1, <1>2, <1>3 DEF RewardTypes
<1>6. accrued' \in [Holders -> Nat]
  BY <1>3, <1>4
<1>7. usdfr' \in Nat
  <2>1. Pending(h) <= SumTo(PendingAll, NumHolders)
    <3>1. \A k \in 1..NumHolders : PendingAll[k] \in Nat
      BY PendingBound DEF PendingAll, Holders
    <3>2. PendingAll[h] <= SumTo(PendingAll, NumHolders)
      BY <1>0, <3>1, SumToEntry
    <3> QED
      BY <3>2 DEF PendingAll
  <2>2. usdfr >= reserve + SumTo(PendingAll, NumHolders) + left * rate
    BY Advance, AccountCovers
  <2>3. left * rate \in Nat /\ reserve \in Nat /\ usdfr \in Nat
    BY Product DEF RewardTypes
  <2>4. usdfr' = usdfr - paid /\ paid <= Pending(h) /\ Pending(h) \in Nat
    BY <1>4, PendingBound DEF Settles
  <2>5. SumTo(PendingAll, NumHolders) \in Nat
    BY PendingSum
  <2> QED
    BY <1>4, <2>1, <2>2, <2>3, <2>4, <2>5
<1>8. RewardTypes'
  BY <1>1, <1>2, <1>5, <1>6, <1>7 DEF RewardTypes, Settles
<1>9. SumTo(D2, NumHolders) = SumTo(DebtNow, NumHolders) - DebtNow[h]
  <2>1. D2[h] = 0
    <3>1. staked'[h] \in Nat /\ index' - userIndex'[h] = 0
      BY <1>1, <1>2, <1>3 DEF Settles
    <3> QED
      BY <3>1
  <2>2. ASSUME NEW k \in Holders, k # h PROVE D2[k] = DebtNow[k]
    <3>1. staked'[k] = staked[k] /\ userIndex'[k] = userIndex[k]
      BY <1>2, <1>3, <2>2 DEF Settles
    <3> QED
      BY <3>1, <1>2 DEF DebtNow, R
  <2>3. \A k \in Holders : DebtNow[k] \in Int /\ D2[k] \in Int
    BY <2>1, <2>2, DebtNat
  <2> HIDE DEF D2
  <2>4. SumTo(D2, NumHolders) = SumTo(DebtNow, NumHolders) + D2[h] - DebtNow[h]
    BY <1>0, <2>2, <2>3, SumToChange DEF Holders
  <2> QED
    BY <2>1, <2>3, <2>4, DebtNat
<1>10. SumTo(accrued', NumHolders) = SumTo(accrued, NumHolders) + x - accrued[h]
  <2>1. SumTo(accrued', NumHolders) = SumTo(accrued, NumHolders) + accrued'[h] - accrued[h]
    BY <1>3, <1>4, <1>6, BalanceChange
  <2> QED
    BY <1>3, <1>4, <2>1
<1>11. PICK o \in Nat, n \in Nat, s \in Nat, c \in Nat, b \in Nat :
         /\ o = Owed(h) /\ n = SumTo(DebtNow, NumHolders) /\ s = DebtNow[h]
         /\ c = SumTo(accrued, NumHolders) /\ b = accrued[h]
  BY <1>3, PendingBound, DebtNat
<1>12. x + paid = b + o /\ Wad * o <= s
  BY <1>11, PendingBound DEF Settles
<1>13. PICK k \in Nat, u \in Nat, w \in Nat : k = reserve + rate * left /\ u = usdfr /\ w = Wad
  <2>1. rate * left \in Nat /\ reserve \in Nat /\ usdfr \in Nat
    BY Product DEF RewardTypes
  <2> QED
    BY <1>0, <2>1
<1>14. w * u >= w * (k + c) + n
  BY <1>11, <1>13, Advance DEF SolventNow
<1>15. w * (u - paid) >= w * (k + (c + x - b)) + (n - s)
  <2>1. w * (u - paid) = w * u - w * paid
    BY <1>4
  <2>2. w * (k + (c + x - b)) = w * (k + c) + w * x - w * b
    BY <1>4
  <2>3. w * x + w * paid = w * b + w * o
    <3>1. w * (x + paid) = w * (b + o)
      BY <1>12
    <3> QED
      BY <1>4, <3>1
  <2>4. w * u \in Nat /\ w * paid \in Nat /\ w * x \in Nat /\ w * b \in Nat /\ w * o \in Nat /\ w * (k + c) \in Nat
    <3>1. k + c \in Nat
      OBVIOUS
    <3> QED
      BY <1>4, <3>1, Product
  <2>5. w * o <= s
    BY <1>12, <1>13
  <2> QED
    BY <1>14, <2>1, <2>2, <2>3, <2>4, <2>5
<1>16. reserve' + rate' * (left' + elapsed') + SumTo(accrued', NumHolders) = k + (c + x - b)
  <2>1. left' + elapsed' = left /\ rate' = rate /\ reserve' = reserve
    BY <1>2 DEF Settles, RewardTypes
  <2>2. reserve' + rate' * (left' + elapsed') = k
    BY <1>13, <2>1
  <2>3. SumTo(accrued', NumHolders) = c + x - b
    BY <1>10, <1>11
  <2> QED
    BY <2>2, <2>3
<1>17. Debt' = D2
  BY DEF Debt
<1>18. SumTo(D2, NumHolders) = n - s
  BY <1>9, <1>11
<1>19. usdfr' = u - paid
  BY <1>13 DEF Settles
<1> HIDE DEF D2
<1>20. Solvent'
  <2>1. SumTo(Debt', NumHolders) = n - s
    BY <1>17, <1>18
  <2>2. Wad * usdfr' = w * (u - paid)
    BY <1>13, <1>19
  <2>3. Wad * (reserve' + rate' * (left' + elapsed') + SumTo(accrued', NumHolders)) = w * (k + (c + x - b))
    BY <1>13, <1>16
  <2> QED
    BY <1>15, <2>1, <2>2, <2>3 DEF Solvent
<1> QED
  BY <1>8, <1>20

----------------------------------------------------------------------------
(* The parts of the invariant, and how steps keep them *)

GroveInv == Ledger(grove, groveDelegate, groveVotes) /\ custody \in Nat
StakeInv == Ledger(staked, delegate, votes) /\ totalStaked = SumTo(staked, NumHolders)
CustodyInv ==
  /\ unbonds \in [Holders -> Seq(Entry)]
  /\ custody >= totalStaked + OwedGrove(unbonds)
RestTypes == covered \in [Events -> Nat] /\ unbondingPeriod \in Nat /\ paused \in BOOLEAN

IInv == GroveInv /\ StakeInv /\ CustodyInv /\ RewardTypes /\ Solvent /\ RestTypes

----------------------------------------------------------------------------
(* GROVE *)

\* GROVE moves into the contract and stops voting
LEMMA GroveInKept ==
  ASSUME GroveInv, NEW h \in Holders, NEW a \in Nat, GroveIn(h, a)
  PROVE  GroveInv'
<1>1. Ledger(grove, groveDelegate, groveVotes) /\ custody \in Nat
  BY DEF GroveInv
<1>2. a <= grove[h]
  <2>1. grove[h] \in Nat
    BY <1>1 DEF Ledger
  <2> QED
    BY <2>1 DEF GroveIn
<1>3. Ledger([grove EXCEPT ![h] = @ - a], groveDelegate, MoveVotes(groveVotes, groveDelegate[h], Nobody, a))
  BY <1>1, <1>2, LedgerTake
<1>4. Ledger(grove', groveDelegate', groveVotes')
  BY <1>3 DEF GroveIn
<1>5. custody' \in Nat
  BY <1>1 DEF GroveIn
<1> QED
  BY <1>4, <1>5 DEF GroveInv

\* GROVE returns from the contract and votes again
LEMMA GroveOutKept ==
  ASSUME GroveInv, NEW h \in Holders, NEW a \in Nat, a <= custody, GroveOut(h, a)
  PROVE  GroveInv'
<1>1. Ledger(grove, groveDelegate, groveVotes) /\ custody \in Nat
  BY DEF GroveInv
<1>2. Ledger([grove EXCEPT ![h] = @ + a], groveDelegate, MoveVotes(groveVotes, Nobody, groveDelegate[h], a))
  BY <1>1, LedgerAdd
<1>3. Ledger(grove', groveDelegate', groveVotes')
  BY <1>2 DEF GroveOut
<1>4. custody' \in Nat
  BY <1>1 DEF GroveOut
<1> QED
  BY <1>3, <1>4 DEF GroveInv

\* GROVE and its votes move between holders
LEMMA GroveTransferKept ==
  ASSUME GroveInv, NEW h \in Holders, NEW to \in Holders, NEW a \in Nat, GroveTransfer(h, to, a)
  PROVE  GroveInv'
<1>1. Ledger(grove, groveDelegate, groveVotes) /\ custody \in Nat
  BY DEF GroveInv
<1>2. h # to /\ a <= grove[h]
  <2>1. grove[h] \in Nat
    BY <1>1 DEF Ledger
  <2> QED
    BY <2>1 DEF GroveTransfer
<1>3. Ledger([grove EXCEPT ![h] = @ - a, ![to] = @ + a], groveDelegate,
             MoveVotes(groveVotes, groveDelegate[h], groveDelegate[to], a))
  BY <1>1, <1>2, LedgerMove
<1>4. Ledger(grove', groveDelegate', groveVotes') /\ custody' = custody
  BY <1>3 DEF GroveTransfer
<1> QED
  BY <1>1, <1>4 DEF GroveInv

\* a holder's GROVE votes for its new delegate
LEMMA GroveDelegateKept ==
  ASSUME GroveInv, NEW h \in Holders, NEW d \in 0..NumHolders, GroveDelegate(h, d)
  PROVE  GroveInv'
<1>1. Ledger(grove, groveDelegate, groveVotes) /\ custody \in Nat
  BY DEF GroveInv
<1>2. Ledger(grove, [groveDelegate EXCEPT ![h] = d], MoveVotes(groveVotes, groveDelegate[h], d, grove[h]))
  BY <1>1, LedgerDelegate
<1>3. Ledger(grove', groveDelegate', groveVotes') /\ custody' = custody
  BY <1>2 DEF GroveDelegate
<1> QED
  BY <1>1, <1>3 DEF GroveInv

----------------------------------------------------------------------------
(* Groups of variables a step leaves alone *)

\* a step that moves no GROVE, no stake and no unbonding entry
LEMMA GroveUnchanged ==
  ASSUME GroveInv, UNCHANGED groveVars
  PROVE  GroveInv'
<1>1. grove' = grove /\ custody' = custody /\ groveDelegate' = groveDelegate /\ groveVotes' = groveVotes
  BY DEF groveVars
<1>2. Ledger(grove', groveDelegate', groveVotes')
  BY <1>1 DEF GroveInv
<1> QED
  BY <1>1, <1>2 DEF GroveInv

\* a step that leaves the stakes and their votes alone
LEMMA StakeUnchanged ==
  ASSUME StakeInv, UNCHANGED <<staked, totalStaked, delegate, votes>>
  PROVE  StakeInv'
<1>1. staked' = staked /\ totalStaked' = totalStaked /\ delegate' = delegate /\ votes' = votes
  OBVIOUS
<1>2. Ledger(staked', delegate', votes')
  BY <1>1 DEF StakeInv
<1> QED
  BY <1>1, <1>2 DEF StakeInv

\* GROVE that comes in unasked is owed to nobody
LEMMA CustodyUnchanged ==
  ASSUME GroveInv, StakeInv, CustodyInv, UNCHANGED stakeVars, custody' \in Nat, custody' >= custody
  PROVE  CustodyInv'
<1>1. unbonds' = unbonds /\ totalStaked' = totalStaked
  BY DEF stakeVars
<1>2. totalStaked \in Nat /\ OwedGrove(unbonds) \in Nat /\ custody \in Nat
  BY BalanceNat, OwedNat DEF GroveInv, StakeInv, CustodyInv, Ledger
<1>3. OwedGrove(unbonds') = OwedGrove(unbonds)
  BY <1>1
<1>4. custody' >= totalStaked' + OwedGrove(unbonds')
  BY <1>1, <1>2, <1>3 DEF CustodyInv
<1> QED
  BY <1>1, <1>4 DEF CustodyInv

\* a step that leaves the rewards and the USDfr alone
LEMMA RewardUnchanged ==
  ASSUME RewardTypes, Solvent, UNCHANGED <<staked, rewardVars, reserve, usdfr>>
  PROVE  RewardTypes' /\ Solvent'
<1>1. /\ staked' = staked /\ index' = index /\ userIndex' = userIndex /\ accrued' = accrued
      /\ rate' = rate /\ left' = left /\ elapsed' = elapsed /\ duration' = duration
      /\ reserve' = reserve /\ usdfr' = usdfr
  BY DEF rewardVars
<1>2. Debt' = Debt
  BY <1>1 DEF Debt
<1>3. SumTo(Debt', NumHolders) = SumTo(Debt, NumHolders) /\ SumTo(accrued', NumHolders) = SumTo(accrued, NumHolders)
  BY <1>1, <1>2
<1>4. Solvent'
  BY <1>1, <1>3 DEF Solvent
<1>5. RewardTypes'
  BY <1>1 DEF RewardTypes
<1> QED
  BY <1>4, <1>5

\* what the account needs to know of the stakes
LEMMA StakeGivesSum ==
  ASSUME StakeInv
  PROVE  StakeSum
BY DEF StakeInv, StakeSum, Ledger

----------------------------------------------------------------------------
(* Staking *)

\* a stake is counted once, for the delegate it ends up with
LEMMA StakeKept ==
  ASSUME StakeInv, NEW h \in Holders, NEW a \in Nat, Stake(h, a)
  PROVE  StakeInv'
<1> DEFINE d    == IF delegate[h] = Nobody THEN h ELSE delegate[h]
           del2 == [delegate EXCEPT ![h] = d]
           self == MoveVotes(votes, delegate[h], d, staked[h])
<1>1. Ledger(staked, delegate, votes) /\ totalStaked = SumTo(staked, NumHolders)
  BY DEF StakeInv
<1>2. staked \in [Holders -> Nat] /\ delegate \in [Holders -> 0..NumHolders]
  BY <1>1 DEF Ledger
<1>3. d \in 0..NumHolders
  BY <1>2, GroveAssumption DEF Holders
<1>4. del2[h] = d
  BY <1>2
<1>5. /\ staked' = [staked EXCEPT ![h] = @ + a]
      /\ totalStaked' = totalStaked + a
      /\ delegate' = del2
      /\ votes' = MoveVotes(self, Nobody, d, a)
  BY DEF Stake, UnitsToSelf
<1> HIDE DEF d
<1>6. Ledger(staked, del2, self)
  BY <1>1, <1>3, LedgerDelegate
<1> HIDE DEF del2, self
<1>7. Ledger([staked EXCEPT ![h] = @ + a], del2, MoveVotes(self, Nobody, del2[h], a))
  BY <1>6, LedgerAdd
<1>8. Ledger(staked', delegate', votes')
  BY <1>4, <1>5, <1>7
<1>9. totalStaked' = SumTo(staked', NumHolders)
  <2>1. staked' \in [Holders -> Nat] /\ staked'[h] = staked[h] + a /\ \A k \in Holders : k # h => staked'[k] = staked[k]
    BY <1>2, <1>5
  <2>2. SumTo(staked', NumHolders) = SumTo(staked, NumHolders) + staked'[h] - staked[h]
    BY <1>2, <2>1, BalanceChange
  <2>3. SumTo(staked, NumHolders) \in Nat /\ staked[h] \in Nat
    BY <1>2, BalanceNat
  <2> QED
    BY <1>1, <1>5, <2>1, <2>2, <2>3
<1> QED
  BY <1>8, <1>9 DEF StakeInv

\* what is unstaked stops voting
LEMMA UnstakeKept ==
  ASSUME StakeInv, NEW h \in Holders, NEW a \in Nat, RequestUnstake(h, a)
  PROVE  StakeInv'
<1>1. Ledger(staked, delegate, votes) /\ totalStaked = SumTo(staked, NumHolders)
  BY DEF StakeInv
<1>2. staked \in [Holders -> Nat]
  BY <1>1 DEF Ledger
<1>3. /\ a <= staked[h]
      /\ staked' = [staked EXCEPT ![h] = @ - a]
      /\ totalStaked' = totalStaked - a
      /\ delegate' = delegate
      /\ votes' = MoveVotes(votes, delegate[h], Nobody, a)
  BY DEF RequestUnstake, UnitsBurned
<1>4. Ledger([staked EXCEPT ![h] = @ - a], delegate, MoveVotes(votes, delegate[h], Nobody, a))
  BY <1>1, <1>3, LedgerTake
<1>5. Ledger(staked', delegate', votes')
  BY <1>3, <1>4
<1>6. totalStaked' = SumTo(staked', NumHolders)
  <2>1. staked' \in [Holders -> Nat] /\ staked'[h] = staked[h] - a /\ \A k \in Holders : k # h => staked'[k] = staked[k]
    BY <1>2, <1>3
  <2>2. SumTo(staked', NumHolders) = SumTo(staked, NumHolders) + staked'[h] - staked[h]
    BY <1>2, <2>1, BalanceChange
  <2>3. SumTo(staked, NumHolders) \in Nat /\ staked[h] \in Nat
    BY <1>2, BalanceNat
  <2> QED
    BY <1>1, <1>3, <2>1, <2>2, <2>3
<1> QED
  BY <1>5, <1>6 DEF StakeInv

\* a stake votes for its holder's new delegate
LEMMA DelegateKept ==
  ASSUME StakeInv, NEW h \in Holders, NEW d \in 0..NumHolders, Delegate(h, d)
  PROVE  StakeInv'
<1>1. Ledger(staked, delegate, votes) /\ totalStaked = SumTo(staked, NumHolders)
  BY DEF StakeInv
<1>2. Ledger(staked, [delegate EXCEPT ![h] = d], MoveVotes(votes, delegate[h], d, staked[h]))
  BY <1>1, LedgerDelegate
<1>3. Ledger(staked', delegate', votes') /\ totalStaked' = totalStaked /\ staked' = staked
  BY <1>2 DEF Delegate, stakeVars
<1>4. totalStaked' = SumTo(staked', NumHolders)
  BY <1>1, <1>3
<1> QED
  BY <1>3, <1>4 DEF StakeInv

\* what is staked is in custody
LEMMA StakeCustody ==
  ASSUME GroveInv, StakeInv, CustodyInv, NEW h \in Holders, NEW a \in Nat, Stake(h, a)
  PROVE  CustodyInv'
<1>1. unbonds' = unbonds /\ totalStaked' = totalStaked + a /\ custody' = custody + a
  BY DEF Stake, GroveIn
<1>2. totalStaked \in Nat /\ OwedGrove(unbonds) \in Nat /\ custody \in Nat
  BY BalanceNat, OwedNat DEF GroveInv, StakeInv, CustodyInv, Ledger
<1>3. OwedGrove(unbonds') = OwedGrove(unbonds)
  BY <1>1
<1>4. custody' >= totalStaked' + OwedGrove(unbonds')
  BY <1>1, <1>2, <1>3 DEF CustodyInv
<1> QED
  BY <1>1, <1>4 DEF CustodyInv

\* what is unstaked is owed as an unbonding entry
LEMMA UnstakeCustody ==
  ASSUME GroveInv, StakeInv, CustodyInv, RestTypes, NEW h \in Holders, NEW a \in Nat, RequestUnstake(h, a)
  PROVE  CustodyInv'
<1> DEFINE e == [amount |-> a, wait |-> unbondingPeriod]
           s == Append(unbonds[h], e)
<1>1. /\ unbonds' = [unbonds EXCEPT ![h] = s]
      /\ totalStaked' = totalStaked - a /\ custody' = custody
  <2>1. unbonds' = [unbonds EXCEPT ![h] = Append(@, [amount |-> a, wait |-> unbondingPeriod])]
    BY DEF RequestUnstake
  <2> QED
    BY <2>1 DEF RequestUnstake, groveVars
<1>2. totalStaked \in Nat /\ OwedGrove(unbonds) \in Nat /\ custody \in Nat
  BY BalanceNat, OwedNat DEF GroveInv, StakeInv, CustodyInv, Ledger
<1>3. unbonds \in [Holders -> Seq(Entry)] /\ custody >= totalStaked + OwedGrove(unbonds)
  BY DEF CustodyInv
<1>4. e \in Entry /\ e.amount = a
  BY DEF Entry, RestTypes
<1>5. unbonds[h] \in Seq(Entry)
  BY <1>3
<1> HIDE DEF e
<1>6. s \in Seq(Entry) /\ EntrySum(s) = EntrySum(unbonds[h]) + e.amount
  BY <1>4, <1>5, EntryAppend
<1> HIDE DEF s
<1>7. unbonds' \in [Holders -> Seq(Entry)]
  BY <1>1, <1>3, <1>6
<1>8. OwedGrove([unbonds EXCEPT ![h] = s]) = OwedGrove(unbonds) + EntrySum(s) - EntrySum(unbonds[h])
  BY <1>3, <1>6, OwedChange
<1>9. EntrySum(unbonds[h]) \in Nat
  BY <1>5, EntryNat
<1>10. OwedGrove(unbonds') = OwedGrove(unbonds) + a
  BY <1>1, <1>2, <1>4, <1>6, <1>8, <1>9
<1>11. custody' >= totalStaked' + OwedGrove(unbonds')
  BY <1>1, <1>2, <1>3, <1>10
<1> QED
  BY <1>7, <1>11 DEF CustodyInv

\* what is claimed was owed, and only once
LEMMA ClaimCustody ==
  ASSUME GroveInv, StakeInv, CustodyInv, NEW h \in Holders, NEW i \in 1..Len(unbonds[h]), ClaimUnstake(h, i)
  PROVE  /\ unbonds[h][i].amount \in Nat
         /\ unbonds[h][i].amount <= custody
         /\ CustodyInv'
<1> DEFINE s == [unbonds[h] EXCEPT ![i] = Spent(@)]
           a == unbonds[h][i].amount
<1>1. unbonds \in [Holders -> Seq(Entry)] /\ custody >= totalStaked + OwedGrove(unbonds)
  BY DEF CustodyInv
<1>2. unbonds[h] \in Seq(Entry)
  BY <1>1
<1>3. /\ unbonds' = [unbonds EXCEPT ![h] = s]
      /\ totalStaked' = totalStaked /\ custody' = custody - a
  BY DEF ClaimUnstake, GroveOut
<1>4. s \in Seq(Entry) /\ a \in Nat /\ EntrySum(s) = EntrySum(unbonds[h]) - a
  BY <1>2, EntrySpend
<1> HIDE DEF s, a
<1>5. totalStaked \in Nat /\ OwedGrove(unbonds) \in Nat /\ custody \in Nat
  BY BalanceNat, OwedNat DEF GroveInv, StakeInv, CustodyInv, Ledger
<1>6. unbonds' \in [Holders -> Seq(Entry)]
  BY <1>1, <1>3, <1>4
<1>7. OwedGrove([unbonds EXCEPT ![h] = s]) = OwedGrove(unbonds) + EntrySum(s) - EntrySum(unbonds[h])
  BY <1>1, <1>4, OwedChange
<1>8. EntrySum(unbonds[h]) \in Nat
  BY <1>2, EntryNat
<1>9. OwedGrove(unbonds') = OwedGrove(unbonds) - a
  BY <1>3, <1>4, <1>5, <1>7, <1>8
<1>10. OwedGrove(unbonds') \in Nat
  BY <1>6, OwedNat
<1>11. custody' >= totalStaked' + OwedGrove(unbonds') /\ a <= custody
  BY <1>1, <1>3, <1>4, <1>5, <1>9, <1>10
<1>12. CustodyInv'
  BY <1>6, <1>11 DEF CustodyInv
<1> QED
  BY <1>4, <1>11, <1>12 DEF a

----------------------------------------------------------------------------
(* Rewards *)

\* whoever stakes or unstakes is settled first, and keeps what is pending
LEMMA StakeSettles ==
  ASSUME StakeInv, RewardTypes, NEW h \in Holders, NEW a \in Nat, Stake(h, a) \/ RequestUnstake(h, a),
         staked' \in [Holders -> Nat]
  PROVE  Settles(h, Pending(h), 0)
<1>1. staked \in [Holders -> Nat] /\ usdfr \in Nat
  BY DEF StakeInv, Ledger, RewardTypes
<1>2. Pending(h) \in Nat
  BY StakeGivesSum, PendingBound
<1>3. Pending(h) + 0 = Pending(h) /\ usdfr - 0 = usdfr
  BY <1>1, <1>2
<1>4. /\ accrued' = [accrued EXCEPT ![h] = Pending(h)]
      /\ UpdateReward(h)
      /\ usdfr' = usdfr
      /\ UNCHANGED <<rate, left, duration, reserve>>
  BY DEF Stake, RequestUnstake, coverVars
<1>5. \A k \in Holders : k # h => staked'[k] = staked[k]
  BY <1>1 DEF Stake, RequestUnstake
<1> QED
  BY <1>2, <1>3, <1>4, <1>5 DEF Settles

\* whoever claims is settled and paid all that is pending
LEMMA ClaimSettles ==
  ASSUME StakeInv, RewardTypes, NEW h \in Holders, ClaimRewards(h)
  PROVE  Settles(h, 0, Pending(h))
<1>1. staked \in [Holders -> Nat] /\ staked' = staked
  BY DEF StakeInv, Ledger, ClaimRewards, stakeVars
<1>2. Pending(h) \in Nat
  BY StakeGivesSum, PendingBound
<1>3. 0 + Pending(h) = Pending(h)
  BY <1>2
<1>4. /\ accrued' = [accrued EXCEPT ![h] = 0]
      /\ UpdateReward(h)
      /\ usdfr' = usdfr - Pending(h)
      /\ UNCHANGED <<rate, left, duration, reserve>>
  BY DEF ClaimRewards, coverVars
<1> QED
  BY <1>1, <1>2, <1>3, <1>4 DEF Settles

\* the new stream promises no more than what was notified and what was left
LEMMA NotifyKept ==
  ASSUME StakeSum, RewardTypes, Solvent, NEW a \in Nat, NotifyRewards(a)
  PROVE  RewardTypes' /\ Solvent'
<1>1. PICK r \in Nat, l \in Nat, t \in Nat, u \in Nat, v \in Nat, w \in Nat :
        r = rate /\ l = left /\ t = duration /\ u = usdfr /\ v = reserve /\ w = Wad
  <2>1. rate \in Nat /\ left \in Nat /\ duration \in Nat /\ usdfr \in Nat /\ reserve \in Nat /\ Wad \in Nat
    BY SGroveAssumption DEF RewardTypes
  <2> QED
    BY <2>1, Zenon
<1>2. PICK n \in Nat, c \in Nat : n = SumTo(DebtNow, NumHolders) /\ c = SumTo(accrued, NumHolders)
  BY DebtNat
<1>3. PICK x \in Nat : x = a + l * r
  <2>1. l * r \in Nat
    BY Product
  <2> QED
    BY <2>1
<1>4. rate' = x \div t /\ t # 0
  <2>1. t # 0 /\ rate' = (IF l = 0 THEN a ELSE a + l * r) \div t
    BY <1>1 DEF NotifyRewards, Leftover
  <2>2. (IF l = 0 THEN a ELSE a + l * r) = x
    <3>1. CASE l = 0
      BY <3>1, <1>3
    <3>2. CASE l # 0
      BY <3>2, <1>3
    <3> QED
      BY <3>1, <3>2
  <2> QED
    BY <2>1, <2>2
<1>5. PICK q \in Nat : q = rate' /\ t * q <= x
  <2>1. x \div t \in Nat /\ t * (x \div t) <= x
    BY <1>4, Quotient
  <2> QED
    BY <1>4, <2>1
<1>6. /\ left' = t /\ index' = RewardPerToken /\ elapsed' = 0 /\ usdfr' = u + a
      /\ userIndex' = userIndex /\ accrued' = accrued /\ duration' = t /\ reserve' = v /\ staked' = staked
  BY <1>1 DEF NotifyRewards, coverVars, stakeVars
<1>7. RewardTypes'
  <2>1. index \in Nat /\ RewardPerToken \in Nat /\ RewardPerToken >= index
    BY IndexGrows DEF RewardTypes
  <2>2. userIndex \in [Holders -> Nat] /\ accrued \in [Holders -> Nat] /\ \A h \in Holders : userIndex[h] <= index
    BY DEF RewardTypes
  <2>3. \A h \in Holders : userIndex'[h] <= index'
    BY <1>6, <2>1, <2>2
  <2> QED
    BY <1>1, <1>5, <1>6, <2>1, <2>2, <2>3 DEF RewardTypes
<1>8. w * u >= w * (v + r * l + c) + n
  BY <1>1, <1>2, Advance DEF SolventNow
<1>9. w * (u + a) >= w * (v + q * t + c) + n
  <2>1. PICK p \in Nat, y \in Nat : p = r * l /\ y = q * t
    BY Product
  <2>2. y <= a + p
    <3>1. t * q = q * t /\ l * r = r * l
      OBVIOUS
    <3> QED
      BY <1>3, <1>5, <2>1, <3>1
  <2>3. w * y <= w * (a + p)
    <3>1. PICK z \in Nat : a + p = y + z
      <4>1. (a + p) - y \in Nat /\ a + p = y + ((a + p) - y)
        BY <2>2
      <4> QED
        BY <4>1
    <3>2. w * (y + z) = w * y + w * z /\ w * z \in Nat /\ w * y \in Nat
      BY Product
    <3> QED
      BY <3>1, <3>2
  <2>4. /\ w * (u + a) = w * u + w * a
        /\ w * (a + p) = w * a + w * p
        /\ w * (v + p + c) = w * v + w * p + w * c
        /\ w * (v + y + c) = w * v + w * y + w * c
    OBVIOUS
  <2>5. /\ w * u \in Nat /\ w * a \in Nat /\ w * p \in Nat /\ w * v \in Nat /\ w * c \in Nat /\ w * y \in Nat
    BY Product
  <2>6. w * u >= w * (v + p + c) + n
    BY <1>8, <2>1
  <2>7. w * (u + a) >= w * (v + y + c) + n
    BY <2>3, <2>4, <2>5, <2>6
  <2> QED
    BY <2>1, <2>7
<1>10. Debt' = DebtNow
  BY <1>6 DEF Debt, DebtNow
<1>11. SumTo(Debt', NumHolders) = n /\ SumTo(accrued', NumHolders) = c
  BY <1>2, <1>6, <1>10
<1>12. Wad * usdfr' = w * (u + a)
  BY <1>1, <1>6
<1>13. reserve' + rate' * (left' + elapsed') = v + q * t
  <2>1. left' + elapsed' = t
    BY <1>6
  <2> QED
    BY <1>5, <1>6, <2>1
<1>14. Solvent'
  BY <1>1, <1>9, <1>11, <1>12, <1>13 DEF Solvent
<1> QED
  BY <1>7, <1>14

\* USDfr that goes to or comes from the reserve leaves the rest of the account
LEMMA ReserveKept ==
  ASSUME StakeSum, RewardTypes, Solvent, NEW x \in Int,
         reserve' = reserve + x, usdfr' = usdfr + x, reserve' \in Nat, usdfr' \in Nat,
         UNCHANGED <<staked, rewardVars>>
  PROVE  RewardTypes' /\ Solvent'
<1>1. /\ staked' = staked /\ index' = index /\ userIndex' = userIndex /\ accrued' = accrued
      /\ rate' = rate /\ left' = left /\ elapsed' = elapsed /\ duration' = duration
  BY DEF rewardVars
<1>2. RewardTypes'
  BY <1>1 DEF RewardTypes
<1>3. Debt' = Debt
  BY <1>1 DEF Debt
<1>4. SumTo(Debt', NumHolders) = SumTo(Debt, NumHolders) /\ SumTo(accrued', NumHolders) = SumTo(accrued, NumHolders)
  BY <1>1, <1>3
<1>5. PICK u \in Nat, v \in Nat, w \in Nat : u = usdfr /\ v = reserve /\ w = Wad
  BY SGroveAssumption DEF RewardTypes
<1>6. PICK p \in Nat, n \in Nat, c \in Nat :
        /\ p = rate * (left + elapsed)
        /\ n = SumTo(Debt, NumHolders)
        /\ c = SumTo(accrued, NumHolders)
  <2>1. left + elapsed \in Nat /\ rate \in Nat
    BY DEF RewardTypes
  <2>2. rate * (left + elapsed) \in Nat
    BY <2>1, Product
  <2> QED
    BY <2>2, DebtNat
<1>7. w * u >= w * (v + p + c) + n
  BY <1>5, <1>6 DEF Solvent
<1>8. w * (u + x) >= w * ((v + x) + p + c) + n
  <2>1. w * (u + x) = w * u + w * x /\ w * ((v + x) + p + c) = w * (v + p + c) + w * x
    OBVIOUS
  <2>2. w * u \in Int /\ w * x \in Int /\ w * (v + p + c) \in Int
    OBVIOUS
  <2> QED
    BY <1>7, <2>1, <2>2
<1>9. usdfr' = u + x /\ reserve' = v + x /\ rate' * (left' + elapsed') = p
  BY <1>1, <1>5, <1>6
<1>10. Solvent'
  BY <1>4, <1>5, <1>6, <1>8, <1>9 DEF Solvent
<1> QED
  BY <1>2, <1>10

\* a shortfall takes only what is reserved, and that is held
LEMMA CoverKept ==
  ASSUME StakeSum, RewardTypes, Solvent, NEW e \in Events, NEW a \in Nat, CoverShortfall(e, a)
  PROVE  RewardTypes' /\ Solvent' /\ Covered(a) \in Nat
<1>1. reserve \in Nat /\ usdfr \in Nat /\ left * rate \in Nat
  BY Product DEF RewardTypes
<1>2. Covered(a) \in Nat /\ Covered(a) <= reserve
  BY <1>1 DEF Covered
<1>3. reserve <= usdfr
  <2>1. usdfr >= reserve + SumTo(PendingAll, NumHolders) + left * rate
    BY Advance, AccountCovers
  <2>2. SumTo(PendingAll, NumHolders) \in Nat
    BY PendingSum
  <2> QED
    BY <1>1, <2>1, <2>2
<1>4. PICK x \in Int : x = 0 - Covered(a)
  BY <1>2
<1>5. reserve' = reserve + x /\ usdfr' = usdfr + x
  BY <1>1, <1>2, <1>4 DEF CoverShortfall
<1>6. reserve' \in Nat /\ usdfr' \in Nat
  BY <1>1, <1>2, <1>3, <1>4, <1>5
<1>7. UNCHANGED <<staked, rewardVars>>
  BY DEF CoverShortfall, stakeVars
<1>8. RewardTypes' /\ Solvent'
  BY <1>5, <1>6, <1>7, ReserveKept
<1> QED
  BY <1>2, <1>8

\* time that streams moves from what is left to what has elapsed
LEMMA TickRewards ==
  ASSUME RewardTypes, Solvent, Tick
  PROVE  RewardTypes' /\ Solvent'
<1>1. /\ staked' = staked /\ index' = index /\ userIndex' = userIndex /\ accrued' = accrued
      /\ rate' = rate /\ duration' = duration /\ reserve' = reserve /\ usdfr' = usdfr
  BY DEF Tick, coverVars
<1>2. left' \in Nat /\ elapsed' \in Nat /\ left' + elapsed' = left + elapsed
  BY SMTT(20) DEF Tick, RewardTypes
<1>3. RewardTypes'
  BY <1>1, <1>2 DEF RewardTypes
<1>4. Debt' = Debt
  BY <1>1 DEF Debt
<1>5. SumTo(Debt', NumHolders) = SumTo(Debt, NumHolders) /\ SumTo(accrued', NumHolders) = SumTo(accrued, NumHolders)
  BY <1>1, <1>4
<1>6. Solvent'
  BY <1>1, <1>2, <1>5 DEF Solvent
<1> QED
  BY <1>3, <1>6

\* time brings unbonding entries closer and changes no amount
LEMMA TickCustody ==
  ASSUME CustodyInv, Tick
  PROVE  CustodyInv'
<1>1. unbonds \in [Holders -> Seq(Entry)] /\ custody >= totalStaked + OwedGrove(unbonds)
  BY DEF CustodyInv
<1>2. custody' = custody /\ totalStaked' = totalStaked
  BY DEF Tick, groveVars
<1>3. unbonds' = [h \in Holders |-> [i \in 1..Len(unbonds[h]) |->
                   [unbonds[h][i] EXCEPT !.wait = IF @ = 0 THEN 0 ELSE @ - 1]]]
  BY DEF Tick
<1>4. ASSUME NEW h \in Holders PROVE unbonds'[h] \in Seq(Entry) /\ EntrySum(unbonds'[h]) = EntrySum(unbonds[h])
  <2> DEFINE s == unbonds[h]
             t == unbonds'[h]
             f == [i \in 1..Len(s) |-> s[i].amount]
             g == [i \in 1..Len(t) |-> t[i].amount]
  <2>1. s \in Seq(Entry)
    BY <1>1
  <2>2. t = [i \in 1..Len(s) |-> [s[i] EXCEPT !.wait = IF @ = 0 THEN 0 ELSE @ - 1]]
    BY <1>3
  <2> HIDE DEF s, t
  <2>3. ASSUME NEW i \in 1..Len(s) PROVE t[i] \in Entry /\ t[i].amount = s[i].amount
    <3>1. s[i] \in Entry
      BY <2>1, EntriesNat
    <3>2. t[i] = [s[i] EXCEPT !.wait = IF @ = 0 THEN 0 ELSE @ - 1]
      BY <2>2
    <3> QED
      BY <3>1, <3>2 DEF Entry
  <2>4. t \in Seq(Entry) /\ Len(t) = Len(s) /\ Len(s) \in Nat
    <3>1. Len(s) \in Nat
      BY <2>1
    <3>2. t \in [1..Len(s) -> Entry]
      BY <2>2, <2>3
    <3> QED
      BY <3>1, <3>2
  <2>5. \A i \in 1..Len(s) : f[i] = g[i]
    BY <2>3, <2>4
  <2> HIDE DEF f, g
  <2>6. SumTo(f, Len(s)) = SumTo(g, Len(s))
    BY <2>4, <2>5, SumToSame
  <2>7. EntrySum(s) = SumTo(f, Len(s)) /\ EntrySum(t) = SumTo(g, Len(s))
    BY <2>4 DEF EntrySum, f, g
  <2> QED
    BY <2>4, <2>6, <2>7 DEF s, t
<1>5. unbonds' \in [Holders -> Seq(Entry)]
  BY <1>3, <1>4
<1>6. OwedGrove(unbonds') = OwedGrove(unbonds)
  BY <1>4 DEF OwedGrove
<1>7. custody' >= totalStaked' + OwedGrove(unbonds')
  BY <1>1, <1>2, <1>6
<1> QED
  BY <1>5, <1>7 DEF CustodyInv

----------------------------------------------------------------------------
(* The invariant *)

\* a sum of zeros
LEMMA ZeroSum ==
  ASSUME NEW f, \A k \in Holders : f[k] = 0
  PROVE  SumTo(f, NumHolders) = 0
<1>1. NumHolders \in Nat /\ \A k \in 1..NumHolders : f[k] = 0
  BY GroveAssumption DEF Holders
<1>2. SumTo(f, NumHolders) = 0 * NumHolders
  BY <1>1, SumToConst
<1> QED
  BY <1>1, <1>2

\* in the beginning the treasury votes with its own GROVE and nobody else does
LEMMA InitGroveInv == GroveInit => GroveInv
<1> SUFFICES ASSUME GroveInit PROVE GroveInv
  OBVIOUS
<1>1. NumHolders \in Nat \ {0} /\ InitGrove \in Nat /\ 1 \in Holders /\ Nobody \notin Holders
  BY GroveAssumption DEF Holders, Nobody
<1>2. /\ grove = [h \in Holders |-> InitGrove]
      /\ groveDelegate = [h \in Holders |-> IF h = 1 THEN 1 ELSE Nobody]
      /\ groveVotes = [h \in Holders |-> IF h = 1 THEN InitGrove ELSE 0]
      /\ custody = 0
  BY DEF GroveInit
<1>3. /\ grove \in [Holders -> Nat] /\ groveVotes \in [Holders -> Nat]
      /\ groveDelegate \in [Holders -> 0..NumHolders]
  BY <1>1, <1>2 DEF Nobody
<1> DEFINE f(d) == [h \in Holders |-> IF groveDelegate[h] = d THEN grove[h] ELSE 0]
<1>4. ASSUME NEW d \in Holders PROVE groveVotes[d] = Given(groveDelegate, grove, d)
  <2>1. CASE d = 1
    <3>1. \A k \in 1..NumHolders : f(d)[k] = IF k = 1 THEN InitGrove ELSE 0
      BY <1>1, <1>2, <2>1 DEF Holders, Nobody
    <3>2. NumHolders \in Nat /\ 1 \in 1..NumHolders /\ InitGrove \in Int
      BY <1>1
    <3> HIDE DEF f
    <3>3. SumTo(f(d), NumHolders) = InitGrove
      BY <3>1, <3>2, SumToSingle
    <3> QED
      BY <1>1, <1>2, <2>1, <3>3 DEF Given, f
  <2>2. CASE d # 1
    <3>1. \A k \in Holders : f(d)[k] = 0
      BY <1>1, <1>2, <2>2
    <3> HIDE DEF f
    <3>2. SumTo(f(d), NumHolders) = 0
      BY <3>1, ZeroSum
    <3> QED
      BY <1>2, <2>2, <3>2 DEF Given, f
  <2> QED
    BY <2>1, <2>2
<1>5. SumTo(groveVotes, NumHolders) + Given(groveDelegate, grove, Nobody) = SumTo(grove, NumHolders)
  <2> DEFINE g == f(Nobody)
  <2>1. \A k \in 1..NumHolders : groveVotes[k] \in Int /\ g[k] \in Int /\ grove[k] = groveVotes[k] + g[k]
    BY <1>1, <1>2 DEF Holders, Nobody
  <2>2. NumHolders \in Nat
    BY <1>1
  <2>3. Given(groveDelegate, grove, Nobody) = SumTo(g, NumHolders)
    BY DEF Given
  <2> HIDE DEF g
  <2>4. SumTo(grove, NumHolders) = SumTo(groveVotes, NumHolders) + SumTo(g, NumHolders)
    BY <2>1, <2>2, SumToPlus
  <2> QED
    BY <2>3, <2>4
<1>6. Ledger(grove, groveDelegate, groveVotes)
  BY <1>3, <1>4, <1>5 DEF Ledger
<1> QED
  BY <1>2, <1>6 DEF GroveInv

\* the contract starts empty
LEMMA InitIInv == Init => IInv
<1> SUFFICES ASSUME Init PROVE IInv
  OBVIOUS
<1>1. GroveInv
  BY InitGroveInv DEF Init
<1>2. /\ staked = [h \in Holders |-> 0] /\ totalStaked = 0
      /\ unbonds = [h \in Holders |-> <<>>]
      /\ delegate = [h \in Holders |-> Nobody] /\ votes = [h \in Holders |-> 0]
      /\ userIndex = [h \in Holders |-> 0] /\ accrued = [h \in Holders |-> 0]
      /\ index = 0 /\ rate = 0 /\ left = 0 /\ elapsed = 0 /\ reserve = 0 /\ usdfr = 0
  BY DEF Init
<1>3. SumTo(staked, NumHolders) = 0 /\ SumTo(votes, NumHolders) = 0 /\ SumTo(accrued, NumHolders) = 0
  BY <1>2, ZeroSum
<1>4. \A d : Given(delegate, staked, d) = 0
  <2> TAKE d
  <2> DEFINE f == [h \in Holders |-> IF delegate[h] = d THEN staked[h] ELSE 0]
  <2>1. \A k \in Holders : f[k] = 0
    BY <1>2
  <2> HIDE DEF f
  <2>2. SumTo(f, NumHolders) = 0
    BY <2>1, ZeroSum
  <2> QED
    BY <2>2 DEF Given, f
<1>5. StakeInv
  <2>1. /\ staked \in [Holders -> Nat] /\ votes \in [Holders -> Nat]
        /\ delegate \in [Holders -> 0..NumHolders]
    BY <1>2, GroveAssumption DEF Nobody
  <2>2. \A d \in Holders : votes[d] = Given(delegate, staked, d)
    BY <1>2, <1>4
  <2>3. SumTo(votes, NumHolders) + Given(delegate, staked, Nobody) = SumTo(staked, NumHolders)
    BY <1>3, <1>4
  <2>4. Ledger(staked, delegate, votes)
    BY <2>1, <2>2, <2>3 DEF Ledger
  <2> QED
    BY <1>2, <1>3, <2>4 DEF StakeInv
<1>6. CustodyInv
  <2>1. unbonds \in [Holders -> Seq(Entry)]
    BY <1>2
  <2>2. EntrySum(<<>>) = 0
    <3> DEFINE s == <<>>
               f == [i \in 1..Len(s) |-> s[i].amount]
    <3>1. Len(s) = 0
      OBVIOUS
    <3> HIDE DEF s, f
    <3>2. SumTo(f, 0) = 0
      BY SumToZero
    <3>3. EntrySum(s) = 0
      BY <3>1, <3>2 DEF EntrySum, f
    <3> QED
      BY <3>3 DEF s
  <2> DEFINE f == [h \in Holders |-> EntrySum(unbonds[h])]
  <2>3. \A k \in Holders : f[k] = 0
    BY <1>2, <2>2
  <2> HIDE DEF f
  <2>4. SumTo(f, NumHolders) = 0
    BY <2>3, ZeroSum
  <2>5. OwedGrove(unbonds) = 0
    BY <2>4 DEF OwedGrove, f
  <2> QED
    BY <1>1, <1>2, <2>1, <2>5 DEF CustodyInv, GroveInv
<1>7. RewardTypes
  <2>1. duration \in Nat
    BY SGroveAssumption DEF Init
  <2> QED
    BY <1>2, <2>1 DEF RewardTypes
<1>8. Solvent
  <2>1. \A k \in Holders : Debt[k] = 0
    BY <1>2 DEF Debt
  <2>2. SumTo(Debt, NumHolders) = 0
    BY <2>1, ZeroSum
  <2>3. Wad \in Nat
    BY SGroveAssumption
  <2> QED
    BY <1>2, <1>3, <2>2, <2>3 DEF Solvent
<1>9. RestTypes
  <2>1. unbondingPeriod \in Nat
    BY SGroveAssumption DEF Init
  <2> QED
    BY <2>1 DEF Init, RestTypes
<1> QED
  BY <1>1, <1>5, <1>6, <1>7, <1>8, <1>9 DEF IInv

----------------------------------------------------------------------------
(* Every step keeps the invariant *)

\* the steps of a staker
LEMMA StakingKept == IInv /\ Staking => IInv'
<1> SUFFICES ASSUME IInv, NEW h \in Holders,
                    \/ \E a \in Amounts : Stake(h, a) \/ RequestUnstake(h, a)
                    \/ \E i \in 1..Len(unbonds[h]) : ClaimUnstake(h, i)
                    \/ \E d \in Delegatees : Delegate(h, d)
             PROVE  IInv'
  BY DEF Staking
<1>0. GroveInv /\ StakeInv /\ CustodyInv /\ RewardTypes /\ Solvent /\ RestTypes /\ StakeSum
  BY StakeGivesSum DEF IInv
<1>1. ASSUME NEW a \in Amounts, Stake(h, a) PROVE IInv'
  <2>1. a \in Nat /\ GroveIn(h, a)
    BY <1>1, SGroveAssumption DEF Stake
  <2>2. GroveInv'
    BY <1>0, <2>1, GroveInKept
  <2>3. StakeInv'
    BY <1>0, <1>1, <2>1, StakeKept
  <2>4. CustodyInv'
    BY <1>0, <1>1, <2>1, StakeCustody
  <2>5. Settles(h, Pending(h), 0)
    BY <1>0, <1>1, <2>1, <2>3, StakeSettles DEF StakeInv, Ledger
  <2>6. RewardTypes' /\ Solvent'
    BY <1>0, <2>5, SettleSolvent
  <2>7. RestTypes'
    BY <1>0, <1>1 DEF Stake, RestTypes, coverVars
  <2> QED
    BY <2>2, <2>3, <2>4, <2>6, <2>7 DEF IInv
<1>2. ASSUME NEW a \in Amounts, RequestUnstake(h, a) PROVE IInv'
  <2>1. a \in Nat /\ UNCHANGED groveVars
    BY <1>2, SGroveAssumption DEF RequestUnstake
  <2>2. GroveInv'
    BY <1>0, <2>1, GroveUnchanged
  <2>3. StakeInv'
    BY <1>0, <1>2, <2>1, UnstakeKept
  <2>4. CustodyInv'
    BY <1>0, <1>2, <2>1, UnstakeCustody
  <2>5. Settles(h, Pending(h), 0)
    BY <1>0, <1>2, <2>1, <2>3, StakeSettles DEF StakeInv, Ledger
  <2>6. RewardTypes' /\ Solvent'
    BY <1>0, <2>5, SettleSolvent
  <2>7. RestTypes'
    BY <1>0, <1>2 DEF RequestUnstake, RestTypes, coverVars
  <2> QED
    BY <2>2, <2>3, <2>4, <2>6, <2>7 DEF IInv
<1>3. ASSUME NEW i \in 1..Len(unbonds[h]), ClaimUnstake(h, i) PROVE IInv'
  <2>1. PICK a \in Nat : a = unbonds[h][i].amount /\ a <= custody /\ CustodyInv'
    BY <1>0, <1>3, ClaimCustody
  <2>2. GroveOut(h, a)
    BY <1>3, <2>1 DEF ClaimUnstake
  <2>3. GroveInv'
    BY <1>0, <2>1, <2>2, GroveOutKept
  <2>4. StakeInv'
    BY <1>0, <1>3, StakeUnchanged DEF ClaimUnstake, voteVars
  <2>5. RewardTypes' /\ Solvent'
    BY <1>0, <1>3, RewardUnchanged DEF ClaimUnstake, coverVars
  <2>6. RestTypes'
    BY <1>0, <1>3 DEF ClaimUnstake, RestTypes, coverVars
  <2> QED
    BY <2>1, <2>3, <2>4, <2>5, <2>6 DEF IInv
<1>4. ASSUME NEW d \in Delegatees, Delegate(h, d) PROVE IInv'
  <2>1. d \in 0..NumHolders
    BY GroveAssumption
  <2>2. UNCHANGED <<groveVars, stakeVars, rewardVars, coverVars, usdfr, unbondingPeriod, paused>>
    BY <1>4 DEF Delegate
  <2>3. GroveInv'
    BY <1>0, <2>2, GroveUnchanged
  <2>4. StakeInv'
    BY <1>0, <1>4, <2>1, DelegateKept
  <2>5. CustodyInv'
    <3>1. custody' \in Nat /\ custody' >= custody
      BY <1>0, <2>2 DEF groveVars, GroveInv
    <3> QED
      BY <1>0, <2>2, <3>1, CustodyUnchanged
  <2>6. RewardTypes' /\ Solvent'
    BY <1>0, <2>2, RewardUnchanged DEF stakeVars, coverVars
  <2>7. RestTypes'
    BY <1>0, <2>2 DEF RestTypes, coverVars
  <2> QED
    BY <2>3, <2>4, <2>5, <2>6, <2>7 DEF IInv
<1> QED
  BY <1>1, <1>2, <1>3, <1>4

\* the steps that move USDfr
LEMMA FundingKept == IInv /\ Funding => IInv'
<1> SUFFICES ASSUME IInv, Funding PROVE IInv'
  OBVIOUS
<1>0. GroveInv /\ StakeInv /\ CustodyInv /\ RewardTypes /\ Solvent /\ RestTypes /\ StakeSum
  BY StakeGivesSum DEF IInv
<1>1. UNCHANGED <<groveVars, stakeVars, voteVars, unbondingPeriod, paused>>
  BY DEF Funding, NotifyRewards, ClaimRewards, FundCoverage, CoverShortfall
<1>2. GroveInv'
  BY <1>0, <1>1, GroveUnchanged
<1>3. StakeInv'
  BY <1>0, <1>1, StakeUnchanged DEF stakeVars, voteVars
<1>4. CustodyInv'
  <2>1. custody' \in Nat /\ custody' >= custody
    BY <1>0, <1>1 DEF groveVars, GroveInv
  <2> QED
    BY <1>0, <1>1, <2>1, CustodyUnchanged
<1>5. SUFFICES RewardTypes' /\ Solvent' /\ covered' \in [Events -> Nat]
  BY <1>0, <1>1, <1>2, <1>3, <1>4 DEF IInv, RestTypes
<1>6. covered \in [Events -> Nat]
  BY <1>0 DEF RestTypes
<1>7. ASSUME NEW a \in Rewards, NotifyRewards(a) PROVE RewardTypes' /\ Solvent' /\ covered' \in [Events -> Nat]
  <2>1. a \in Nat /\ covered' = covered
    BY <1>7, SGroveAssumption DEF NotifyRewards, coverVars
  <2> QED
    BY <1>0, <1>6, <1>7, <2>1, NotifyKept
<1>8. ASSUME NEW h \in Holders, ClaimRewards(h) PROVE RewardTypes' /\ Solvent' /\ covered' \in [Events -> Nat]
  <2>1. covered' = covered
    BY <1>8 DEF ClaimRewards, coverVars
  <2>2. Settles(h, 0, Pending(h))
    BY <1>0, <1>8, ClaimSettles
  <2> QED
    BY <1>0, <1>6, <2>1, <2>2, SettleSolvent
<1>9. ASSUME NEW a \in Cover, FundCoverage(a) PROVE RewardTypes' /\ Solvent' /\ covered' \in [Events -> Nat]
  <2>1. a \in Nat /\ a \in Int /\ covered' = covered /\ reserve' = reserve + a /\ usdfr' = usdfr + a
    BY <1>9, SGroveAssumption DEF FundCoverage
  <2>2. reserve' \in Nat /\ usdfr' \in Nat
    BY <1>0, <2>1 DEF RewardTypes
  <2>3. UNCHANGED <<staked, rewardVars>>
    BY <1>9 DEF FundCoverage, stakeVars
  <2>4. RewardTypes' /\ Solvent'
    BY <1>0, <2>1, <2>2, <2>3, ReserveKept
  <2> QED
    BY <1>6, <2>1, <2>4
<1>10. ASSUME NEW e \in Events, NEW a \in Cover, CoverShortfall(e, a)
       PROVE  RewardTypes' /\ Solvent' /\ covered' \in [Events -> Nat]
  <2>1. a \in Nat
    BY SGroveAssumption
  <2>2. RewardTypes' /\ Solvent' /\ Covered(a) \in Nat
    BY <1>0, <1>10, <2>1, CoverKept
  <2>3. covered' = [covered EXCEPT ![e] = @ + Covered(a)]
    BY <1>10 DEF CoverShortfall
  <2>4. covered' \in [Events -> Nat]
    BY <1>6, <2>2, <2>3
  <2> QED
    BY <2>2, <2>4
<1> QED
  BY <1>7, <1>8, <1>9, <1>10 DEF Funding

\* governance and the guardian
LEMMA ConfigureKept == IInv /\ Configure => IInv'
<1> SUFFICES ASSUME IInv, Configure PROVE IInv'
  OBVIOUS
<1>0. GroveInv /\ StakeInv /\ CustodyInv /\ RewardTypes /\ Solvent /\ RestTypes
  BY DEF IInv
<1> DEFINE Kept ==
             /\ UNCHANGED <<groveVars, stakeVars, voteVars, index, userIndex, accrued, rate, left, elapsed,
                            coverVars, usdfr>>
             /\ duration' \in Nat /\ unbondingPeriod' \in Nat /\ paused' \in BOOLEAN
<1>1. Kept
  <2>1. duration \in Nat /\ unbondingPeriod \in Nat /\ paused \in BOOLEAN
    BY <1>0 DEF RewardTypes, RestTypes
  <2>2. Durations \subseteq Nat /\ UnbondingPeriods \subseteq Nat /\ PauseModes \subseteq BOOLEAN
    BY SGroveAssumption
  <2>3. ASSUME NEW p \in UnbondingPeriods, SetUnbondingPeriod(p) PROVE Kept
    BY <2>1, <2>2, <2>3 DEF SetUnbondingPeriod, rewardVars
  <2>4. ASSUME NEW d \in Durations, SetRewardsDuration(d) PROVE Kept
    BY <2>1, <2>2, <2>4 DEF SetRewardsDuration
  <2>5. ASSUME NEW p \in PauseModes, SetPaused(p) PROVE Kept
    BY <2>1, <2>2, <2>5 DEF SetPaused, rewardVars
  <2> QED
    BY <2>3, <2>4, <2>5 DEF Configure
<1>2. GroveInv'
  BY <1>0, <1>1, GroveUnchanged
<1>3. StakeInv'
  BY <1>0, <1>1, StakeUnchanged DEF stakeVars, voteVars
<1>4. CustodyInv'
  <2>1. custody' \in Nat /\ custody' >= custody
    BY <1>0, <1>1 DEF groveVars, GroveInv
  <2> QED
    BY <1>0, <1>1, <2>1, CustodyUnchanged
<1>5. RewardTypes'
  BY <1>0, <1>1 DEF RewardTypes, coverVars
<1>6. Solvent'
  <2>1. /\ staked' = staked /\ index' = index /\ userIndex' = userIndex /\ accrued' = accrued
        /\ rate' = rate /\ left' = left /\ elapsed' = elapsed /\ reserve' = reserve /\ usdfr' = usdfr
    BY <1>1 DEF stakeVars, coverVars
  <2>2. Debt' = Debt
    BY <2>1 DEF Debt
  <2>3. SumTo(Debt', NumHolders) = SumTo(Debt, NumHolders) /\ SumTo(accrued', NumHolders) = SumTo(accrued, NumHolders)
    BY <2>1, <2>2
  <2> QED
    BY <1>0, <2>1, <2>3 DEF Solvent
<1>7. RestTypes'
  BY <1>0, <1>1 DEF RestTypes, coverVars
<1> QED
  BY <1>2, <1>3, <1>4, <1>5, <1>6, <1>7 DEF IInv

\* GROVE that moves outside the contract, or comes in unasked
LEMMA GroveNextKept ==
  ASSUME IInv, GroveNext,
         UNCHANGED <<stakeVars, voteVars, rewardVars, coverVars, usdfr, unbondingPeriod, paused>>
  PROVE  IInv'
<1>0. GroveInv /\ StakeInv /\ CustodyInv /\ RewardTypes /\ Solvent /\ RestTypes
  BY DEF IInv
<1> DEFINE Kept == GroveInv' /\ custody' \in Nat /\ custody' >= custody
<1>1. Kept
  <2>0. custody \in Nat /\ Transfers \subseteq Nat /\ Delegatees \subseteq 0..NumHolders
    BY <1>0, GroveAssumption DEF GroveInv
  <2>1. ASSUME NEW h \in Holders, NEW to \in Holders, NEW a \in Transfers, GroveTransfer(h, to, a) PROVE Kept
    <3>1. a \in Nat
      BY <2>0
    <3>2. GroveInv'
      BY <1>0, <2>1, <3>1, GroveTransferKept
    <3> QED
      BY <2>0, <2>1, <3>2 DEF GroveTransfer
  <2>2. ASSUME NEW h \in Holders, NEW a \in Transfers, GroveIn(h, a) PROVE Kept
    <3>1. a \in Nat
      BY <2>0
    <3>2. GroveInv'
      BY <1>0, <2>2, <3>1, GroveInKept
    <3> QED
      BY <2>0, <2>2, <3>1, <3>2 DEF GroveIn
  <2>3. ASSUME NEW h \in Holders, NEW d \in Delegatees, GroveDelegate(h, d) PROVE Kept
    <3>1. d \in 0..NumHolders
      BY <2>0
    <3>2. GroveInv'
      BY <1>0, <2>3, <3>1, GroveDelegateKept
    <3> QED
      BY <2>0, <2>3, <3>2 DEF GroveDelegate
  <2> QED
    BY <2>1, <2>2, <2>3 DEF GroveNext
<1>2. StakeInv'
  BY <1>0, StakeUnchanged DEF stakeVars, voteVars
<1>3. CustodyInv'
  BY <1>0, <1>1, CustodyUnchanged
<1>4. RewardTypes' /\ Solvent'
  BY <1>0, RewardUnchanged DEF stakeVars, coverVars
<1>5. RestTypes'
  BY <1>0 DEF RestTypes, coverVars
<1> QED
  BY <1>1, <1>2, <1>3, <1>4, <1>5 DEF IInv

\* time
LEMMA TickKept == IInv /\ Tick => IInv'
<1> SUFFICES ASSUME IInv, Tick PROVE IInv'
  OBVIOUS
<1>0. GroveInv /\ StakeInv /\ CustodyInv /\ RewardTypes /\ Solvent /\ RestTypes
  BY DEF IInv
<1>1. GroveInv'
  BY <1>0, GroveUnchanged DEF Tick
<1>2. StakeInv'
  BY <1>0, StakeUnchanged DEF Tick, voteVars
<1>3. CustodyInv'
  BY <1>0, TickCustody
<1>4. RewardTypes' /\ Solvent'
  BY <1>0, TickRewards
<1>5. RestTypes'
  BY <1>0 DEF RestTypes, Tick, coverVars
<1> QED
  BY <1>1, <1>2, <1>3, <1>4, <1>5 DEF IInv

\* nothing happens
LEMMA StutterKept == IInv /\ UNCHANGED vars => IInv'
<1> SUFFICES ASSUME IInv, UNCHANGED vars PROVE IInv'
  OBVIOUS
<1>0. GroveInv /\ StakeInv /\ CustodyInv /\ RewardTypes /\ Solvent /\ RestTypes
  BY DEF IInv
<1>1. UNCHANGED <<groveVars, stakeVars, voteVars, rewardVars, coverVars, usdfr, unbondingPeriod, paused>>
  BY DEF vars
<1>2. GroveInv'
  BY <1>0, <1>1, GroveUnchanged
<1>3. StakeInv'
  BY <1>0, <1>1, StakeUnchanged DEF stakeVars, voteVars
<1>4. CustodyInv'
  <2>1. custody' \in Nat /\ custody' >= custody
    BY <1>0, <1>1 DEF groveVars, GroveInv
  <2> QED
    BY <1>0, <1>1, <2>1, CustodyUnchanged
<1>5. RewardTypes' /\ Solvent'
  BY <1>0, <1>1, RewardUnchanged DEF stakeVars, coverVars
<1>6. RestTypes'
  BY <1>0, <1>1 DEF RestTypes, coverVars
<1> QED
  BY <1>2, <1>3, <1>4, <1>5, <1>6 DEF IInv

----------------------------------------------------------------------------
(* The theorems *)

\* Ledgers, custody and the account are right in every reachable state.
THEOREM Invariance == Spec => []IInv
<1>1. Init => IInv
  BY InitIInv
<1>2. IInv /\ [Next]_vars => IInv'
  BY StakingKept, FundingKept, ConfigureKept, TickKept, GroveNextKept, StutterKept DEF Next
<1> QED
  BY <1>1, <1>2, PTL DEF Spec

\* No balance, vote, index or count leaves its type: no subtraction in
\* stake, requestUnstake, claimUnstake, claimRewards or coverShortfall
\* underflows once its guard has passed.
THEOREM TypeCorrect == Spec => []TypeOK
<1>1. IInv => TypeOK
  <2> SUFFICES ASSUME IInv PROVE TypeOK
    OBVIOUS
  <2>1. GroveTypeOK
    BY DEF IInv, GroveInv, Ledger, GroveTypeOK
  <2>2. staked \in [Holders -> Nat] /\ delegate \in [Holders -> 0..NumHolders] /\ votes \in [Holders -> Nat]
    BY DEF IInv, StakeInv, Ledger
  <2>3. totalStaked \in Nat
    BY <2>2, BalanceNat DEF IInv, StakeInv
  <2> QED
    BY <2>1, <2>2, <2>3 DEF IInv, CustodyInv, RewardTypes, RestTypes, TypeOK
<1> QED
  BY <1>1, Invariance, PTL

\* The balance of USDfr covers the reserve, every pending reward and the rest
\* of the stream, whatever is notified, staked, claimed or drawn.
THEOREM RewardsAlwaysHeld == Spec => []RewardsHeld
<1>1. IInv => RewardsHeld
  BY StakeGivesSum, HeldFromAccount DEF IInv
<1> QED
  BY <1>1, Invariance, PTL

\* Every delegate votes with exactly the active stakes delegated to it.
THEOREM VotesAreActiveStake == Spec => []VotesAreStake
<1>1. IInv => VotesAreStake
  BY DEF IInv, StakeInv, Ledger, Given, VotesAreStake
<1> QED
  BY <1>1, Invariance, PTL

\* All GROVE owed, active or unbonding, is in custody.
THEOREM AllGroveInCustody == Spec => []GroveCustody
<1>1. IInv => GroveCustody
  BY DEF IInv, CustodyInv, OwedGrove, EntrySum, Unbonding, GroveCustody
<1> QED
  BY <1>1, Invariance, PTL

\* The two vote sources of the governor never count a GROVE twice.
THEOREM NoGroveVotesTwice == Spec => []OneVoteEach
<1>1. IInv => OneVoteEach
  <2> SUFFICES ASSUME IInv PROVE OneVoteEach
    OBVIOUS
  <2> DEFINE p == [d \in Holders |-> VotingPower(d)]
  <2>1. NumHolders \in Nat
    BY GroveAssumption
  <2>2. Ledger(grove, groveDelegate, groveVotes) /\ Ledger(staked, delegate, votes)
    BY DEF IInv, GroveInv, StakeInv
  <2>3. \A d \in 1..NumHolders : groveVotes[d] \in Int /\ votes[d] \in Int /\ p[d] = groveVotes[d] + votes[d]
    BY <2>2 DEF Ledger, VotingPower, Holders
  <2> HIDE DEF p
  <2>4. SumTo(p, NumHolders) = SumTo(groveVotes, NumHolders) + SumTo(votes, NumHolders)
    BY <2>1, <2>3, SumToPlus
  <2>5. \A bal, del, v : Ledger(bal, del, v) =>
          SumTo(v, NumHolders) \in Nat /\ SumTo(bal, NumHolders) \in Nat /\ SumTo(v, NumHolders) <= SumTo(bal, NumHolders)
    <3> TAKE bal, del, v
    <3> HAVE Ledger(bal, del, v)
    <3>1. SumTo(v, NumHolders) \in Nat /\ SumTo(bal, NumHolders) \in Nat /\ Given(del, bal, Nobody) \in Nat
      BY BalanceNat, GivenNat DEF Ledger
    <3>2. SumTo(v, NumHolders) + Given(del, bal, Nobody) = SumTo(bal, NumHolders)
      BY DEF Ledger
    <3> QED
      BY <3>1, <3>2
  <2>6. OwedGrove(unbonds) \in Nat /\ custody \in Nat /\ custody >= SumTo(staked, NumHolders) + OwedGrove(unbonds)
    BY OwedNat DEF IInv, GroveInv, StakeInv, CustodyInv
  <2>7. SumTo(p, NumHolders) <= SumTo(grove, NumHolders) + custody
    BY <2>2, <2>4, <2>5, <2>6
  <2> QED
    BY <2>7 DEF OneVoteEach, p
<1> QED
  BY <1>1, Invariance, PTL

----------------------------------------------------------------------------
(* What a step may do to a pending reward, and to the stream *)

\* whoever's stake, mark and bank are as they were is owed as much, while the
\* index stands where it was
LEMMA PendingSame ==
  ASSUME NEW k \in Holders, RewardPerToken' = RewardPerToken,
         staked'[k] = staked[k], userIndex'[k] = userIndex[k], accrued'[k] = accrued[k]
  PROVE  Pending(k)' = Pending(k)
BY DEF Pending, Owed

\* a step that leaves the rewards and the stakes alone changes no reward
LEMMA RewardsUntouched ==
  ASSUME UNCHANGED <<staked, totalStaked, index, userIndex, accrued, rate, elapsed>>
  PROVE  \A k \in Holders : Pending(k)' = Pending(k)
<1>1. RewardPerToken' = RewardPerToken
  BY DEF RewardPerToken
<1> QED
  BY <1>1, PendingSame

\* where the index has just been advanced, nothing more has streamed
LEMMA IndexHeld ==
  ASSUME StakeSum', RewardTypes', NEW x \in Nat, index' = x, elapsed' = 0
  PROVE  RewardPerToken' = x
<1>1. PICK t \in Nat, r \in Nat, w \in Nat : t = totalStaked' /\ r = rate' /\ w = Wad
  <2>1. totalStaked' \in Nat
    BY BalanceNat DEF StakeSum
  <2>2. rate' \in Nat /\ Wad \in Nat
    BY SGroveAssumption DEF RewardTypes
  <2> QED
    BY <2>1, <2>2, Zenon
<1>2. RewardPerToken' = IF t = 0 THEN x ELSE x + (0 * r * w) \div t
  BY <1>1 DEF RewardPerToken
<1>3. 0 * r * w = 0
  OBVIOUS
<1>4. t # 0 => 0 \div t = 0
  OBVIOUS
<1> QED
  BY <1>2, <1>3, <1>4

\* who settles keeps what was pending, less what is paid; nobody else's changes
LEMMA SettledExactly ==
  ASSUME StakeSum, RewardTypes, StakeSum', RewardTypes', NEW h \in Holders, NEW x, NEW paid,
         Settles(h, x, paid)
  PROVE  /\ Pending(h)' = x
         /\ \A k \in Holders : k # h => Pending(k)' = Pending(k)
<1>1. RewardPerToken \in Nat
  BY IndexGrows
<1>2. RewardPerToken' = RewardPerToken
  BY <1>1, IndexHeld DEF Settles, UpdateReward
<1>3. /\ userIndex' = [userIndex EXCEPT ![h] = RewardPerToken]
      /\ accrued' = [accrued EXCEPT ![h] = x]
      /\ userIndex \in [Holders -> Nat] /\ accrued \in [Holders -> Nat]
  BY DEF Settles, UpdateReward, MarkAfter, RewardTypes
<1>4. Pending(h)' = x
  <2>1. userIndex'[h] = RewardPerToken /\ accrued'[h] = x /\ staked'[h] \in Nat /\ x \in Nat
    BY <1>3 DEF Settles
  <2>2. RewardPerToken' - userIndex'[h] = 0
    BY <1>1, <1>2, <2>1
  <2>3. staked'[h] * (RewardPerToken' - userIndex'[h]) = 0
    BY <2>1, <2>2
  <2>4. 0 \div Wad = 0
    BY SGroveAssumption
  <2>5. Owed(h)' = 0
    BY <2>3, <2>4 DEF Owed
  <2> QED
    BY <2>1, <2>5 DEF Pending
<1>5. ASSUME NEW k \in Holders, k # h PROVE Pending(k)' = Pending(k)
  BY <1>2, <1>3, <1>5, PendingSame DEF Settles
<1> QED
  BY <1>4, <1>5

\* a notification only advances the index
LEMMA NotifiedExactly ==
  ASSUME StakeSum, RewardTypes, StakeSum', RewardTypes', NEW a, NotifyRewards(a)
  PROVE  \A k \in Holders : Pending(k)' = Pending(k)
<1>1. RewardPerToken \in Nat
  BY IndexGrows
<1>2. RewardPerToken' = RewardPerToken
  BY <1>1, IndexHeld DEF NotifyRewards
<1> QED
  BY <1>2, PendingSame DEF NotifyRewards, stakeVars

\* rounding down keeps the order
LEMMA QuotientOrder ==
  ASSUME NEW x \in Nat, NEW y \in Nat, NEW n \in Nat \ {0}, x <= y
  PROVE  x \div n \in Nat /\ y \div n \in Nat /\ x \div n <= y \div n
OBVIOUS

\* so do products of natural numbers
LEMMA ProductOrder ==
  ASSUME NEW a \in Nat, NEW x \in Nat, NEW y \in Nat, x <= y
  PROVE  a * x \in Nat /\ a * y \in Nat /\ a * x <= a * y
<1>1. PICK z \in Nat : y = x + z
  <2>1. y - x \in Nat /\ y = x + (y - x)
    OBVIOUS
  <2> QED
    BY <2>1
<1>2. a * y = a * x + a * z /\ a * x \in Nat /\ a * z \in Nat
  BY <1>1, Product
<1> QED
  BY <1>2, Product

\* time only adds to what is pending
LEMMA TimeEarns ==
  ASSUME StakeSum, RewardTypes, Tick
  PROVE  \A k \in Holders : Pending(k)' >= Pending(k)
<1>1. /\ staked' = staked /\ totalStaked' = totalStaked /\ index' = index /\ userIndex' = userIndex
      /\ accrued' = accrued /\ rate' = rate
  BY DEF Tick
<1>2. elapsed \in Nat /\ elapsed' \in Nat /\ elapsed <= elapsed' /\ rate \in Nat /\ Wad \in Nat \ {0}
      /\ totalStaked \in Nat /\ index \in Nat
  BY SGroveAssumption, BalanceNat, SMTT(20) DEF Tick, RewardTypes, StakeSum
<1>3. RewardPerToken \in Nat /\ RewardPerToken >= index
  BY IndexGrows
<1>4. RewardPerToken' \in Nat /\ RewardPerToken <= RewardPerToken'
  <2>1. CASE totalStaked = 0
    BY <1>1, <1>3, <2>1 DEF RewardPerToken
  <2>2. CASE totalStaked # 0
    <3>1. PICK b \in Nat : b = rate * Wad
      BY <1>2, Product
    <3>2. elapsed * rate * Wad = b * elapsed /\ elapsed' * rate * Wad = b * elapsed'
      BY <1>2, <3>1
    <3>3. b * elapsed \in Nat /\ b * elapsed' \in Nat /\ b * elapsed <= b * elapsed'
      BY <1>2, ProductOrder
    <3>4. PICK x \in Nat, y \in Nat : x = b * elapsed /\ y = b * elapsed'
      BY <3>3
    <3>5. x \div totalStaked \in Nat /\ y \div totalStaked \in Nat /\ x \div totalStaked <= y \div totalStaked
      BY <1>2, <2>2, <3>3, <3>4, QuotientOrder
    <3>6. RewardPerToken = index + x \div totalStaked /\ RewardPerToken' = index + y \div totalStaked
      BY <1>1, <2>2, <3>2, <3>4 DEF RewardPerToken
    <3> QED
      BY <1>2, <3>5, <3>6
  <2> QED
    BY <2>1, <2>2
<1> TAKE k \in Holders
<1>5. PICK s \in Nat, m \in Nat, c \in Nat : s = staked[k] /\ m = userIndex[k] /\ c = accrued[k]
  BY DEF StakeSum, RewardTypes
<1>6. m <= index
  BY <1>5 DEF RewardTypes
<1>7. RewardPerToken - m \in Nat /\ RewardPerToken' - m \in Nat /\ RewardPerToken - m <= RewardPerToken' - m
  <2>1. PICK p \in Nat, q \in Nat, i \in Nat : p = RewardPerToken /\ q = RewardPerToken' /\ i = index
    BY <1>2, <1>3, <1>4
  <2>2. i <= p /\ p <= q /\ m <= i
    BY <1>3, <1>4, <1>6, <2>1
  <2> QED
    BY <1>5, <2>1, <2>2
<1>8. PICK x \in Nat, y \in Nat : x = s * (RewardPerToken - m) /\ y = s * (RewardPerToken' - m) /\ x <= y
  BY <1>7, ProductOrder
<1>9. x \div Wad \in Nat /\ y \div Wad \in Nat /\ x \div Wad <= y \div Wad
  BY <1>2, <1>8, QuotientOrder
<1>10. Owed(k) = x \div Wad /\ Owed(k)' = y \div Wad
  BY <1>1, <1>5, <1>8 DEF Owed
<1>11. Pending(k) = c + x \div Wad /\ Pending(k)' = c + y \div Wad
  BY <1>1, <1>5, <1>10 DEF Pending
<1> QED
  BY <1>9, <1>11

\* Only time earns: no step of stake, requestUnstake, claimUnstake, delegate,
\* notifyRewards, fundCoverage or coverShortfall changes what anybody may
\* claim, and claimRewards pays out exactly what it erases.
THEOREM OnlyTimeEarns == Spec => EarnedByTime
<1> DEFINE Exact(h) == \/ Pending(h)' = Pending(h)
                       \/ Pending(h)' = 0 /\ usdfr' = usdfr - Pending(h)
           Same == \A h \in Holders : Pending(h)' = Pending(h)
           Earned == \A h \in Holders : IF Tick THEN Pending(h)' >= Pending(h) ELSE Exact(h)
<1>1. IInv /\ IInv' /\ [Next]_vars => [Earned]_vars
  <2> SUFFICES ASSUME IInv, IInv', Next PROVE Earned
    OBVIOUS
  <2>0. StakeInv /\ RewardTypes /\ StakeSum /\ RewardTypes' /\ StakeSum'
    BY StakeGivesSum DEF IInv, StakeInv, StakeSum, Ledger
  <2>1. CASE Tick
    BY <2>0, <2>1, TimeEarns
  <2>2. ASSUME NEW h \in Holders, NEW a \in Amounts, Stake(h, a) \/ RequestUnstake(h, a) PROVE Same
    <3>1. a \in Nat /\ staked' \in [Holders -> Nat]
      BY <2>0, SGroveAssumption DEF StakeSum
    <3>2. Settles(h, Pending(h), 0)
      BY <2>0, <2>2, <3>1, StakeSettles
    <3> QED
      BY <2>0, <3>2, SettledExactly
  <2>3. ASSUME NEW h \in Holders, ClaimRewards(h) PROVE \A k \in Holders : Exact(k)
    <3>1. Settles(h, 0, Pending(h))
      BY <2>0, <2>3, ClaimSettles
    <3>2. usdfr' = usdfr - Pending(h)
      BY <3>1 DEF Settles
    <3> QED
      BY <2>0, <3>1, <3>2, SettledExactly
  <2>4. ASSUME NEW a, NotifyRewards(a) PROVE Same
    BY <2>0, <2>4, NotifiedExactly
  <2>5. ASSUME UNCHANGED <<staked, totalStaked, index, userIndex, accrued, rate, elapsed>> PROVE Same
    BY <2>5, RewardsUntouched
  <2>6. CASE Staking
    <3>1. ASSUME NEW h \in Holders, NEW i, ClaimUnstake(h, i) PROVE Same
      BY <2>5, <3>1 DEF ClaimUnstake, rewardVars
    <3>2. ASSUME NEW h \in Holders, NEW d, Delegate(h, d) PROVE Same
      BY <2>5, <3>2 DEF Delegate, stakeVars, rewardVars
    <3>3. Same
      BY <2>2, <2>6, <3>1, <3>2 DEF Staking
    <3> QED
      BY <2>1, <3>3
  <2>7. CASE Funding
    <3>1. ASSUME NEW a, FundCoverage(a) PROVE Same
      BY <2>5, <3>1 DEF FundCoverage, stakeVars, rewardVars
    <3>2. ASSUME NEW e, NEW a, CoverShortfall(e, a) PROVE Same
      BY <2>5, <3>2 DEF CoverShortfall, stakeVars, rewardVars
    <3>3. Same \/ \A k \in Holders : Exact(k)
      BY <2>3, <2>4, <2>7, <3>1, <3>2 DEF Funding
    <3> QED
      BY <2>1, <3>3
  <2>8. CASE Configure
    <3>1. UNCHANGED <<staked, totalStaked, index, userIndex, accrued, rate, elapsed>>
      BY <2>8 DEF Configure, SetUnbondingPeriod, SetRewardsDuration, SetPaused, stakeVars, rewardVars
    <3> QED
      BY <2>1, <2>5, <3>1
  <2>9. CASE UNCHANGED <<stakeVars, voteVars, rewardVars, coverVars, usdfr, unbondingPeriod, paused>>
    <3>1. UNCHANGED <<staked, totalStaked, index, userIndex, accrued, rate, elapsed>>
      BY <2>9 DEF stakeVars, rewardVars
    <3> QED
      BY <2>1, <2>5, <3>1
  <2> QED
    BY <2>1, <2>6, <2>7, <2>8, <2>9 DEF Next
<1>2. [][Earned]_vars => EarnedByTime
  BY PTL DEF EarnedByTime
<1> QED
  BY <1>1, <1>2, Invariance, PTL DEF Spec

\* a stream is never longer than the window it was started with
Window == left <= duration

\* A stream that runs is paid at least as fast by every later notification or
\* configuration: no amount notified can stretch it.
THEOREM StreamsKeepTheirPace == Spec => StreamNeverSlowed
<1> DEFINE Pace == ~Tick => \A t \in 1..left : rate' * (IF t < left' THEN t ELSE left') >= rate * t
<1>1. Init => Window
  <2>1. Durations \subseteq Nat
    BY SGroveAssumption
  <2> QED
    BY <2>1 DEF Init, Window
<1>2. IInv /\ IInv' /\ Window /\ [Next]_vars => Window' /\ [Pace]_vars
  <2> SUFFICES ASSUME IInv, IInv', Window, [Next]_vars PROVE Window' /\ Pace
    OBVIOUS
  <2>0. rate \in Nat /\ left \in Nat /\ duration \in Nat /\ rate' \in Nat /\ left' \in Nat /\ duration' \in Nat
    BY DEF IInv, RewardTypes
  <2>1. ASSUME left' = left, rate' = rate, duration' = duration \/ left = 0 PROVE Window' /\ Pace
    <3>1. Window'
      BY <2>0, <2>1 DEF Window
    <3>2. ASSUME NEW t \in 1..left PROVE rate' * (IF t < left' THEN t ELSE left') >= rate * t
      <4>1. (IF t < left' THEN t ELSE left') = t /\ rate' = rate
        BY <2>0, <2>1
      <4>2. rate * t \in Nat
        BY <2>0
      <4> QED
        BY <4>1, <4>2
    <3> QED
      BY <3>1, <3>2
  <2>2. ASSUME NEW a, NotifyRewards(a) PROVE Window' /\ Pace
    <3>1. left' = duration /\ duration' = duration /\ (left # 0 => rate' >= rate)
      BY <2>2 DEF NotifyRewards, GoodRate
    <3>2. Window'
      BY <2>0, <3>1 DEF Window
    <3>3. ASSUME NEW t \in 1..left PROVE rate' * (IF t < left' THEN t ELSE left') >= rate * t
      <4>1. (IF t < left' THEN t ELSE left') = t /\ t \in Nat /\ left # 0
        BY <2>0, <3>1 DEF Window
      <4>2. t * rate <= t * rate'
        BY <2>0, <3>1, <4>1, ProductOrder
      <4>3. t * rate = rate * t /\ t * rate' = rate' * t
        BY <2>0, <4>1
      <4> QED
        BY <4>1, <4>2, <4>3
    <3> QED
      BY <3>2, <3>3
  <2>3. CASE Tick
    <3>1. Window'
      BY <2>0, <2>3 DEF Tick, Window
    <3> QED
      BY <2>3, <3>1
  <2>4. CASE Staking
    <3>1. left' = left /\ rate' = rate /\ duration' = duration
      BY <2>4 DEF Staking, Stake, RequestUnstake, ClaimUnstake, Delegate, rewardVars
    <3> QED
      BY <2>1, <3>1
  <2>5. CASE Funding
    <3>1. ASSUME NEW h \in Holders, ClaimRewards(h) PROVE Window' /\ Pace
      BY <2>1, <3>1 DEF ClaimRewards
    <3>2. ASSUME NEW a, FundCoverage(a) PROVE Window' /\ Pace
      BY <2>1, <3>2 DEF FundCoverage, rewardVars
    <3>3. ASSUME NEW e, NEW a, CoverShortfall(e, a) PROVE Window' /\ Pace
      BY <2>1, <3>3 DEF CoverShortfall, rewardVars
    <3> QED
      BY <2>2, <2>5, <3>1, <3>2, <3>3 DEF Funding
  <2>6. CASE Configure
    <3>1. left' = left /\ rate' = rate /\ (duration' = duration \/ left = 0)
      BY <2>6 DEF Configure, SetUnbondingPeriod, SetRewardsDuration, SetPaused, rewardVars
    <3> QED
      BY <2>1, <3>1
  <2>7. CASE UNCHANGED rewardVars
    BY <2>1, <2>7 DEF rewardVars
  <2>8. UNCHANGED vars => UNCHANGED rewardVars
    BY DEF vars
  <2> QED
    BY <2>3, <2>4, <2>5, <2>6, <2>7, <2>8 DEF Next
<1>3. [][Pace]_vars => StreamNeverSlowed
  BY PTL DEF StreamNeverSlowed
<1> QED
  BY <1>1, <1>2, <1>3, Invariance, PTL DEF Spec

=============================================================================
