------------------------ MODULE RedemptionQueueProofs ------------------------
(***************************************************************************)
(* Proofs about SeniorVault's prices, for every price and amount (the       *)
(* rounding of each quote, and what follows for a batch of exits), and      *)
(* about RedemptionQueue, for every value of the constants: its type        *)
(* invariant, the ledger of the shares, custody, FIFO and the bounds of an  *)
(* open settlement; then what one settlement call may and may not do to     *)
(* fills, the heartbeat, the residue, the stream between chunks and the     *)
(* price.                                                                   *)
(***************************************************************************)
EXTENDS RedemptionQueue, SumsProofs, FiniteSetTheorems

----------------------------------------------------------------------------
(* The prices of the vault *)

PriceRecord == [assets : Nat \ {0}, shares : Nat \ {0}]

\* what a floor division is
LEMMA FloorDivIs ==
  ASSUME NEW a \in Nat, NEW b \in Nat \ {0}
  PROVE  /\ FloorDiv(a, b) \in Nat
         /\ b * FloorDiv(a, b) <= a
         /\ a < b * FloorDiv(a, b) + b
BY SMT DEF FloorDiv

\* a floor division is at least what it covers
LEMMA FloorDivAtLeast ==
  ASSUME NEW a \in Nat, NEW b \in Nat \ {0}, NEW q \in Nat, b * q <= a
  PROVE  q <= FloorDiv(a, b)
<1>1. PICK r \in Nat : r = FloorDiv(a, b) /\ a < b * r + b
  BY FloorDivIs
<1>2. b * q < b * (r + 1)
  BY <1>1
<1>3. q < r + 1
  BY <1>2
<1> QED
  BY <1>1, <1>3

\* a price built from natural numbers has positive terms
LEMMA PriceIs ==
  ASSUME NEW a \in Nat, NEW s \in Nat, VirtualShares \in Nat \ {0}
  PROVE  Price(a, s) \in PriceRecord
BY DEF Price, PriceRecord

\* what s shares fetch, as the largest quote their value covers
LEMMA AssetsForIs ==
  ASSUME NEW p \in PriceRecord, NEW s \in Nat
  PROVE  /\ AssetsFor(p, s) \in Nat
         /\ p.shares * AssetsFor(p, s) <= s * p.assets
         /\ \A q \in Nat : p.shares * q <= s * p.assets => q <= AssetsFor(p, s)
<1>1. p.assets \in Nat \ {0} /\ p.shares \in Nat \ {0}
  BY DEF PriceRecord
<1>2. s * p.assets \in Nat
  BY <1>1
<1> QED
  BY <1>1, <1>2, FloorDivIs, FloorDivAtLeast DEF AssetsFor

\* the floor-rounded share count an amount buys
LEMMA SharesForIs ==
  ASSUME NEW p \in PriceRecord, NEW a \in Nat
  PROVE  /\ SharesFor(p, a) \in Nat
         /\ p.assets * SharesFor(p, a) <= a * p.shares
<1>1. p.assets \in Nat \ {0} /\ p.shares \in Nat \ {0}
  BY DEF PriceRecord
<1>2. a * p.shares \in Nat
  BY <1>1
<1> QED
  BY <1>1, <1>2, FloorDivIs DEF SharesFor

\* The floor-rounded share cap never buys more than its budget
\* (convertToSharesAtRedemption: "holds by construction").
THEOREM CapWithinBudget ==
  ASSUME NEW p \in PriceRecord, NEW b \in Nat, NEW s \in Nat, s <= SharesFor(p, b)
  PROVE  AssetsFor(p, s) <= b
<1>1. PICK A \in Nat \ {0} : A = p.assets
  BY DEF PriceRecord
<1>2. PICK S \in Nat \ {0} : S = p.shares
  BY DEF PriceRecord
<1>3. PICK n \in Nat : n = SharesFor(p, b) /\ A * n <= b * S
  BY <1>1, <1>2, SharesForIs
<1>4. PICK q \in Nat : q = AssetsFor(p, s) /\ S * q <= s * A
  BY <1>1, <1>2, AssetsForIs
<1>5. s * A <= n * A
  BY <1>3
<1>6. S * q <= S * b
  BY <1>3, <1>4, <1>5
<1>7. q <= b
  BY <1>6
<1> QED
  BY <1>4, <1>7

\* Two exits quoted apart never fetch more than both together.
LEMMA AssetsForAdds ==
  ASSUME NEW p \in PriceRecord, NEW s \in Nat, NEW t \in Nat
  PROVE  AssetsFor(p, s) + AssetsFor(p, t) <= AssetsFor(p, s + t)
<1>1. PICK A \in Nat \ {0} : A = p.assets
  BY DEF PriceRecord
<1>2. PICK S \in Nat \ {0} : S = p.shares
  BY DEF PriceRecord
<1>3. PICK q \in Nat : q = AssetsFor(p, s) /\ S * q <= s * A
  BY <1>1, <1>2, AssetsForIs
<1>4. PICK r \in Nat : r = AssetsFor(p, t) /\ S * r <= t * A
  BY <1>1, <1>2, AssetsForIs
<1>5. S * (q + r) <= (s + t) * A
  BY <1>3, <1>4
<1>6. q + r \in Nat /\ s + t \in Nat
  OBVIOUS
<1>7. q + r <= AssetsFor(p, s + t)
  BY <1>1, <1>2, <1>5, <1>6, AssetsForIs
<1> QED
  BY <1>3, <1>4, <1>7

\* An exit of no more shares than there are leaves the virtual asset behind.
LEMMA ExitCovered ==
  ASSUME NEW p \in PriceRecord, NEW s \in Nat, s < p.shares
  PROVE  AssetsFor(p, s) < p.assets
<1>1. PICK A \in Nat \ {0} : A = p.assets
  BY DEF PriceRecord
<1>2. PICK S \in Nat \ {0} : S = p.shares
  BY DEF PriceRecord
<1>3. PICK q \in Nat : q = AssetsFor(p, s) /\ S * q <= s * A
  BY <1>1, <1>2, AssetsForIs
<1>4. s * A < S * A
  BY <1>2
<1>5. S * q < S * A
  BY <1>3, <1>4
<1>6. q < A
  BY <1>5
<1> QED
  BY <1>1, <1>3, <1>6

\* The quotes of the items of a batch add up to no more than its one receipt
\* (_allocateBatchReceipt: what is left for the last item is not negative).
THEOREM QuotesWithinReceipt ==
  ASSUME NEW p \in PriceRecord, NEW n \in Nat, NEW fill, NEW quote,
         \A k \in 1..n : fill[k] \in Nat /\ quote[k] = AssetsFor(p, fill[k])
  PROVE  SumTo(quote, n) <= AssetsFor(p, SumTo(fill, n))
<1> DEFINE T == {m \in Nat : m > n \/ SumTo(quote, m) <= AssetsFor(p, SumTo(fill, m))}
<1>0. \A k \in 0..n : SumTo(fill, k) \in Nat /\ SumTo(quote, k) \in Nat
  BY SumToNat, AssetsForIs
<1>1. 0 \in T
  BY SumToZero, AssetsForIs
<1>2. ASSUME NEW m \in T PROVE m + 1 \in T
  <2>1. CASE m + 1 <= n
    <3>1. /\ SumTo(fill, m + 1) = SumTo(fill, (m + 1) - 1) + fill[m + 1]
          /\ SumTo(quote, m + 1) = SumTo(quote, (m + 1) - 1) + quote[m + 1]
      BY SumToStep
    <3>2. /\ (m + 1) - 1 = m /\ m \in 0..n
          /\ fill[m + 1] \in Nat /\ quote[m + 1] = AssetsFor(p, fill[m + 1])
      BY <2>1
    <3>3. SumTo(quote, m) <= AssetsFor(p, SumTo(fill, m))
      BY <2>1
    <3>4. PICK x \in Nat : x = SumTo(fill, m)
      BY <1>0, <3>2
    <3>5. PICK y \in Nat : y = fill[m + 1]
      BY <3>2
    <3>6. AssetsFor(p, x) + AssetsFor(p, y) <= AssetsFor(p, x + y)
      BY AssetsForAdds
    <3>7. AssetsFor(p, x) \in Nat /\ AssetsFor(p, y) \in Nat /\ AssetsFor(p, x + y) \in Nat
      BY AssetsForIs
    <3>8. SumTo(quote, m) \in Nat
      BY <1>0, <3>2
    <3>9. SumTo(quote, m + 1) <= AssetsFor(p, SumTo(fill, m + 1))
      BY <3>1, <3>2, <3>3, <3>4, <3>5, <3>6, <3>7, <3>8
    <3> QED
      BY <3>9
  <2> QED
    BY <2>1
<1> HIDE DEF T
<1>3. \A m \in Nat : m \in T
  <2>1. T \in SUBSET Nat
    BY DEF T
  <2> QED
    BY <1>1, <1>2, <2>1, SetInduction
<1> QED
  BY <1>3 DEF T

----------------------------------------------------------------------------
(* The share ledger: balances add up to a total that only a credit changes *)

NumUsers == Cardinality(Users)
UserAt == CHOOSE f : f \in Bijection(1..NumUsers, Users)
TotalShares(b) ==
  SumTo([i \in 1..NumUsers |-> b[UserAt[i]]], NumUsers) + b[Queue] + b[FeeRecipient]

\* the users can be listed from 1 to their number
LEMMA UsersListed ==
  /\ NumUsers \in Nat
  /\ UserAt \in [1..NumUsers -> Users]
  /\ \A u \in Users : \E j \in 1..NumUsers : \A i \in 1..NumUsers : UserAt[i] = u <=> i = j
<1>1. NumUsers \in Nat /\ ExistsBijection(1..NumUsers, Users)
  BY VaultAssumption, FS_CardinalityType DEF NumUsers
<1>2. UserAt \in Bijection(1..NumUsers, Users)
  BY <1>1 DEF ExistsBijection, UserAt
<1> QED
  BY <1>1, <1>2 DEF Bijection, Injection, IsInjective, Surjection

\* the balances add up to a natural number
LEMMA TotalSharesNat ==
  ASSUME NEW b \in [Holders -> Nat]
  PROVE  /\ TotalShares(b) \in Nat
         /\ \A h \in Holders : b[h] <= TotalShares(b)
<1> DEFINE f == [i \in 1..NumUsers |-> b[UserAt[i]]]
<1>1. \A i \in 1..NumUsers : f[i] \in Nat
  BY UsersListed DEF Holders
<1> HIDE DEF f
<1>2. SumTo(f, NumUsers) \in Nat
  BY <1>1, UsersListed, SumToNat
<1>3. b[Queue] \in Nat /\ b[FeeRecipient] \in Nat
  BY DEF Holders
<1>4. TotalShares(b) = SumTo(f, NumUsers) + b[Queue] + b[FeeRecipient]
  BY DEF TotalShares, f
<1>5. ASSUME NEW u \in Users PROVE b[u] <= SumTo(f, NumUsers)
  <2>1. PICK j \in 1..NumUsers : UserAt[j] = u
    BY UsersListed
  <2>2. f[j] = b[u]
    BY <2>1 DEF f
  <2> QED
    BY <1>1, <2>2, UsersListed, SumToEntry
<1>6. ASSUME NEW h \in Holders PROVE b[h] <= TotalShares(b)
  <2>1. CASE h \in Users
    <3>1. b[h] \in Nat /\ b[h] <= SumTo(f, NumUsers)
      BY <1>5, <2>1
    <3> QED
      BY <1>2, <1>3, <1>4, <3>1
  <2>2. CASE h \in {Queue, FeeRecipient}
    BY <1>2, <1>3, <1>4, <2>2
  <2> QED
    BY <2>1, <2>2 DEF Holders
<1> QED
  BY <1>2, <1>3, <1>4, <1>6

\* a credit raises the total by as much
LEMMA TotalSharesCredit ==
  ASSUME NEW b \in [Holders -> Int], NEW h \in Holders, NEW d \in Int
  PROVE  /\ Credit(b, h, d) \in [Holders -> Int]
         /\ TotalShares(Credit(b, h, d)) = TotalShares(b) + d
<1> DEFINE c == Credit(b, h, d)
           f == [i \in 1..NumUsers |-> b[UserAt[i]]]
           g == [i \in 1..NumUsers |-> c[UserAt[i]]]
<1>1. c \in [Holders -> Int] /\ c[h] = b[h] + d /\ \A x \in Holders \ {h} : c[x] = b[x]
  BY DEF Credit
<1> HIDE DEF c
<1>2. /\ TotalShares(b) = SumTo(f, NumUsers) + b[Queue] + b[FeeRecipient]
      /\ TotalShares(c) = SumTo(g, NumUsers) + c[Queue] + c[FeeRecipient]
  BY DEF TotalShares
<1>3. \A i \in 1..NumUsers : f[i] \in Int /\ g[i] \in Int /\ UserAt[i] \in Users
  BY <1>1, UsersListed DEF Holders
<1>4. SumTo(f, NumUsers) \in Int /\ SumTo(g, NumUsers) \in Int
  BY <1>3, UsersListed, SumToInt
<1>5. /\ Queue \in Holders /\ FeeRecipient \in Holders /\ Queue # FeeRecipient
      /\ Queue \notin Users /\ FeeRecipient \notin Users
  BY VaultAssumption DEF Holders
<1>6. b[Queue] \in Int /\ b[FeeRecipient] \in Int
  BY <1>5
<1>7. CASE h \in Users
  <2>1. PICK j \in 1..NumUsers : \A i \in 1..NumUsers : UserAt[i] = h <=> i = j
    BY <1>7, UsersListed
  <2> DEFINE e == [i \in 1..NumUsers |-> IF i = j THEN d ELSE 0]
  <2>2. \A i \in 1..NumUsers : f[i] \in Int /\ e[i] \in Int /\ g[i] = f[i] + e[i]
    <3> SUFFICES ASSUME NEW i \in 1..NumUsers
                 PROVE  f[i] \in Int /\ e[i] \in Int /\ g[i] = f[i] + e[i]
      OBVIOUS
    <3>1. UserAt[i] \in Holders
      BY <1>3 DEF Holders
    <3>2. CASE i = j
      BY <1>1, <1>3, <2>1, <3>1, <3>2
    <3>3. CASE i # j
      BY <1>1, <1>3, <2>1, <3>1, <3>3
    <3> QED
      BY <3>2, <3>3
  <2>3. \A i \in 1..NumUsers : e[i] = IF i = j THEN d ELSE 0
    OBVIOUS
  <2> HIDE DEF e, f, g
  <2>0. NumUsers \in Nat
    BY UsersListed
  <2>4. SumTo(e, NumUsers) = d
    BY <2>3, <2>0, SumToSingle
  <2>5. SumTo(g, NumUsers) = SumTo(f, NumUsers) + SumTo(e, NumUsers)
    BY <2>2, <2>0, SumToPlus
  <2>6. c[Queue] = b[Queue] /\ c[FeeRecipient] = b[FeeRecipient]
    BY <1>1, <1>5, <1>7
  <2> QED
    BY <1>1, <1>2, <1>4, <1>6, <2>4, <2>5, <2>6 DEF c
<1>8. CASE h \notin Users
  <2>1. \A i \in 1..NumUsers : f[i] = g[i]
    BY <1>1, <1>3, <1>8 DEF Holders
  <2> HIDE DEF f, g
  <2>2. SumTo(g, NumUsers) = SumTo(f, NumUsers)
    BY <2>1, UsersListed, SumToSame
  <2>3. c[Queue] + c[FeeRecipient] = b[Queue] + b[FeeRecipient] + d
    <3>1. h = Queue \/ h = FeeRecipient
      BY <1>8 DEF Holders
    <3>2. CASE h = Queue
      BY <1>1, <1>5, <1>6, <3>2
    <3>3. CASE h = FeeRecipient
      BY <1>1, <1>5, <1>6, <3>3
    <3> QED
      BY <3>1, <3>2, <3>3
  <2>4. c[Queue] \in Int /\ c[FeeRecipient] \in Int
    BY <1>1, <1>5
  <2> QED
    BY <1>1, <1>2, <1>4, <1>6, <2>2, <2>3, <2>4 DEF c
<1> QED
  BY <1>7, <1>8

\* the initial balances add up to the initial supply
LEMMA TotalSharesInit ==
  ASSUME VaultInit
  PROVE  bal \in [Holders -> Nat] /\ TotalShares(bal) = supply
<1> DEFINE f == [i \in 1..NumUsers |-> bal[UserAt[i]]]
<1>1. bal \in [Holders -> Nat] /\ \A u \in Users : bal[u] = InitShares
  BY VaultAssumption DEF VaultInit, Holders
<1>2. bal[Queue] = 0 /\ bal[FeeRecipient] = 0
  BY VaultAssumption DEF VaultInit, Holders
<1>3. \A i \in 1..NumUsers : f[i] = InitShares
  BY <1>1, UsersListed
<1> HIDE DEF f
<1>4. SumTo(f, NumUsers) = InitShares * NumUsers
  BY <1>3, UsersListed, VaultAssumption, SumToConst
<1>5. TotalShares(bal) = SumTo(f, NumUsers) + bal[Queue] + bal[FeeRecipient]
  BY DEF TotalShares, f
<1>6. InitShares * NumUsers \in Nat
  BY UsersListed, VaultAssumption
<1> QED
  BY <1>1, <1>2, <1>4, <1>5, <1>6 DEF VaultInit, NumUsers

----------------------------------------------------------------------------
(* Every operation of the vault keeps it solvent and its ledger balanced *)

VaultInv ==
  /\ VaultTypeOK
  /\ StreamBacked
  /\ TotalShares(bal) = supply

\* the queue and the fee recipient hold shares and are no users
LEMMA HoldersAre ==
  /\ Queue \in Holders /\ FeeRecipient \in Holders /\ Queue # FeeRecipient
  /\ Users \subseteq Holders /\ Queue \notin Users
BY VaultAssumption DEF Holders

\* capping the stream leaves no more than there was, or than is held
LEMMA CappedIs ==
  ASSUME NEW s \in Nat, NEW h \in Nat, NEW o \in Nat
  PROVE  /\ Capped(s, h, o) \in Nat /\ Capped(s, h, o) <= s
         /\ Capped(s, h, o) <= Minus(h, o)
<1>1. StrandedRatio + 1 \in Nat \ {0}
  BY VaultAssumption
<1>2. Minus(h, o) \in Nat
  BY DEF Minus
<1>3. PICK b \in Nat \ {0} : b = StrandedRatio + 1
  BY <1>1
<1>4. PICK q \in Nat : q = FloorDiv(Minus(h, o), b) /\ b * q <= Minus(h, o)
  BY <1>2, <1>3, FloorDivIs
<1>5. q <= b * q
  BY <1>3, <1>4
<1>6. q <= Minus(h, o)
  BY <1>2, <1>3, <1>4, <1>5
<1> QED
  BY <1>2, <1>3, <1>4, <1>6 DEF Capped, Lesser

\* a checkpoint mints a natural number of shares
LEMMA FeesAreNat == FeesDue \subseteq Nat
BY VaultAssumption DEF FeesDue

\* a credit of a natural number keeps every balance a natural number
LEMMA CreditNat ==
  ASSUME NEW b \in [Holders -> Nat], NEW h \in Holders, NEW d \in Nat
  PROVE  /\ Credit(b, h, d) \in [Holders -> Nat]
         /\ TotalShares(Credit(b, h, d)) = TotalShares(b) + d
         /\ Credit(b, h, d)[Queue] >= b[Queue]
<1>1. Credit(b, h, d) \in [Holders -> Nat] /\ Credit(b, h, d)[Queue] >= b[Queue]
  BY HoldersAre DEF Credit
<1>2. b \in [Holders -> Int] /\ d \in Int
  OBVIOUS
<1> QED
  BY <1>1, <1>2, TotalSharesCredit

\* the balances after a transfer
Moved(b, x, y, s) == [b EXCEPT ![x] = @ - s, ![y] = @ + s]

\* a transfer of what the sender has keeps the total
LEMMA MoveShares ==
  ASSUME NEW b \in [Holders -> Nat], NEW x \in Holders, NEW y \in Holders, x # y,
         NEW s \in Nat, s <= b[x]
  PROVE  /\ Moved(b, x, y, s) \in [Holders -> Nat]
         /\ TotalShares(Moved(b, x, y, s)) = TotalShares(b)
         /\ x # Queue => Moved(b, x, y, s)[Queue] >= b[Queue]
         /\ y = Queue => Moved(b, x, y, s)[Queue] = b[Queue] + s
<1> DEFINE d == Credit(b, x, 0 - s)
<1>1. Moved(b, x, y, s) \in [Holders -> Nat]
  BY DEF Moved
<1>2. b \in [Holders -> Int] /\ 0 - s \in Int /\ s \in Int
  OBVIOUS
<1>3. d \in [Holders -> Int] /\ TotalShares(d) = TotalShares(b) + (0 - s)
  BY <1>2, TotalSharesCredit
<1>4. TotalShares(Credit(d, y, s)) = TotalShares(d) + s
  BY <1>2, <1>3, TotalSharesCredit
<1>5. Moved(b, x, y, s) = Credit(d, y, s)
  <2>1. \A h \in Holders : Moved(b, x, y, s)[h] = Credit(d, y, s)[h]
    BY DEF Credit, Moved
  <2>2. Credit(d, y, s) \in [Holders -> Int]
    BY <1>3, <1>2 DEF Credit
  <2> QED
    BY <1>1, <2>1, <2>2
<1>6. TotalShares(b) \in Nat
  BY TotalSharesNat
<1>7. TotalShares(Moved(b, x, y, s)) = TotalShares(b)
  BY <1>3, <1>4, <1>5, <1>6
<1>8. x # Queue => Moved(b, x, y, s)[Queue] >= b[Queue]
  BY HoldersAre DEF Moved
<1>9. y = Queue => Moved(b, x, y, s)[Queue] = b[Queue] + s
  BY HoldersAre DEF Moved
<1> QED
  BY <1>1, <1>7, <1>8, <1>9

\* the vault starts within its invariant
LEMMA VaultInitInv == VaultInit => VaultInv
<1> SUFFICES ASSUME VaultInit PROVE VaultInv
  OBVIOUS
<1>1. VaultTypeOK
  <2>1. bal \in [Holders -> Nat]
    BY TotalSharesInit
  <2>2. supply \in Nat
    BY UsersListed, VaultAssumption DEF VaultInit, NumUsers
  <2> QED
    BY <2>1, <2>2, VaultAssumption DEF VaultInit, VaultTypeOK
<1>2. StreamBacked
  BY VaultAssumption DEF VaultInit, StreamBacked
<1> QED
  BY <1>1, <1>2, TotalSharesInit DEF VaultInv

\* a checkpoint, and what it mints after it, keep the ledger balanced
LEMMA CheckpointKeeps ==
  ASSUME VaultInv, NEW f \in FeesDue,
         supply' = supply + f, bal' = Credit(bal, FeeRecipient, f)
  PROVE  /\ bal' \in [Holders -> Nat] /\ supply' \in Nat
         /\ TotalShares(bal') = supply'
         /\ bal'[Queue] >= bal[Queue]
<1>1. bal \in [Holders -> Nat] /\ supply \in Nat /\ TotalShares(bal) = supply
  BY DEF VaultInv, VaultTypeOK
<1>2. f \in Nat
  BY FeesAreNat
<1> QED
  BY <1>1, <1>2, HoldersAre, CreditNat

\* an entry, fees included, keeps the ledger balanced
LEMMA EntryKeeps ==
  ASSUME VaultInv, NEW f \in FeesDue, NEW u \in Users, NEW s \in Nat,
         supply' = supply + f + s,
         bal' = Credit(Credit(bal, FeeRecipient, f), u, s)
  PROVE  /\ bal' \in [Holders -> Nat] /\ supply' \in Nat
         /\ TotalShares(bal') = supply'
         /\ bal'[Queue] >= bal[Queue]
<1> DEFINE b == Credit(bal, FeeRecipient, f)
<1>1. bal \in [Holders -> Nat] /\ supply \in Nat /\ TotalShares(bal) = supply
  BY DEF VaultInv, VaultTypeOK
<1>2. f \in Nat /\ u \in Holders /\ FeeRecipient \in Holders /\ Queue \in Holders
  BY FeesAreNat, HoldersAre
<1>3. b \in [Holders -> Nat] /\ TotalShares(b) = supply + f /\ b[Queue] >= bal[Queue]
  BY <1>1, <1>2, CreditNat
<1>4. bal' = Credit(b, u, s)
  OBVIOUS
<1> HIDE DEF b
<1>5. bal' \in [Holders -> Nat] /\ TotalShares(bal') = supply + f + s /\ bal'[Queue] >= b[Queue]
  BY <1>2, <1>3, <1>4, CreditNat
<1> QED
  BY <1>1, <1>2, <1>3, <1>5

\* what an exact-share entry costs
LEMMA MintNat ==
  ASSUME NEW p \in PriceRecord, NEW s \in Nat
  PROVE  AssetsToMint(p, s) \in Nat
<1> DEFINE n == s * p.assets
<1>1. n \in Nat
  BY DEF PriceRecord
<1>2. p.shares \in Nat \ {0}
  BY DEF PriceRecord
<1> HIDE DEF n
<1>3. n + p.shares - 1 \in Nat
  BY <1>1, <1>2
<1>4. FloorDiv(n + p.shares - 1, p.shares) \in Nat
  BY <1>2, <1>3, FloorDivIs
<1> QED
  BY <1>4 DEF AssetsToMint, CeilDiv, FloorDiv, n

\* an entry mints a natural number of shares for a natural amount
LEMMA EntryMinted ==
  ASSUME VaultInv, NEW f \in FeesDue, NEW a \in Nat
  PROVE  /\ SharesFor(Price(EntryAssets, supply + f), a) \in Nat
         /\ AssetsToMint(Price(EntryAssets, supply + f), a) \in Nat
<1>1. held \in Nat /\ supply + f \in Nat /\ VirtualShares \in Nat \ {0}
  BY FeesAreNat, VaultAssumption DEF VaultInv, VaultTypeOK
<1>2. Price(EntryAssets, supply + f) \in PriceRecord
  BY <1>1, PriceIs DEF EntryAssets
<1> QED
  BY <1>2, SharesForIs, MintNat

\* every operation of the vault keeps its types, its stream backed and its
\* ledger balanced, and takes no share from the queue
LEMMA VaultStep ==
  ASSUME VaultInv, VaultNext
  PROVE  /\ VaultTypeOK' /\ StreamBacked'
         /\ TotalShares(bal') = supply'
         /\ bal'[Queue] >= bal[Queue]
<1> DEFINE Ledger == /\ bal' \in [Holders -> Nat] /\ supply' \in Nat
                     /\ TotalShares(bal') = supply'
                     /\ bal'[Queue] >= bal[Queue]
           Stock == /\ held' \in Nat /\ stream' \in Nat /\ stream' <= held'
                    /\ mark' \in Nat /\ vesting' \in BOOLEAN
                    /\ halts' \subseteq Halts /\ sanctioned' \subseteq SanctionTargets
<1>1. /\ bal \in [Holders -> Nat] /\ supply \in Nat /\ TotalShares(bal) = supply
      /\ bal[Queue] \in Nat
      /\ held \in Nat /\ stream \in Nat /\ stream <= held
      /\ mark \in Nat /\ vesting \in BOOLEAN
      /\ halts \subseteq Halts /\ sanctioned \subseteq SanctionTargets
  BY HoldersAre DEF VaultInv, VaultTypeOK, StreamBacked
<1>2. SUFFICES Ledger /\ Stock
  BY DEF VaultTypeOK, StreamBacked
<1>3. CASE AccrueFees
  <2>1. Ledger
    BY <1>3, CheckpointKeeps DEF AccrueFees
  <2>2. Stock
    BY <1>1, <1>3 DEF AccrueFees
  <2> QED
    BY <2>1, <2>2
<1>4. ASSUME NEW u \in Users, NEW a \in Amounts, Deposit(u, a)
      PROVE  Ledger /\ Stock
  <2>1. a \in Nat
    BY VaultAssumption
  <2>2. PICK f \in FeesDue :
          LET s == SharesFor(Price(EntryAssets, supply + f), a)
          IN  /\ supply' = supply + f + s
              /\ bal' = Credit(Credit(bal, FeeRecipient, f), u, s)
    BY <1>4 DEF Deposit
  <2>3. Ledger
    BY <2>1, <2>2, EntryMinted, EntryKeeps
  <2>4. Stock
    BY <1>1, <1>4, <2>1 DEF Deposit
  <2> QED
    BY <2>3, <2>4
<1>5. ASSUME NEW u \in Users, NEW s \in Moves, Mint(u, s)
      PROVE  Ledger /\ Stock
  <2>1. s \in Nat
    BY VaultAssumption
  <2>2. PICK f \in FeesDue :
          /\ supply' = supply + f + s
          /\ bal' = Credit(Credit(bal, FeeRecipient, f), u, s)
          /\ held' = held + AssetsToMint(Price(EntryAssets, supply + f), s)
    BY <1>5 DEF Mint
  <2>3. Ledger
    BY <2>1, <2>2, EntryKeeps
  <2>4. AssetsToMint(Price(EntryAssets, supply + f), s) \in Nat
    BY <2>1, EntryMinted
  <2>5. Stock
    BY <1>1, <1>5, <2>2, <2>4 DEF Mint
  <2> QED
    BY <2>3, <2>5
<1>6. ASSUME NEW u \in Users, NEW to \in Holders, NEW s \in Moves, Transfer(u, to, s)
      PROVE  Ledger /\ Stock
  <2>1. /\ s \in Nat /\ u \in Holders /\ u # to /\ u # Queue /\ s <= bal[u]
        /\ bal' = Moved(bal, u, to, s)
    BY <1>1, <1>6, HoldersAre, VaultAssumption DEF Transfer, Moved
  <2>2. bal' \in [Holders -> Nat] /\ TotalShares(bal') = TotalShares(bal) /\ bal'[Queue] >= bal[Queue]
    BY <1>1, <1>6, <2>1, MoveShares
  <2>4. Ledger
    BY <1>1, <1>6, <2>2 DEF Transfer
  <2>3. Stock
    BY <1>1, <1>6 DEF Transfer
  <2> QED
    BY <2>4, <2>3
<1>7. ASSUME NEW a \in Amounts, NotifyYield(a)
      PROVE  Ledger /\ Stock
  <2>1. a \in Nat
    BY VaultAssumption
  <2>2. Ledger
    BY <1>7, CheckpointKeeps DEF NotifyYield
  <2>3. /\ Capped(stream + a, held + a, 0) \in Nat
        /\ Capped(stream + a, held + a, 0) <= stream + a
    <3>1. stream + a \in Nat /\ held + a \in Nat /\ 0 \in Nat
      BY <1>1, <2>1
    <3> QED
      BY <3>1, CappedIs
  <2>4. Stock
    BY <1>1, <1>7, <2>1, <2>3 DEF NotifyYield
  <2> QED
    BY <2>2, <2>4
<1>8. ASSUME NEW a \in Amounts, Donate(a) \/ BurnSeniorLoss(a)
      PROVE  Ledger /\ Stock
  <2>1. a \in Nat
    BY VaultAssumption
  <2>2. Ledger
    <3>1. CASE Donate(a)
      BY <1>1, <3>1 DEF Donate
    <3>2. CASE BurnSeniorLoss(a)
      BY <3>2, CheckpointKeeps DEF BurnSeniorLoss
    <3> QED
      BY <1>8, <3>1, <3>2
  <2>3. Stock
    <3>1. CASE Donate(a)
      BY <1>1, <2>1, <3>1 DEF Donate
    <3>2. CASE BurnSeniorLoss(a)
      <4>1. a <= MaxSeniorBurn /\ held' = held - a
        BY <3>2 DEF BurnSeniorLoss
      <4>2. held' \in Nat /\ stream <= held'
        BY <1>1, <2>1, <4>1 DEF MaxSeniorBurn, TotalAssets, Vested, Minus
      <4>3. mark' \in Nat
        BY <3>2, VaultAssumption DEF BurnSeniorLoss
      <4>4. /\ stream' = stream /\ vesting' = vesting
            /\ halts' = halts /\ sanctioned' = sanctioned
        BY <3>2 DEF BurnSeniorLoss
      <4> QED
        BY <1>1, <4>2, <4>3, <4>4
    <3> QED
      BY <1>8, <3>1, <3>2
  <2> QED
    BY <2>2, <2>3
<1>9. ASSUME NEW m \in Marks, Declare(m)
      PROVE  Ledger /\ Stock
  BY <1>1, <1>9, VaultAssumption DEF Declare
<1>10. ASSUME NEW on \in VestingModes, SetVesting(on)
       PROVE  Ledger /\ Stock
  <2>1. Ledger
    BY <1>10, CheckpointKeeps DEF SetVesting
  <2>2. Stock
    BY <1>1, <1>10, VaultAssumption DEF SetVesting
  <2> QED
    BY <2>1, <2>2
<1>11. ASSUME NEW h \in Halts, Halt(h)
       PROVE  Ledger /\ Stock
  BY <1>1, <1>11 DEF Halt
<1>12. ASSUME NEW u \in SanctionTargets, Sanction(u)
       PROVE  Ledger /\ Stock
  BY <1>1, <1>12 DEF Sanction
<1> HIDE DEF Ledger, Stock
<1> QED
  BY <1>3, <1>4, <1>5, <1>6, <1>7, <1>8, <1>9, <1>10, <1>11, <1>12 DEF VaultNext

----------------------------------------------------------------------------
(* The selection of a batch *)

\* previewWithdraw is a number of shares
LEMMA WithdrawNat ==
  ASSUME NEW p \in PriceRecord, NEW a \in Nat
  PROVE  SharesToWithdraw(p, a) \in Nat
<1>1. p.assets \in Nat \ {0} /\ p.shares \in Nat \ {0}
  BY DEF PriceRecord
<1>2. PICK n \in Nat : n = a * p.shares
  BY <1>1
<1>3. n + p.assets - 1 \in Nat
  BY <1>1, <1>2
<1>4. FloorDiv(n + p.assets - 1, p.assets) \in Nat
  BY <1>1, <1>3, FloorDivIs
<1> QED
  BY <1>2, <1>4 DEF SharesToWithdraw, CeilDiv, FloorDiv

\* _safeBatchFill never takes more than the request has
LEMMA SafeFillOK ==
  ASSUME NEW p \in PriceRecord, NEW b, NEW prior, NEW room \in Nat, NEW wanted \in Nat
  PROVE  /\ SafeFill(p, b, prior, room, wanted).shares \in Nat
         /\ SafeFill(p, b, prior, room, wanted).shares <= wanted
<1>1. MinResidueValue \in Nat
  BY QueueAssumption
<1>2. PICK residue \in Nat : residue = SharesToWithdraw(p, MinResidueValue)
  BY <1>1, WithdrawNat
<1>3. Lesser(wanted, room) \in Nat /\ Lesser(wanted, room) <= wanted
  BY DEF Lesser
<1>4. Minus(wanted, residue) \in Nat /\ Minus(wanted, residue) <= wanted
  BY <1>2 DEF Minus
<1>5. SafeFill(p, b, prior, room, wanted).shares
        \in {Lesser(wanted, room), wanted, Minus(wanted, residue)}
  BY <1>2 DEF SafeFill
<1> QED
  BY <1>3, <1>4, <1>5

\* sums over the requests
Shares(r) == [i \in 1..Len(r) |-> r[i].shares]
Claims(r) == [i \in 1..Len(r) |-> r[i].claimable]

\* the parts of a request, and the sums over the book, are natural numbers
LEMMA BookSums ==
  ASSUME requests \in Seq(Request)
  PROVE  /\ NumRequests \in Nat
         /\ \A i \in 1..NumRequests :
              /\ requests[i] \in Request
              /\ Shares(requests)[i] = requests[i].shares /\ Shares(requests)[i] \in Nat
              /\ Claims(requests)[i] = requests[i].claimable /\ Claims(requests)[i] \in Nat
         /\ \A n \in 0..NumRequests :
              /\ Asked(n) = SumTo(Shares(requests), n) /\ Asked(n) \in Nat
              /\ Claimable(n) = SumTo(Claims(requests), n) /\ Claimable(n) \in Nat
<1>1. NumRequests \in Nat /\ \A i \in 1..NumRequests : requests[i] \in Request
  BY DEF NumRequests
<1>2. \A i \in 1..NumRequests :
        /\ Shares(requests)[i] = requests[i].shares /\ Shares(requests)[i] \in Nat
        /\ Claims(requests)[i] = requests[i].claimable /\ Claims(requests)[i] \in Nat
  BY <1>1 DEF Shares, Claims, Request, NumRequests
<1>3. ASSUME NEW n \in 0..NumRequests
      PROVE  SumTo(Shares(requests), n) \in Nat /\ SumTo(Claims(requests), n) \in Nat
  <2>1. n \in Nat /\ \A k \in 1..n : k \in 1..NumRequests
    BY <1>1
  <2> QED
    BY <1>2, <2>1, SumToNat
<1> QED
  BY <1>1, <1>2, <1>3 DEF Asked, Claimable, Shares, Claims, NumRequests

\* what every batch the selection returns looks like: a prefix of the live
\* requests, each filled whole but perhaps the last
GoodBatch(batch) ==
  /\ batch.last \in (head - 1)..NumRequests
  /\ batch.fill \in [1..NumRequests -> Nat]
  /\ \A i \in 1..NumRequests :
       /\ batch.fill[i] <= requests[i].shares
       /\ i \notin head..batch.last => batch.fill[i] = 0
       /\ i \in head..(batch.last - 1) => batch.fill[i] = requests[i].shares

\* a batch described by its fills and its last request is a good one
LEMMA BatchOK ==
  ASSUME requests \in Seq(Request), head \in Nat \ {0},
         NEW last \in (head - 1)..NumRequests, NEW f, NEW batch,
         \A i \in head..last : f[i] \in Nat /\ f[i] <= requests[i].shares,
         \A i \in head..(last - 1) : f[i] = requests[i].shares,
         batch.last = last,
         batch.fill = [i \in 1..NumRequests |-> IF i \in head..last THEN f[i] ELSE 0]
  PROVE  GoodBatch(batch)
<1>1. \A i \in 1..NumRequests : requests[i].shares \in Nat
  BY BookSums
<1>2. NumRequests \in Nat
  BY BookSums
<1> QED
  BY <1>1, <1>2 DEF GoodBatch

\* a request taken from the selection gives up no more than it has
LEMMA TakenOK ==
  ASSUME requests \in Seq(Request), head \in Nat \ {0},
         NEW p \in PriceRecord, NEW b \in Nat,
         NEW i \in head..NumRequests, Taken(p, b, i)
  PROVE  FillAt(p, b, i).shares \in Nat /\ FillAt(p, b, i).shares <= requests[i].shares
<1>1. NumRequests \in Nat
  BY BookSums
<1>2. i - 1 \in 0..NumRequests /\ head - 1 \in 0..NumRequests /\ i \in 1..NumRequests
  BY <1>1
<1>3. Asked(i - 1) \in Nat /\ Asked(head - 1) \in Nat /\ requests[i].shares \in Nat
  BY <1>2, BookSums
<1>4. SharesFor(p, b) \in Nat
  BY SharesForIs
<1>5. SharesFor(p, b) - Prior(i) \in Nat
  BY <1>3, <1>4 DEF Taken, Prior
<1>6. PICK room \in Nat : room = SharesFor(p, b) - Prior(i)
  BY <1>5
<1>7. PICK wanted \in Nat : wanted = requests[i].shares
  BY <1>3
<1>8. /\ SafeFill(p, b, Prior(i), room, wanted).shares \in Nat
      /\ SafeFill(p, b, Prior(i), room, wanted).shares <= wanted
  BY SafeFillOK
<1> QED
  BY <1>6, <1>7, <1>8 DEF FillAt

\* _selectPricingBatch returns a good batch
LEMMA SelectBatchOK ==
  ASSUME requests \in Seq(Request), head \in Nat \ {0}, head <= NumRequests + 1,
         NEW p \in PriceRecord, NEW b \in Nat, NEW max \in Nat \ {0}
  PROVE  GoodBatch(SelectBatch(p, b, max))
<1> DEFINE end  == Lesser(NumRequests, head + max - 1)
           ends == {i \in head..end : ~TakenWhole(p, b, i)}
           x    == Min(ends)
           f    == [i \in 1..NumRequests |-> FillAt(p, b, i).shares]
           w    == [i \in 1..NumRequests |-> requests[i].shares]
           batch == SelectBatch(p, b, max)
<1>1. NumRequests \in Nat /\ \A i \in 1..NumRequests : requests[i].shares \in Nat
  BY BookSums
<1>2. end \in Nat /\ end <= NumRequests
  BY <1>1 DEF Lesser
<1> HIDE DEF end
<1>3. \A i \in 1..NumRequests : w[i] = requests[i].shares /\ f[i] = FillAt(p, b, i).shares
  OBVIOUS
<1>4. CASE end < head \/ SharesFor(p, b) = 0
  <2>1. /\ batch.last = head - 1
        /\ batch.fill = [i \in 1..NumRequests |-> IF i \in head..(head - 1) THEN w[i] ELSE 0]
    BY <1>3, <1>4 DEF SelectBatch, Batch, end
  <2> HIDE DEF w, f, batch
  <2>2. /\ head - 1 \in (head - 1)..NumRequests
        /\ \A i \in head..(head - 1) : FALSE
        /\ \A i \in head..((head - 1) - 1) : FALSE
    BY <1>1
  <2>3. GoodBatch(batch)
    BY <2>1, <2>2, BatchOK
  <2> QED
    BY <2>3 DEF batch
<1>5. CASE ~(end < head) /\ SharesFor(p, b) # 0 /\ ends = {}
  <2>1. /\ batch.last = end
        /\ batch.fill = [i \in 1..NumRequests |-> IF i \in head..end THEN w[i] ELSE 0]
    <3>1. batch = [last |-> end, stop |-> "chunk", withheld |-> 0,
                   fill |-> [i \in 1..NumRequests |-> IF i \in head..end THEN requests[i].shares ELSE 0]]
      BY <1>5, Zenon DEF SelectBatch, Batch, end
    <3> HIDE DEF batch
    <3> QED
      BY <1>3, <3>1
  <2>2. end \in (head - 1)..NumRequests
    BY <1>1, <1>2, <1>5
  <2>3. /\ \A i \in head..end : w[i] \in Nat /\ w[i] <= requests[i].shares
        /\ \A i \in head..(end - 1) : w[i] = requests[i].shares
    BY <1>1, <1>2, <1>3
  <2> HIDE DEF w, f, batch
  <2>4. GoodBatch(batch)
    BY <2>1, <2>2, <2>3, BatchOK
  <2> QED
    BY <2>4 DEF batch
<1>6. CASE ~(end < head) /\ SharesFor(p, b) # 0 /\ ends # {}
  <2> DEFINE last == IF Taken(p, b, x) THEN x ELSE x - 1
  <2>1. x \in ends /\ \A y \in ends : x <= y
    <3>1. ends \in SUBSET Nat
      BY <1>2
    <3> QED
      BY <1>6, <3>1, LeastElement DEF Min
  <2>2. /\ batch.last = last
        /\ batch.fill = [i \in 1..NumRequests |-> IF i \in head..last THEN f[i] ELSE 0]
    <3>1. batch = Batch(last, StopAt(p, b, x),
                        IF Eligible(x) /\ SharesFor(p, b) > Prior(x) THEN FillAt(p, b, x).withheld ELSE 0,
                        LAMBDA i : FillAt(p, b, i).shares)
      BY <1>6, Zenon DEF SelectBatch, Batch, end
    <3> HIDE DEF batch, x, last
    <3>2. /\ batch.last = last
          /\ batch.fill = [i \in 1..NumRequests |-> IF i \in head..last THEN FillAt(p, b, i).shares ELSE 0]
      BY <3>1 DEF Batch
    <3> QED
      BY <1>3, <3>2
  <2>3. x \in head..NumRequests
    BY <1>1, <1>2, <2>1
  <2>4. last \in (head - 1)..NumRequests
    BY <1>1, <2>3
  <2>5. \A i \in head..(x - 1) : TakenWhole(p, b, i)
    BY <1>2, <2>1
  <2>6. ASSUME NEW i \in head..last
        PROVE  f[i] \in Nat /\ f[i] <= requests[i].shares
    <3>1. i \in head..NumRequests /\ Taken(p, b, i)
      BY <1>1, <2>3, <2>5 DEF TakenWhole
    <3> QED
      BY <1>3, <3>1, TakenOK
  <2>7. ASSUME NEW i \in head..(last - 1)
        PROVE  f[i] = requests[i].shares
    <3>1. i \in 1..NumRequests /\ TakenWhole(p, b, i)
      BY <1>1, <2>3, <2>5
    <3> QED
      BY <1>3, <3>1 DEF TakenWhole
  <2> HIDE DEF f, batch, x, last
  <2>8. GoodBatch(batch)
    BY <2>2, <2>4, <2>6, <2>7, BatchOK
  <2> QED
    BY <2>8 DEF batch
<1> QED
  BY <1>2, <1>4, <1>5, <1>6

----------------------------------------------------------------------------
(* The receipt of a batch *)

\* no shares quote no assets
LEMMA NothingForNothing ==
  ASSUME NEW p \in PriceRecord
  PROVE  AssetsFor(p, 0) = 0
<1>1. PICK S \in Nat \ {0} : S = p.shares
  BY DEF PriceRecord
<1>2. PICK A \in Nat \ {0} : A = p.assets
  BY DEF PriceRecord
<1>3. PICK q \in Nat : q = AssetsFor(p, 0) /\ S * q <= 0 * A
  BY <1>1, <1>2, AssetsForIs
<1>4. q = 0
  BY <1>1, <1>2, <1>3
<1> QED
  BY <1>3, <1>4

\* a good batch takes a natural number of shares, no more than are asked for
LEMMA BatchSharesOK ==
  ASSUME requests \in Seq(Request), head \in Nat \ {0}, NEW batch, GoodBatch(batch)
  PROVE  /\ BatchShares(batch) \in Nat
         /\ BatchShares(batch) <= Asked(NumRequests)
         /\ BatchShares(batch) # 0 => batch.last \in head..NumRequests
<1>1. NumRequests \in Nat
  BY BookSums
<1>2. \A k \in 1..NumRequests :
        /\ batch.fill[k] \in Nat /\ Shares(requests)[k] \in Nat
        /\ batch.fill[k] <= Shares(requests)[k]
  BY BookSums DEF GoodBatch
<1>3. BatchShares(batch) \in Nat
  BY <1>1, <1>2, SumToNat DEF BatchShares
<1>4. SumTo(batch.fill, NumRequests) <= SumTo(Shares(requests), NumRequests)
  BY <1>1, <1>2, SumToOrdered
<1>5. Asked(NumRequests) = SumTo(Shares(requests), NumRequests)
  BY <1>1, BookSums
<1>6. ASSUME batch.last \notin head..NumRequests
      PROVE  BatchShares(batch) = 0
  <2>1. \A k \in 1..NumRequests : batch.fill[k] = 0
    BY <1>1, <1>6 DEF GoodBatch
  <2>2. SumTo(batch.fill, NumRequests) = 0 * NumRequests
    BY <1>1, <2>1, SumToConst
  <2> QED
    BY <1>1, <2>2 DEF BatchShares
<1> QED
  BY <1>3, <1>4, <1>5, <1>6 DEF BatchShares

\* _allocateBatchReceipt hands out the receipt, all of it and nothing else
THEOREM ReceiptAllocated ==
  ASSUME requests \in Seq(Request), head \in Nat \ {0}, NEW batch, GoodBatch(batch),
         batch.last \in head..NumRequests, NEW p \in PriceRecord,
         NEW received \in Nat, received = AssetsFor(p, BatchShares(batch))
  PROVE  /\ \A i \in 1..NumRequests : Payout(p, batch, received, i) \in Nat
         /\ SumTo([i \in 1..NumRequests |-> Payout(p, batch, received, i)], NumRequests) = received
<1> DEFINE quote == [i \in 1..NumRequests |-> AssetsFor(p, batch.fill[i])]
           pay   == [i \in 1..NumRequests |-> Payout(p, batch, received, i)]
<1>1. NumRequests \in Nat
  BY BookSums
<1>2. PICK last \in 1..NumRequests : last = batch.last
  BY <1>1
<1>3. \A k \in 1..NumRequests : batch.fill[k] \in Nat /\ quote[k] = AssetsFor(p, batch.fill[k])
  BY DEF GoodBatch
<1>4. \A k \in 1..NumRequests : quote[k] \in Nat
  BY <1>3, AssetsForIs
<1>5. \A k \in 1..NumRequests : pay[k] = Payout(p, batch, received, k)
  OBVIOUS
<1>6. QuotedBefore(p, batch) = SumTo(quote, last - 1)
  BY <1>2 DEF QuotedBefore
<1>7. \A k \in 1..NumRequests : k > last => batch.fill[k] = 0
  BY <1>2 DEF GoodBatch
<1> HIDE DEF quote, pay
<1>8. SumTo(quote, NumRequests) <= received
  BY <1>1, <1>3, QuotesWithinReceipt DEF BatchShares
<1>9. SumTo(quote, last - 1) \in Nat /\ SumTo(quote, last - 1) <= received
  <2>1. last - 1 \in Nat /\ last - 1 \in 0..NumRequests
    BY <1>1
  <2>2. SumTo(quote, last - 1) <= SumTo(quote, NumRequests)
    BY <1>1, <1>4, <2>1, SumToGrows
  <2>3. \A k \in 1..(last - 1) : quote[k] \in Nat
    BY <1>1, <1>4, <2>1
  <2>4. SumTo(quote, last - 1) \in Nat /\ SumTo(quote, NumRequests) \in Nat
    BY <1>1, <1>4, <2>1, <2>3, SumToNat
  <2> QED
    BY <1>8, <2>2, <2>4
<1>10. \A k \in 1..NumRequests : pay[k] = IF k = last THEN received - SumTo(quote, last - 1) ELSE quote[k]
  BY <1>2, <1>3, <1>5, <1>6 DEF Payout
<1>11. \A k \in 1..NumRequests : pay[k] \in Nat
  BY <1>4, <1>9, <1>10
<1>12. SumTo(pay, NumRequests) = received
  <2>1. last \in Nat /\ last # 0 /\ last - 1 \in Nat /\ last \in 0..NumRequests
    BY <1>1
  <2>2. \A k \in 1..(last - 1) : pay[k] = quote[k]
    BY <1>1, <1>10
  <2>3. SumTo(pay, last - 1) = SumTo(quote, last - 1)
    BY <2>1, <2>2, SumToSame
  <2>4. SumTo(pay, last) = SumTo(pay, last - 1) + pay[last]
    BY <2>1, SumToStep
  <2>5. SumTo(pay, last) = received
    BY <1>9, <1>10, <2>3, <2>4
  <2>6. \A k \in 1..NumRequests : pay[k] \in Int /\ (k > last => pay[k] = 0)
    <3>1. \A k \in 1..NumRequests : k > last => quote[k] = 0
      BY <1>3, <1>7, NothingForNothing
    <3> QED
      BY <1>1, <1>10, <1>11, <3>1
  <2>7. SumTo(pay, NumRequests) = SumTo(pay, last)
    BY <1>1, <2>1, <2>6, SumToTail
  <2> QED
    BY <2>5, <2>7
<1> QED
  BY <1>5, <1>11, <1>12 DEF pay

----------------------------------------------------------------------------
(* The inductive invariant *)

\* The invariants the runs check lean on one another: custody bounds what a
\* batch burns, the ledger bounds custody by the supply, and with the supply
\* a receipt never exceeds what has vested.
IInv ==
  /\ TypeOK
  /\ StreamBacked
  /\ TotalShares(bal) = supply
  /\ Custody
  /\ FifoHead
  /\ BudgetBound
  /\ FloorReachable

\* the terms of one closeEpoch call are natural numbers
LEMMA CallTerms ==
  ASSUME IInv, NEW f \in FeesDue
  PROVE  /\ Released \in Nat /\ Released <= stream
         /\ ExitAssets(held, Released, mark) \in Nat
         /\ ExitAssets(held, Released, mark) <= held
         /\ CallPrice(f) \in PriceRecord
         /\ CallPrice(f).assets = ExitAssets(held, Released, mark) + 1
         /\ CallPrice(f).shares = supply + f + VirtualShares
         /\ CallBudget \in Nat /\ CallDistributed \in Nat /\ CallFloor \in Nat
<1>1. /\ held \in Nat /\ stream \in Nat /\ mark \in Nat /\ supply \in Nat
      /\ budget \in Nat /\ distributed \in Nat /\ minAtOpen \in Nat /\ minValue \in Nat
      /\ idle \in Nat /\ liquidityBps \in Nat
  BY DEF IInv, TypeOK, VaultTypeOK
<1>2. Available \in Nat
  <2>1. PICK a \in Nat : a = idle * liquidityBps
    BY <1>1
  <2> QED
    BY <2>1, FloorDivIs, QueueAssumption DEF Available
<1>3. CallBudget \in Nat /\ CallDistributed \in Nat /\ CallFloor \in Nat
  BY <1>1, <1>2 DEF CallBudget, CallDistributed, CallFloor, Lesser
<1>4. Released \in Nat /\ Released <= stream
  BY <1>1, <1>3, CappedIs DEF Released
<1>5. ExitAssets(held, Released, mark) \in Nat /\ ExitAssets(held, Released, mark) <= held
  BY <1>1, <1>4 DEF ExitAssets, Vested, Minus
<1>6. f \in Nat /\ supply + f \in Nat
  BY <1>1, FeesAreNat
<1>7. CallPrice(f) \in PriceRecord
  BY <1>5, <1>6, PriceIs, VaultAssumption DEF CallPrice
<1> QED
  BY <1>3, <1>4, <1>5, <1>7 DEF CallPrice, Price

\* what one batch does to the vault
LEMMA ExecuteVault ==
  ASSUME IInv, NEW f \in FeesDue, NEW b \in Nat, NEW batch, GoodBatch(batch),
         Execute(CallPrice(f), b, batch, f, Released)
  PROVE  /\ bal' \in [Holders -> Nat] /\ supply' \in Nat
         /\ TotalShares(bal') = supply'
         /\ bal'[Queue] >= bal[Queue] - BatchShares(batch)
         /\ held' \in Nat /\ stream' \in Nat /\ stream' <= held'
         /\ AssetsFor(CallPrice(f), BatchShares(batch)) \in Nat
         /\ AssetsFor(CallPrice(f), BatchShares(batch)) <= b
<1> DEFINE c == Credit(bal, FeeRecipient, f)
           p == CallPrice(f)
           burned == BatchShares(batch)
           received == AssetsFor(p, burned)
<1>1. /\ bal \in [Holders -> Nat] /\ supply \in Nat /\ TotalShares(bal) = supply
      /\ held \in Nat /\ stream \in Nat /\ stream <= held /\ mark \in Nat
      /\ requests \in Seq(Request) /\ head \in Nat \ {0}
  BY DEF IInv, TypeOK, VaultTypeOK, StreamBacked
<1>2. f \in Nat /\ FeeRecipient \in Holders /\ Queue \in Holders
  BY FeesAreNat, HoldersAre
<1>3. c \in [Holders -> Nat] /\ TotalShares(c) = supply + f /\ c[Queue] >= bal[Queue]
  BY <1>1, <1>2, CreditNat
<1>4. burned \in Nat
  BY <1>1, BatchSharesOK
<1>5. /\ p \in PriceRecord /\ p.shares = supply + f + VirtualShares
      /\ p.assets = ExitAssets(held, Released, mark) + 1
      /\ ExitAssets(held, Released, mark) \in Nat /\ ExitAssets(held, Released, mark) <= held
      /\ Released \in Nat /\ Released <= stream
  BY CallTerms
<1> HIDE DEF c, p, burned
<1>6. received \in Nat
  BY <1>4, <1>5, AssetsForIs
<1>7. CASE burned = 0
  <2>1. received = 0
    BY <1>5, <1>7, NothingForNothing
  <2>2. supply' = supply + f /\ bal' = c /\ stream' = Released /\ held' = held
    BY <1>7 DEF Execute, burned, c
  <2> QED
    BY <1>1, <1>2, <1>3, <1>5, <1>7, <2>1, <2>2 DEF burned, p
<1>8. CASE burned # 0
  <2>1. /\ received <= b /\ burned <= bal[Queue]
        /\ supply' = supply + f - burned
        /\ bal' = [c EXCEPT ![Queue] = @ - burned]
        /\ held' = held - received
        /\ stream' = Capped(Released, held, received)
    BY <1>8 DEF Execute, burned, c, p
  <2>2. bal[Queue] <= supply
    BY <1>1, <1>2, TotalSharesNat
  <2>3. burned < p.shares
    BY <1>1, <1>2, <1>4, <1>5, <2>1, <2>2, VaultAssumption
  <2>4. received < p.assets
    BY <1>4, <1>5, <2>3, ExitCovered
  <2>5. received <= held
    BY <1>1, <1>5, <1>6, <2>4
  <2>6. held' \in Nat /\ stream' \in Nat /\ stream' <= held'
    <3>1. Minus(held, received) \in Nat /\ Minus(held, received) <= held - received
      BY <1>1, <1>6, <2>5 DEF Minus
    <3>2. /\ Capped(Released, held, received) \in Nat
          /\ Capped(Released, held, received) <= Minus(held, received)
      BY <1>1, <1>5, <1>6, CappedIs
    <3> QED
      BY <1>1, <1>6, <2>1, <2>5, <3>1, <3>2
  <2>7. /\ bal' \in [Holders -> Nat] /\ TotalShares(bal') = supply'
        /\ bal'[Queue] >= bal[Queue] - burned
    <3>1. c[Queue] \in Nat /\ c[Queue] >= burned
      BY <1>1, <1>2, <1>3, <1>4, <2>1
    <3>3. bal' \in [Holders -> Nat]
      BY <1>2, <1>3, <1>4, <2>1, <3>1
    <3>4. c \in [Holders -> Int] /\ 0 - burned \in Int
      BY <1>3, <1>4
    <3>2. bal' = Credit(c, Queue, 0 - burned)
      <4>1. \A h \in Holders : bal'[h] = Credit(c, Queue, 0 - burned)[h]
        BY <1>2, <1>3, <1>4, <2>1 DEF Credit
      <4>2. Credit(c, Queue, 0 - burned) \in [Holders -> Int]
        BY <1>2, <3>4, TotalSharesCredit
      <4> QED
        BY <3>3, <4>1, <4>2
    <3>5. TotalShares(Credit(c, Queue, 0 - burned)) = supply + f + (0 - burned)
      BY <1>2, <1>3, <3>4, TotalSharesCredit
    <3>6. TotalShares(bal') = supply'
      <4>1. supply' = supply + f - burned
        BY <2>1
      <4> QED
        BY <1>1, <1>2, <1>4, <3>2, <3>5, <4>1
    <3>7. bal'[Queue] = c[Queue] - burned
      BY <1>2, <1>3, <2>1
    <3> QED
      BY <1>1, <1>2, <1>3, <1>4, <3>3, <3>6, <3>7
  <2>8. supply' \in Nat
    BY <1>1, <1>2, <1>4, <2>1, <2>2
  <2> QED
    BY <1>6, <2>1, <2>6, <2>7, <2>8 DEF burned, p
<1> QED
  BY <1>7, <1>8

\* the book after a batch is again a sequence of requests
LEMMA NewBook ==
  ASSUME NEW n \in Nat, NEW r \in [1..n -> Request]
  PROVE  r \in Seq(Request) /\ Len(r) = n
OBVIOUS

\* custody and FIFO, in terms of the sums over the new book
LEMMA NextBook ==
  ASSUME NEW n \in Nat, requests' \in Seq(Request), Len(requests') = n,
         head' \in Nat, head' <= n + 1,
         bal'[Queue] >= queuedShares',
         queuedShares' = SumTo(Shares(requests'), n),
         cash' = SumTo(Claims(requests'), n),
         \A i \in 1..n : i < head' <=> requests'[i].shares = 0
  PROVE  Custody' /\ FifoHead' /\ queuedShares' \in Nat /\ cash' \in Nat
<1>1. \A k \in 1..n : Shares(requests')[k] \in Nat /\ Claims(requests')[k] \in Nat
  <2>1. \A k \in 1..n : requests'[k] \in Request
    OBVIOUS
  <2> QED
    BY <2>1 DEF Shares, Claims, Request
<1>2. SumTo(Shares(requests'), n) \in Nat /\ SumTo(Claims(requests'), n) \in Nat
  BY <1>1, SumToNat
<1> QED
  BY <1>2 DEF Custody, FifoHead, Asked, Claimable, NumRequests, Shares, Claims

Updated(r, x, y) == [r EXCEPT !.shares = x, !.claimable = y]

\* an updated request is a request
LEMMA RequestUpdate ==
  ASSUME NEW r \in Request, NEW x \in Nat, NEW y \in Nat
  PROVE  /\ Updated(r, x, y) \in Request
         /\ Updated(r, x, y).shares = x /\ Updated(r, x, y).claimable = y
BY DEF Request, Updated

\* the book stays as it is while a call only mints fees or moves shares in
LEMMA BookUnchanged ==
  ASSUME IInv, UNCHANGED <<requests, head, queuedShares, cash>>,
         bal'[Queue] >= bal[Queue], bal'[Queue] \in Nat, bal[Queue] \in Nat
  PROVE  /\ requests' \in Seq(Request) /\ head' \in Nat \ {0}
         /\ queuedShares' \in Nat /\ cash' \in Nat
         /\ Custody' /\ FifoHead'
<1>1. /\ requests \in Seq(Request) /\ head \in Nat \ {0}
      /\ queuedShares \in Nat /\ cash \in Nat
      /\ Custody /\ FifoHead
  BY DEF IInv, TypeOK
<1> QED
  BY <1>1 DEF Custody, FifoHead, Asked, Claimable, NumRequests

\* what one batch does to the book
LEMMA ExecuteBook ==
  ASSUME IInv, NEW f \in FeesDue, NEW b \in Nat, NEW batch, GoodBatch(batch),
         Execute(CallPrice(f), b, batch, f, Released)
  PROVE  /\ requests' \in Seq(Request) /\ head' \in Nat \ {0}
         /\ queuedShares' \in Nat /\ cash' \in Nat
         /\ Custody' /\ FifoHead'
<1> DEFINE p == CallPrice(f)
           burned == BatchShares(batch)
           received == AssetsFor(p, burned)
           pay == [i \in 1..NumRequests |-> Payout(p, batch, received, i)]
<1>1. /\ requests \in Seq(Request) /\ head \in Nat \ {0}
      /\ queuedShares \in Nat /\ cash \in Nat /\ Custody /\ FifoHead
  BY DEF IInv, TypeOK
<1>2. bal' \in [Holders -> Nat] /\ bal'[Queue] >= bal[Queue] - burned
  BY ExecuteVault
<1>3. bal[Queue] \in Nat /\ bal'[Queue] \in Nat
  BY <1>2, HoldersAre DEF IInv, TypeOK, VaultTypeOK
<1>4. /\ burned \in Nat /\ burned <= Asked(NumRequests)
      /\ burned # 0 => batch.last \in head..NumRequests
  BY <1>1, BatchSharesOK
<1>5. p \in PriceRecord
  BY CallTerms
<1>6. received \in Nat
  BY <1>4, <1>5, AssetsForIs
<1> HIDE DEF p, burned, received, pay
<1>7. CASE burned = 0
  <2>1. UNCHANGED <<requests, head, queuedShares, cash>>
    BY <1>7 DEF Execute, burned, bookVars
  <2> QED
    BY <1>2, <1>3, <1>7, <2>1, BookUnchanged
<1>8. CASE burned # 0
  <2> DEFINE N == NumRequests
  <2>0. requests' = [i \in 1..N |->
          [requests[i] EXCEPT !.shares = @ - batch.fill[i],
                              !.claimable = @ + Payout(p, batch, received, i)]]
    BY <1>8 DEF Execute, burned, p, received
  <2>1. /\ cash' = cash + received
        /\ queuedShares' = queuedShares - burned
        /\ head' = HeadAfter(batch)
    BY <1>8 DEF Execute, burned, p, received
  <2>2. /\ N \in Nat
        /\ \A i \in 1..N : /\ requests[i] \in Request
                           /\ Shares(requests)[i] = requests[i].shares
                           /\ Claims(requests)[i] = requests[i].claimable
        /\ queuedShares = SumTo(Shares(requests), N)
        /\ cash = SumTo(Claims(requests), N)
    <3>1. N \in Nat /\ N \in 0..N
      BY <1>1, BookSums
    <3> QED
      BY <1>1, <3>1, BookSums DEF Custody
  <2> HIDE DEF N
  <2>3. /\ \A i \in 1..N : pay[i] = Payout(p, batch, received, i) /\ pay[i] \in Nat
        /\ SumTo(pay, N) = received
    BY <1>1, <1>4, <1>5, <1>6, <1>8, ReceiptAllocated DEF pay, burned, received, N
  <2>4. \A i \in 1..N : /\ batch.fill[i] \in Nat /\ batch.fill[i] <= requests[i].shares
                        /\ i \notin head..batch.last => batch.fill[i] = 0
                        /\ i \in head..(batch.last - 1) => batch.fill[i] = requests[i].shares
    BY DEF GoodBatch, N
  <2>5. ASSUME NEW i \in 1..N
        PROVE  /\ requests'[i] \in Request
               /\ requests'[i].shares = requests[i].shares - batch.fill[i]
               /\ requests'[i].claimable = requests[i].claimable + pay[i]
    <3>1. requests'[i] = [requests[i] EXCEPT !.shares = @ - batch.fill[i], !.claimable = @ + pay[i]]
      BY <2>0, <2>3
    <3>2. PICK r \in Request : r = requests[i]
      BY <2>2
    <3>3. PICK x \in Nat : x = r.shares - batch.fill[i]
      BY <2>4, <3>2 DEF Request
    <3>4. PICK y \in Nat : y = r.claimable + pay[i]
      BY <2>3, <3>2 DEF Request
    <3>5. requests'[i] = Updated(r, x, y)
      BY <3>1, <3>2, <3>3, <3>4 DEF Updated
    <3>6. r \in Request /\ x \in Nat /\ y \in Nat
      BY <3>2, <3>3, <3>4
    <3>7. Updated(r, x, y) \in Request /\ Updated(r, x, y).shares = x /\ Updated(r, x, y).claimable = y
      BY <3>6, RequestUpdate
    <3>8. requests'[i] \in Request /\ requests'[i].shares = x /\ requests'[i].claimable = y
      BY <3>5, <3>7
    <3> QED
      BY <3>2, <3>3, <3>4, <3>8
  <2>6. requests' \in [1..N -> Request]
    <3>1. DOMAIN requests' = 1..N /\ requests' = [i \in DOMAIN requests' |-> requests'[i]]
      BY <2>0
    <3> QED
      BY <2>5, <3>1
  <2>7. requests' \in Seq(Request) /\ Len(requests') = N
    BY <2>2, <2>6, NewBook
  <2>8. /\ \A i \in 1..N : Shares(requests')[i] = requests'[i].shares
        /\ \A i \in 1..N : Claims(requests')[i] = requests'[i].claimable
    BY <2>7 DEF Shares, Claims
  <2>9. cash' = SumTo(Claims(requests'), N)
    <3>1. \A k \in 1..N : /\ Claims(requests)[k] \in Int /\ pay[k] \in Int
                          /\ Claims(requests')[k] = Claims(requests)[k] + pay[k]
      BY <2>2, <2>3, <2>5, <2>8 DEF Request
    <3>2. SumTo(Claims(requests'), N) = SumTo(Claims(requests), N) + SumTo(pay, N)
      BY <2>2, <3>1, SumToPlus
    <3> QED
      BY <2>1, <2>2, <2>3, <3>2
  <2>10. queuedShares' = SumTo(Shares(requests'), N)
    <3>1. \A k \in 1..N : /\ Shares(requests')[k] \in Int /\ batch.fill[k] \in Int
                          /\ Shares(requests)[k] = Shares(requests')[k] + batch.fill[k]
      BY <2>2, <2>4, <2>5, <2>8 DEF Request
    <3>2. SumTo(Shares(requests), N) = SumTo(Shares(requests'), N) + SumTo(batch.fill, N)
      BY <2>2, <3>1, SumToPlus
    <3>3. \A k \in 1..N : Shares(requests')[k] \in Int
      BY <3>1
    <3>4. SumTo(Shares(requests'), N) \in Int
      BY <2>2, <3>3, SumToInt
    <3>5. burned = SumTo(batch.fill, N)
      BY DEF burned, BatchShares, N
    <3> QED
      BY <1>4, <2>1, <2>2, <3>2, <3>4, <3>5
  <2>11. /\ head' \in Nat \ {0} /\ head' <= N + 1
         /\ \A i \in 1..N : i < head' <=> requests'[i].shares = 0
    <3>1. PICK last \in head..N : last = batch.last
      BY <1>4, <1>8 DEF N
    <3>2. /\ \A i \in 1..N : requests[i].shares \in Nat
          /\ \A i \in 1..N : i < head <=> requests[i].shares = 0
      BY <1>1, <2>2 DEF FifoHead, Request, N
    <3>3. head' = IF batch.fill[last] = requests[last].shares THEN last + 1 ELSE last
      BY <2>1, <3>1 DEF HeadAfter
    <3>4. head' \in Nat \ {0} /\ head' <= N + 1
      BY <1>1, <2>2, <3>1, <3>3
    <3>5. ASSUME NEW i \in 1..N
          PROVE  i < head' <=> requests'[i].shares = 0
      <4>1. PICK w \in Nat : w = requests[i].shares /\ (i < head <=> w = 0)
        BY <3>2
      <4>2. PICK g \in Nat : /\ g = batch.fill[i] /\ g <= w
                             /\ i \notin head..last => g = 0
                             /\ i \in head..(last - 1) => g = w
        BY <2>4, <3>1, <4>1
      <4>3. requests'[i].shares = w - g
        BY <2>5, <4>1, <4>2
      <4>4. PICK hd \in Nat : /\ hd = head' /\ (hd = last \/ hd = last + 1)
                              /\ i = last => (hd = last + 1 <=> g = w)
        BY <3>3, <3>4, <4>1, <4>2
      <4>5. PICK k \in Int : k = requests'[i].shares /\ k = w - g
        BY <4>3
      <4>6. i < hd <=> k = 0
        <5>1. head \in Nat /\ last \in Nat /\ i \in Nat /\ head <= last
          BY <1>1, <2>2, <3>1
        <5>2. CASE i < head
          BY <4>1, <4>2, <4>4, <4>5, <5>1, <5>2
        <5>3. CASE i >= head /\ i < last
          BY <4>2, <4>4, <4>5, <5>1, <5>3
        <5>4. CASE i = last
          BY <4>2, <4>4, <4>5, <5>1, <5>4
        <5>5. CASE i > last
          BY <4>1, <4>2, <4>4, <4>5, <5>1, <5>5
        <5> QED
          BY <5>1, <5>2, <5>3, <5>4, <5>5
      <4> QED
        BY <4>4, <4>5, <4>6
    <3> QED
      BY <3>4, <3>5
  <2>12. bal'[Queue] >= queuedShares'
    BY <1>1, <1>2, <1>3, <1>4, <2>1 DEF Custody
  <2>13. Custody' /\ FifoHead' /\ queuedShares' \in Nat /\ cash' \in Nat
    BY <2>2, <2>7, <2>9, <2>10, <2>11, <2>12, NextBook
  <2> QED
    BY <2>7, <2>11, <2>13
<1> QED
  BY <1>7, <1>8

----------------------------------------------------------------------------
(* One lemma per operation *)

\* the parts of the invariant, as a step re-establishes them
LEMMA NextInv ==
  ASSUME VaultTypeOK', StreamBacked', TotalShares(bal') = supply',
         requests' \in Seq(Request), head' \in Nat \ {0},
         queuedShares' \in Nat, cash' \in Nat, Custody', FifoHead',
         settling' \in BOOLEAN,
         budget' \in Nat, distributed' \in Nat, minAtOpen' \in Nat, opened' \in Nat,
         BudgetBound', FloorReachable',
         epochLeft' \in Nat, epochDuration' \in Nat, liquidityBps' \in Nat,
         minValue' \in Nat, idle' \in Nat, cooldown' \in DefaultCooldown..MaxCooldown
  PROVE  IInv'
BY DEF IInv, TypeOK

\* a step that leaves an open settlement alone keeps its bounds
LEMMA SettlementUnchanged ==
  ASSUME IInv, UNCHANGED <<settling, budget, distributed, minAtOpen, opened>>
  PROVE  /\ settling' \in BOOLEAN
         /\ budget' \in Nat /\ distributed' \in Nat /\ minAtOpen' \in Nat /\ opened' \in Nat
         /\ BudgetBound' /\ FloorReachable'
BY DEF IInv, TypeOK, BudgetBound, FloorReachable

\* StayOpen and CloseOut keep the bounds of the settlement
LEMMA SettlementStep ==
  ASSUME IInv, NEW f \in FeesDue, NEW spent \in Nat, spent <= CallBudget, NEW withheld,
         StayOpen(spent) \/ CloseOut(spent, withheld)
  PROVE  /\ settling' \in BOOLEAN
         /\ budget' \in Nat /\ distributed' \in Nat /\ minAtOpen' \in Nat /\ opened' \in Nat
         /\ BudgetBound' /\ FloorReachable' /\ epochLeft' \in Nat
<1>1. /\ budget \in Nat /\ distributed \in Nat /\ opened \in Nat
      /\ epochLeft \in Nat /\ epochDuration \in Nat
      /\ settling => distributed + budget <= opened
  BY DEF IInv, TypeOK, BudgetBound
<1>2. CallBudget \in Nat /\ CallDistributed \in Nat /\ CallFloor \in Nat
  BY CallTerms
<1>3. CASE StayOpen(spent)
  <2>1. /\ settling' = TRUE
        /\ budget' = CallBudget - spent
        /\ distributed' = CallDistributed + spent
        /\ minAtOpen' = CallFloor
        /\ CallDistributed + CallBudget >= CallFloor
        /\ opened' = IF settling THEN opened ELSE CallBudget
        /\ epochLeft' = epochLeft
    BY <1>3 DEF StayOpen, Reachable
  <2>2. settling => CallDistributed = distributed /\ CallBudget <= budget
    BY <1>1, <1>2 DEF CallDistributed, CallBudget, Lesser
  <2>3. ~settling => CallDistributed = 0
    BY DEF CallDistributed
  <2>4. distributed' + budget' = CallDistributed + CallBudget
    BY <1>2, <2>1
  <2>5. distributed' + budget' <= opened'
    BY <1>1, <1>2, <2>1, <2>2, <2>3, <2>4
  <2>6. distributed' + budget' >= minAtOpen'
    BY <1>2, <2>1, <2>4
  <2> QED
    BY <1>1, <1>2, <2>1, <2>5, <2>6 DEF BudgetBound, FloorReachable
<1>4. CASE CloseOut(spent, withheld)
  BY <1>1, <1>2, <1>4 DEF CloseOut, BudgetBound, FloorReachable
<1> QED
  BY <1>3, <1>4

\* closeEpoch keeps the invariant
LEMMA CloseEpochStep ==
  ASSUME IInv, NEW max \in Chunks, CloseEpoch(max)
  PROVE  IInv'
<1>1. PICK f \in FeesDue : \E batch \in {SelectBatch(CallPrice(f), CallBudget, max)} :
        /\ Execute(CallPrice(f), CallBudget, batch, f, Released)
        /\ IF ~Drained' /\ batch.stop = "chunk"
           THEN StayOpen(AssetsFor(CallPrice(f), BatchShares(batch)))
           ELSE CloseOut(AssetsFor(CallPrice(f), BatchShares(batch)), batch.withheld)
  BY DEF CloseEpoch
<1>2. PICK batch :
        /\ batch = SelectBatch(CallPrice(f), CallBudget, max)
        /\ Execute(CallPrice(f), CallBudget, batch, f, Released)
        /\ \/ StayOpen(AssetsFor(CallPrice(f), BatchShares(batch)))
           \/ CloseOut(AssetsFor(CallPrice(f), BatchShares(batch)), batch.withheld)
  BY <1>1
<1>3. CallBudget \in Nat /\ CallPrice(f) \in PriceRecord
  BY CallTerms
<1>4. GoodBatch(batch)
  <2>1. /\ requests \in Seq(Request) /\ head \in Nat \ {0} /\ head <= NumRequests + 1
        /\ max \in Nat \ {0}
    BY QueueAssumption DEF IInv, TypeOK, FifoHead
  <2> QED
    BY <1>2, <1>3, <2>1, SelectBatchOK
<1>5. /\ bal' \in [Holders -> Nat] /\ supply' \in Nat
      /\ TotalShares(bal') = supply'
      /\ held' \in Nat /\ stream' \in Nat /\ stream' <= held'
      /\ AssetsFor(CallPrice(f), BatchShares(batch)) \in Nat
      /\ AssetsFor(CallPrice(f), BatchShares(batch)) <= CallBudget
  BY <1>2, <1>3, <1>4, ExecuteVault
<1>6. /\ requests' \in Seq(Request) /\ head' \in Nat \ {0}
      /\ queuedShares' \in Nat /\ cash' \in Nat
      /\ Custody' /\ FifoHead'
  BY <1>2, <1>3, <1>4, ExecuteBook
<1>7. /\ settling' \in BOOLEAN
      /\ budget' \in Nat /\ distributed' \in Nat /\ minAtOpen' \in Nat /\ opened' \in Nat
      /\ BudgetBound' /\ FloorReachable' /\ epochLeft' \in Nat
  BY <1>2, <1>5, SettlementStep
<1>8. UNCHANGED <<vesting, mark, halts, sanctioned, configVars, idle>>
  BY DEF CloseEpoch
<1>9. VaultTypeOK' /\ StreamBacked'
  BY <1>5, <1>8 DEF IInv, TypeOK, VaultTypeOK, StreamBacked
<1>10. /\ epochDuration' \in Nat /\ liquidityBps' \in Nat /\ minValue' \in Nat
       /\ idle' \in Nat /\ cooldown' \in DefaultCooldown..MaxCooldown
  BY <1>8 DEF IInv, TypeOK, configVars
<1> QED
  BY <1>5, <1>6, <1>7, <1>9, <1>10, NextInv

\* requestRedeem keeps the invariant
LEMMA RequestRedeemStep ==
  ASSUME IInv, NEW u \in Users, NEW s \in Sizes, RequestRedeem(u, s)
  PROVE  IInv'
<1> DEFINE N == NumRequests
           r == [owner |-> u, age |-> 0, shares |-> s, claimable |-> 0]
<1>1. /\ bal \in [Holders -> Nat] /\ supply \in Nat /\ TotalShares(bal) = supply
      /\ requests \in Seq(Request) /\ head \in Nat \ {0}
      /\ queuedShares \in Nat /\ cash \in Nat /\ Custody /\ FifoHead
  BY DEF IInv, TypeOK, VaultTypeOK
<1>2. /\ s \in Nat \ {0} /\ u \in Holders /\ u # Queue /\ u # FeeRecipient
      /\ Queue \in Holders /\ FeeRecipient \in Holders
  BY HoldersAre, VaultAssumption, QueueAssumption
<1>3. PICK f \in FeesDue :
        /\ supply' = supply + f
        /\ bal' = [Credit(bal, FeeRecipient, f) EXCEPT ![u] = @ - s, ![Queue] = @ + s]
  BY DEF RequestRedeem
<1>4. /\ requests' = Append(requests, r)
      /\ queuedShares' = queuedShares + s
      /\ bal[u] >= s
      /\ head' = head /\ cash' = cash
      /\ UNCHANGED <<held, stream, vesting, mark, halts, sanctioned>>
      /\ UNCHANGED <<settling, budget, distributed, minAtOpen, opened>>
      /\ UNCHANGED <<epochDuration, liquidityBps, cooldown, minValue, epochLeft, idle>>
  BY DEF RequestRedeem, settlementVars, configVars
<1>5. /\ bal' \in [Holders -> Nat] /\ supply' \in Nat /\ TotalShares(bal') = supply'
      /\ bal'[Queue] >= bal[Queue] + s
  <2> DEFINE c == Credit(bal, FeeRecipient, f)
  <2>1. f \in Nat
    BY FeesAreNat
  <2>2. c \in [Holders -> Nat] /\ TotalShares(c) = supply + f /\ c[Queue] >= bal[Queue]
    BY <1>1, <1>2, <2>1, CreditNat
  <2>3. c[u] = bal[u]
    BY <1>1, <1>2 DEF Credit
  <2>4. bal' = Moved(c, u, Queue, s)
    BY <1>3 DEF Moved
  <2> HIDE DEF c
  <2>5. /\ Moved(c, u, Queue, s) \in [Holders -> Nat]
        /\ TotalShares(Moved(c, u, Queue, s)) = TotalShares(c)
        /\ Moved(c, u, Queue, s)[Queue] = c[Queue] + s
    <3>1. c \in [Holders -> Nat] /\ s \in Nat /\ s <= c[u]
      BY <1>1, <1>2, <1>4, <2>2, <2>3
    <3> QED
      BY <1>2, <3>1, MoveShares
  <2>6. supply' = supply + f
    BY <1>3
  <2>7. bal[Queue] \in Nat /\ c[Queue] \in Nat
    BY <1>1, <1>2, <2>2
  <2> QED
    BY <1>1, <1>2, <2>1, <2>2, <2>4, <2>5, <2>6, <2>7
<1>6. /\ N \in Nat /\ N \in 0..N
      /\ queuedShares = SumTo(Shares(requests), N)
      /\ cash = SumTo(Claims(requests), N)
      /\ \A k \in 1..N : /\ requests[k] \in Request
                         /\ Shares(requests)[k] = requests[k].shares
                         /\ Claims(requests)[k] = requests[k].claimable
  <2>1. N \in Nat /\ N \in 0..N
    BY <1>1, BookSums
  <2> QED
    BY <1>1, <2>1, BookSums DEF Custody
<1>7. /\ requests' \in Seq(Request) /\ Len(requests') = N + 1
      /\ \A k \in 1..N : requests'[k] = requests[k]
      /\ requests'[N + 1] = r
  <2>1. 0 \in 0..MaxCooldown
    BY QueueAssumption
  <2>2. r \in Request
    BY <1>2, <2>1 DEF Request
  <2> HIDE DEF r
  <2> QED
    BY <1>1, <1>4, <2>2 DEF NumRequests
<1>8. r.shares = s /\ r.claimable = 0
  OBVIOUS
<1> HIDE DEF N, r
<1>9. /\ queuedShares' = SumTo(Shares(requests'), N + 1)
      /\ cash' = SumTo(Claims(requests'), N + 1)
  <2>1. \A k \in 1..(N + 1) : /\ Shares(requests')[k] = requests'[k].shares
                              /\ Claims(requests')[k] = requests'[k].claimable
    BY <1>7 DEF Shares, Claims
  <2>2. \A k \in 1..N : /\ Shares(requests')[k] = Shares(requests)[k]
                        /\ Claims(requests')[k] = Claims(requests)[k]
    BY <1>6, <1>7, <2>1
  <2>3. /\ SumTo(Shares(requests'), N) = SumTo(Shares(requests), N)
        /\ SumTo(Claims(requests'), N) = SumTo(Claims(requests), N)
    BY <1>6, <2>2, SumToSame
  <2>4. PICK n \in Nat : n = N + 1 /\ n # 0 /\ n - 1 = N
    BY <1>6
  <2>5. /\ SumTo(Shares(requests'), n) = SumTo(Shares(requests'), n - 1) + Shares(requests')[n]
        /\ SumTo(Claims(requests'), n) = SumTo(Claims(requests'), n - 1) + Claims(requests')[n]
    BY <2>4, SumToStep
  <2>6. Shares(requests')[n] = s /\ Claims(requests')[n] = 0
    BY <1>6, <1>7, <1>8, <2>1, <2>4
  <2>7. queuedShares' = queuedShares + s /\ cash' = cash
    BY <1>4
  <2> QED
    BY <1>1, <1>2, <1>6, <2>3, <2>4, <2>5, <2>6, <2>7
<1>10. /\ head' \in Nat \ {0} /\ head' <= (N + 1) + 1
       /\ \A i \in 1..(N + 1) : i < head' <=> requests'[i].shares = 0
  <2>1. head' = head
    BY <1>4
  <2>2. head <= N + 1 /\ \A i \in 1..N : i < head <=> requests[i].shares = 0
    BY <1>1 DEF FifoHead, N
  <2>3. \A i \in 1..N : i < head <=> requests'[i].shares = 0
    BY <1>7, <2>2
  <2>4. requests'[N + 1].shares # 0 /\ ~(N + 1 < head)
    BY <1>1, <1>2, <1>6, <1>7, <1>8, <2>2
  <2>5. \A i \in 1..(N + 1) : i \in 1..N \/ i = N + 1
    BY <1>6
  <2>6. head <= (N + 1) + 1
    BY <1>1, <1>6, <2>2
  <2> QED
    BY <1>1, <2>1, <2>3, <2>4, <2>5, <2>6
<1>11. bal'[Queue] >= queuedShares'
  <2>1. queuedShares' = queuedShares + s /\ bal[Queue] >= queuedShares
    BY <1>1, <1>4 DEF Custody
  <2>2. bal[Queue] \in Nat /\ bal'[Queue] \in Nat
    BY <1>1, <1>2, <1>5
  <2> QED
    BY <1>1, <1>2, <1>5, <2>1, <2>2
<1>12. Custody' /\ FifoHead' /\ queuedShares' \in Nat /\ cash' \in Nat
  <2>1. PICK n \in Nat : n = N + 1
    BY <1>6
  <2> QED
    BY <1>7, <1>9, <1>10, <1>11, <2>1, NextBook
<1>13. VaultTypeOK' /\ StreamBacked'
  BY <1>4, <1>5 DEF IInv, TypeOK, VaultTypeOK, StreamBacked
<1>14. /\ settling' \in BOOLEAN
       /\ budget' \in Nat /\ distributed' \in Nat /\ minAtOpen' \in Nat /\ opened' \in Nat
       /\ BudgetBound' /\ FloorReachable'
  BY <1>4, SettlementUnchanged
<1>15. /\ epochLeft' \in Nat /\ epochDuration' \in Nat /\ liquidityBps' \in Nat
       /\ minValue' \in Nat /\ idle' \in Nat /\ cooldown' \in DefaultCooldown..MaxCooldown
  BY <1>4 DEF IInv, TypeOK
<1> QED
  BY <1>5, <1>7, <1>10, <1>12, <1>13, <1>14, <1>15, NextInv

\* claim keeps the invariant
LEMMA ClaimStep ==
  ASSUME IInv, NEW i \in 1..NumRequests, Claim(i)
  PROVE  IInv'
<1> DEFINE N == NumRequests
           q == [requests[i] EXCEPT !.claimable = 0]
           drop == [k \in 1..N |-> IF k = i THEN requests[i].claimable ELSE 0]
<1>1. /\ requests \in Seq(Request) /\ head \in Nat \ {0} /\ Custody /\ FifoHead
      /\ queuedShares \in Nat /\ cash \in Nat
  BY DEF IInv, TypeOK
<1>2. /\ requests' = [requests EXCEPT ![i].claimable = 0]
      /\ cash' = cash - requests[i].claimable
      /\ UNCHANGED <<bal, supply, held, stream, vesting, mark, halts, sanctioned>>
      /\ UNCHANGED <<head, queuedShares>>
      /\ UNCHANGED <<settling, budget, distributed, minAtOpen, opened>>
      /\ UNCHANGED <<epochDuration, liquidityBps, cooldown, minValue, epochLeft, idle>>
  BY DEF Claim, vaultVars, settlementVars, configVars
<1>3. /\ N \in Nat /\ N = Len(requests)
      /\ queuedShares = SumTo(Shares(requests), N)
      /\ cash = SumTo(Claims(requests), N)
      /\ \A k \in 1..N : /\ requests[k] \in Request
                         /\ Shares(requests)[k] = requests[k].shares
                         /\ Claims(requests)[k] = requests[k].claimable
  <2>1. N \in Nat /\ N \in 0..N /\ N = Len(requests)
    BY <1>1, BookSums DEF NumRequests
  <2> QED
    BY <1>1, <2>1, BookSums DEF Custody
<1>4. q \in Request /\ q.shares = requests[i].shares /\ q.claimable = 0
  BY <1>3 DEF Request
<1>5. requests' = [requests EXCEPT ![i] = q]
  BY <1>2
<1>6. requests[i].claimable \in Nat
  BY <1>3 DEF Request
<1>7. \A k \in 1..N : drop[k] = IF k = i THEN requests[i].claimable ELSE 0
  OBVIOUS
<1> HIDE DEF N, q, drop
<1>8. i \in 1..N
  BY DEF N
<1>9. /\ requests' \in Seq(Request) /\ Len(requests') = N
      /\ \A k \in 1..N : requests'[k] = IF k = i THEN q ELSE requests[k]
  BY <1>1, <1>3, <1>4, <1>5, <1>8
<1>10. \A k \in 1..N : /\ requests'[k].shares = requests[k].shares
                       /\ requests'[k].claimable = IF k = i THEN 0 ELSE requests[k].claimable
  BY <1>4, <1>9
<1>11. \A k \in 1..N : /\ Shares(requests')[k] = requests'[k].shares
                       /\ Claims(requests')[k] = requests'[k].claimable
  BY <1>9 DEF Shares, Claims
<1>12. queuedShares' = SumTo(Shares(requests'), N)
  <2>1. \A k \in 1..N : Shares(requests')[k] = Shares(requests)[k]
    BY <1>3, <1>10, <1>11
  <2>2. SumTo(Shares(requests'), N) = SumTo(Shares(requests), N)
    BY <1>3, <2>1, SumToSame
  <2>3. queuedShares' = queuedShares
    BY <1>2
  <2> QED
    BY <1>3, <2>2, <2>3
<1>13. cash' = SumTo(Claims(requests'), N)
  <2>1. \A k \in 1..N : requests[k].claimable \in Nat
    BY <1>3 DEF Request
  <2>2. \A k \in 1..N : /\ Claims(requests')[k] \in Int /\ drop[k] \in Int
                        /\ Claims(requests)[k] = Claims(requests')[k] + drop[k]
    BY <1>3, <1>7, <1>10, <1>11, <2>1
  <2>3. SumTo(Claims(requests), N) = SumTo(Claims(requests'), N) + SumTo(drop, N)
    BY <1>3, <2>2, SumToPlus
  <2>4. requests[i].claimable \in Int
    BY <1>6
  <2>5. SumTo(drop, N) = requests[i].claimable
    BY <1>3, <1>7, <1>8, <2>4, SumToSingle
  <2>6. \A k \in 1..N : Claims(requests')[k] \in Int
    BY <2>2
  <2>7. SumTo(Claims(requests'), N) \in Int
    BY <1>3, <2>6, SumToInt
  <2>8. cash' = cash - requests[i].claimable
    BY <1>2
  <2> QED
    BY <1>1, <1>3, <1>6, <2>3, <2>5, <2>7, <2>8
<1>14. Custody' /\ FifoHead' /\ queuedShares' \in Nat /\ cash' \in Nat
  <2>1. head' \in Nat /\ head' <= N + 1 /\ bal'[Queue] >= queuedShares'
    BY <1>1, <1>2 DEF Custody, FifoHead, N
  <2>2. \A k \in 1..N : k < head' <=> requests'[k].shares = 0
    BY <1>1, <1>2, <1>10 DEF FifoHead, N
  <2> QED
    BY <1>3, <1>9, <1>12, <1>13, <2>1, <2>2, NextBook
<1>15. /\ VaultTypeOK' /\ StreamBacked' /\ TotalShares(bal') = supply'
       /\ head' \in Nat \ {0}
  BY <1>1, <1>2 DEF IInv, TypeOK, VaultTypeOK, StreamBacked
<1>16. /\ settling' \in BOOLEAN
       /\ budget' \in Nat /\ distributed' \in Nat /\ minAtOpen' \in Nat /\ opened' \in Nat
       /\ BudgetBound' /\ FloorReachable'
  BY <1>2, SettlementUnchanged
<1>17. /\ epochLeft' \in Nat /\ epochDuration' \in Nat /\ liquidityBps' \in Nat
       /\ minValue' \in Nat /\ idle' \in Nat /\ cooldown' \in DefaultCooldown..MaxCooldown
  BY <1>2 DEF IInv, TypeOK
<1> QED
  BY <1>9, <1>14, <1>15, <1>16, <1>17, NextInv

\* the passage of time keeps the invariant
LEMMA TickStep ==
  ASSUME IInv, Tick
  PROVE  IInv'
<1> DEFINE N == NumRequests
           older(k) == [requests[k] EXCEPT !.age = Lesser(@ + 1, MaxCooldown)]
<1>1. /\ requests \in Seq(Request) /\ head \in Nat \ {0} /\ Custody /\ FifoHead
      /\ queuedShares \in Nat /\ cash \in Nat /\ epochLeft \in Nat
      /\ held \in Nat /\ stream \in Nat /\ stream <= held
  BY DEF IInv, TypeOK, VaultTypeOK, StreamBacked
<1>2. /\ epochLeft' = Minus(epochLeft, 1)
      /\ stream' \in 0..stream
      /\ UNCHANGED <<bal, supply, held, vesting, mark, halts, sanctioned>>
      /\ UNCHANGED <<head, queuedShares, cash>>
      /\ UNCHANGED <<settling, budget, distributed, minAtOpen, opened>>
      /\ UNCHANGED <<epochDuration, liquidityBps, cooldown, minValue, idle>>
  BY DEF Tick, Vest, settlementVars, configVars
<1>3. requests' = [k \in 1..N |-> older(k)]
  BY DEF Tick
<1>4. /\ N \in Nat
      /\ queuedShares = SumTo(Shares(requests), N)
      /\ cash = SumTo(Claims(requests), N)
      /\ \A k \in 1..N : /\ requests[k] \in Request
                         /\ Shares(requests)[k] = requests[k].shares
                         /\ Claims(requests)[k] = requests[k].claimable
  <2>1. N \in Nat /\ N \in 0..N
    BY <1>1, BookSums
  <2> QED
    BY <1>1, <2>1, BookSums DEF Custody
<1> HIDE DEF N
<1>5. ASSUME NEW k \in 1..N
      PROVE  /\ older(k) \in Request
             /\ older(k).shares = requests[k].shares
             /\ older(k).claimable = requests[k].claimable
  <2>1. PICK r \in Request : r = requests[k]
    BY <1>4
  <2>2. Lesser(r.age + 1, MaxCooldown) \in 0..MaxCooldown
    BY QueueAssumption DEF Request, Lesser
  <2>3. [r EXCEPT !.age = Lesser(r.age + 1, MaxCooldown)] \in Request
    BY <2>2 DEF Request
  <2> QED
    BY <2>1, <2>3 DEF Request
<1>6. /\ requests' \in Seq(Request) /\ Len(requests') = N
      /\ \A k \in 1..N : /\ requests'[k].shares = requests[k].shares
                         /\ requests'[k].claimable = requests[k].claimable
  <2> HIDE DEF older
  <2>1. requests' \in [1..N -> Request] /\ \A k \in 1..N : requests'[k] = older(k)
    BY <1>3, <1>5
  <2>2. requests' \in Seq(Request) /\ Len(requests') = N
    BY <1>4, <2>1, NewBook
  <2> QED
    BY <1>5, <2>1, <2>2
<1>7. \A k \in 1..N : /\ Shares(requests')[k] = Shares(requests)[k]
                      /\ Claims(requests')[k] = Claims(requests)[k]
  <2>1. \A k \in 1..N : /\ Shares(requests')[k] = requests'[k].shares
                        /\ Claims(requests')[k] = requests'[k].claimable
    BY <1>6 DEF Shares, Claims
  <2> QED
    BY <1>4, <1>6, <2>1
<1>8. Custody' /\ FifoHead' /\ queuedShares' \in Nat /\ cash' \in Nat
  <2>1. /\ SumTo(Shares(requests'), N) = SumTo(Shares(requests), N)
        /\ SumTo(Claims(requests'), N) = SumTo(Claims(requests), N)
    BY <1>4, <1>7, SumToSame
  <2>2. head' \in Nat /\ head' <= N + 1 /\ bal'[Queue] >= queuedShares'
    BY <1>1, <1>2 DEF Custody, FifoHead, N
  <2>3. \A k \in 1..N : k < head' <=> requests'[k].shares = 0
    BY <1>1, <1>2, <1>6 DEF FifoHead, N
  <2>4. queuedShares' = queuedShares /\ cash' = cash
    BY <1>2
  <2> QED
    BY <1>4, <1>6, <2>1, <2>2, <2>3, <2>4, NextBook
<1>9. VaultTypeOK' /\ StreamBacked' /\ TotalShares(bal') = supply' /\ head' \in Nat \ {0}
  BY <1>1, <1>2 DEF IInv, TypeOK, VaultTypeOK, StreamBacked
<1>10. /\ settling' \in BOOLEAN
       /\ budget' \in Nat /\ distributed' \in Nat /\ minAtOpen' \in Nat /\ opened' \in Nat
       /\ BudgetBound' /\ FloorReachable'
  BY <1>2, SettlementUnchanged
<1>11. /\ epochLeft' \in Nat /\ epochDuration' \in Nat /\ liquidityBps' \in Nat
       /\ minValue' \in Nat /\ idle' \in Nat /\ cooldown' \in DefaultCooldown..MaxCooldown
  BY <1>1, <1>2 DEF IInv, TypeOK, Minus
<1> QED
  BY <1>6, <1>8, <1>9, <1>10, <1>11, NextInv

\* governance and the treasury touch neither the book nor the vault
LEMMA ConfigureStep ==
  ASSUME IInv, Configure \/ \E x \in IdleLevels \ {idle} : MoveReserves(x)
  PROVE  IInv'
<1> USE DEF vaultVars, bookVars, settlementVars, configVars
<1>1. /\ UNCHANGED <<bal, supply, held, stream, vesting, mark, halts, sanctioned>>
      /\ UNCHANGED <<requests, head, queuedShares, cash>>
      /\ UNCHANGED <<settling, budget, distributed, minAtOpen, opened, epochLeft>>
  BY DEF Configure, SetEpochDuration, SetEpochLiquidityBps, SetRedeemCooldown,
         SetMinRedemptionValue, MoveReserves
<1>2. /\ epochDuration \in Nat /\ liquidityBps \in Nat /\ minValue \in Nat
      /\ idle \in Nat /\ cooldown \in DefaultCooldown..MaxCooldown /\ epochLeft \in Nat
  BY DEF IInv, TypeOK
<1>3. /\ epochDuration' \in Nat /\ liquidityBps' \in Nat /\ minValue' \in Nat
      /\ idle' \in Nat /\ cooldown' \in DefaultCooldown..MaxCooldown
  <2>1. CASE \E d \in Durations \ {epochDuration} : SetEpochDuration(d)
    BY <1>2, <2>1, QueueAssumption DEF SetEpochDuration
  <2>2. CASE \E x \in LiquidityShares \ {liquidityBps} : SetEpochLiquidityBps(x)
    BY <1>2, <2>2, QueueAssumption DEF SetEpochLiquidityBps
  <2>3. CASE \E c \in Cooldowns \ {cooldown} : SetRedeemCooldown(c)
    BY <1>2, <2>3 DEF SetRedeemCooldown
  <2>4. CASE \E v \in MinValues \ {minValue} : SetMinRedemptionValue(v)
    BY <1>2, <2>4, QueueAssumption DEF SetMinRedemptionValue
  <2>5. CASE \E x \in IdleLevels \ {idle} : MoveReserves(x)
    BY <1>2, <2>5, QueueAssumption DEF MoveReserves
  <2> QED
    BY <2>1, <2>2, <2>3, <2>4, <2>5 DEF Configure
<1>4. bal[Queue] \in Nat /\ bal'[Queue] \in Nat /\ bal'[Queue] >= bal[Queue]
  BY <1>1, HoldersAre DEF IInv, TypeOK, VaultTypeOK
<1>5. /\ requests' \in Seq(Request) /\ head' \in Nat \ {0}
      /\ queuedShares' \in Nat /\ cash' \in Nat
      /\ Custody' /\ FifoHead'
  BY <1>1, <1>4, BookUnchanged
<1>6. /\ settling' \in BOOLEAN
      /\ budget' \in Nat /\ distributed' \in Nat /\ minAtOpen' \in Nat /\ opened' \in Nat
      /\ BudgetBound' /\ FloorReachable'
  BY <1>1, SettlementUnchanged
<1>7. VaultTypeOK' /\ StreamBacked' /\ TotalShares(bal') = supply' /\ epochLeft' \in Nat
  BY <1>1, <1>2 DEF IInv, TypeOK, VaultTypeOK, StreamBacked
<1> QED
  BY <1>3, <1>5, <1>6, <1>7, NextInv

\* the vault's own operations, and stuttering
LEMMA VaultOrStutterStep ==
  ASSUME IInv, (VaultNext /\ UNCHANGED queueVars) \/ UNCHANGED vars
  PROVE  IInv'
<1> USE DEF queueVars, vaultVars, bookVars, settlementVars, configVars
<1>1. /\ UNCHANGED <<requests, head, queuedShares, cash>>
      /\ UNCHANGED <<settling, budget, distributed, minAtOpen, opened, epochLeft>>
      /\ UNCHANGED <<epochDuration, liquidityBps, cooldown, minValue, idle>>
  BY DEF vars
<1>2. VaultInv
  BY DEF IInv, TypeOK, VaultInv
<1>3. /\ VaultTypeOK' /\ StreamBacked' /\ TotalShares(bal') = supply'
      /\ bal'[Queue] >= bal[Queue]
  <2>1. CASE VaultNext
    BY <1>2, <2>1, VaultStep
  <2>2. CASE UNCHANGED vars
    <3>1. UNCHANGED <<bal, supply, held, stream, vesting, mark, halts, sanctioned>>
      BY <2>2 DEF vars
    <3> QED
      BY <1>2, <3>1, HoldersAre DEF VaultInv, VaultTypeOK, StreamBacked
  <2> QED
    BY <2>1, <2>2
<1>4. bal[Queue] \in Nat /\ bal'[Queue] \in Nat
  BY <1>2, <1>3, HoldersAre DEF VaultInv, VaultTypeOK
<1>5. /\ requests' \in Seq(Request) /\ head' \in Nat \ {0}
      /\ queuedShares' \in Nat /\ cash' \in Nat
      /\ Custody' /\ FifoHead'
  BY <1>1, <1>3, <1>4, BookUnchanged
<1>6. /\ settling' \in BOOLEAN
      /\ budget' \in Nat /\ distributed' \in Nat /\ minAtOpen' \in Nat /\ opened' \in Nat
      /\ BudgetBound' /\ FloorReachable'
  BY <1>1, SettlementUnchanged
<1>7. /\ epochLeft' \in Nat /\ epochDuration' \in Nat /\ liquidityBps' \in Nat
      /\ minValue' \in Nat /\ idle' \in Nat /\ cooldown' \in DefaultCooldown..MaxCooldown
  BY <1>1 DEF IInv, TypeOK
<1> QED
  BY <1>3, <1>5, <1>6, <1>7, NextInv

\* the initial states satisfy the invariant
LEMMA InitInv == Init => IInv
<1> SUFFICES ASSUME Init PROVE IInv
  OBVIOUS
<1>1. VaultTypeOK /\ StreamBacked /\ TotalShares(bal) = supply
  BY VaultInitInv DEF Init, VaultInv
<1>2. /\ requests = <<>> /\ NumRequests = 0 /\ head = 1 /\ queuedShares = 0 /\ cash = 0
      /\ bal[Queue] = 0
  BY VaultAssumption DEF Init, VaultInit, Holders, NumRequests
<1>3. TypeOK
  <2>1. <<>> \in Seq(Request)
    OBVIOUS
  <2>2. DefaultCooldown \in DefaultCooldown..MaxCooldown
    BY QueueAssumption
  <2>3. /\ epochDuration \in Nat /\ epochLeft \in Nat /\ liquidityBps \in Nat
        /\ minValue \in Nat /\ idle \in Nat
    BY QueueAssumption DEF Init
  <2>4. /\ cooldown \in DefaultCooldown..MaxCooldown /\ settling \in BOOLEAN
        /\ budget \in Nat /\ distributed \in Nat /\ minAtOpen \in Nat /\ opened \in Nat
    BY <2>2 DEF Init
  <2>5. /\ requests \in Seq(Request) /\ head \in Nat \ {0}
        /\ queuedShares \in Nat /\ cash \in Nat
    BY <1>2, <2>1
  <2> QED
    BY <1>1, <2>3, <2>4, <2>5 DEF TypeOK
<1>4. Custody
  <2>1. Asked(0) = 0 /\ Claimable(0) = 0
    BY SumToZero DEF Asked, Claimable
  <2> QED
    BY <1>2, <2>1 DEF Custody
<1>5. FifoHead /\ BudgetBound /\ FloorReachable
  BY <1>2 DEF Init, FifoHead, BudgetBound, FloorReachable
<1> QED
  BY <1>1, <1>3, <1>4, <1>5 DEF IInv

----------------------------------------------------------------------------
(* The theorems *)

\* The invariant is inductive: Init establishes it and every step keeps it,
\* whatever the users, the marks, the halts and the batch sizes.
THEOREM Invariance == Spec => []IInv
<1>1. IInv /\ [Next]_vars => IInv'
  <2> SUFFICES ASSUME IInv, [Next]_vars PROVE IInv'
    OBVIOUS
  <2>1. CASE \E u \in Users, s \in Sizes : RequestRedeem(u, s)
    BY <2>1, RequestRedeemStep
  <2>2. CASE \E i \in 1..NumRequests : Claim(i)
    BY <2>2, ClaimStep
  <2>3. CASE Keeper
    BY <2>3, CloseEpochStep DEF Keeper
  <2>4. CASE Configure \/ \E x \in IdleLevels \ {idle} : MoveReserves(x)
    BY <2>4, ConfigureStep
  <2>5. CASE Tick
    BY <2>5, TickStep
  <2>6. CASE (VaultNext /\ UNCHANGED queueVars) \/ UNCHANGED vars
    BY <2>6, VaultOrStutterStep
  <2> QED
    BY <2>1, <2>2, <2>3, <2>4, <2>5, <2>6 DEF Next
<1> QED
  BY <1>1, InitInv, PTL DEF Spec

\* Every variable of the queue and of its vault keeps its type.
THEOREM TypeCorrect == Spec => []TypeOK
<1>1. IInv => TypeOK
  BY DEF IInv
<1> QED
  BY <1>1, Invariance, PTL

\* The vault always holds the yield it has yet to recognize.
THEOREM StreamAlwaysBacked == Spec => []StreamBacked
<1>1. IInv => StreamBacked
  BY DEF IInv
<1> QED
  BY <1>1, Invariance, PTL

\* The queue holds every queued share and exactly the USDfr it owes claimants.
THEOREM CustodyKept == Spec => []Custody
<1>1. IInv => Custody
  BY DEF IInv
<1> QED
  BY <1>1, Invariance, PTL

\* Exactly the requests before the head are full: FIFO never inverts.
THEOREM FifoNeverInverts == Spec => []FifoHead
<1>1. IInv => FifoHead
  BY DEF IInv
<1> QED
  BY <1>1, Invariance, PTL

\* No settlement distributes more than the budget it opened with.
THEOREM BudgetNeverExceeded == Spec => []BudgetBound
<1>1. IInv => BudgetBound
  BY DEF IInv
<1> QED
  BY <1>1, Invariance, PTL

\* RC-01: an open settlement can still reach the floor it opened under.
THEOREM FloorStaysReachable == Spec => []FloorReachable
<1>1. IInv => FloorReachable
  BY DEF IInv
<1> QED
  BY <1>1, Invariance, PTL

----------------------------------------------------------------------------
(* Rounding *)

\* shares worth at most m more fetch at most m more
LEMMA QuoteStep ==
  ASSUME NEW p \in PriceRecord, NEW s \in Nat, NEW t \in Nat, NEW m \in Nat,
         t * p.assets <= m * p.shares
  PROVE  AssetsFor(p, s + t) <= AssetsFor(p, s) + m
<1>1. PICK A \in Nat \ {0} : A = p.assets
  BY DEF PriceRecord
<1>2. PICK S \in Nat \ {0} : S = p.shares
  BY DEF PriceRecord
<1>3. s + t \in Nat
  OBVIOUS
<1>4. PICK q \in Nat : q = AssetsFor(p, s + t) /\ S * q <= (s + t) * A
  BY <1>1, <1>2, <1>3, AssetsForIs
<1>5. PICK r \in Nat : r = AssetsFor(p, s) /\ \A x \in Nat : S * x <= s * A => x <= r
  BY <1>1, <1>2, AssetsForIs
<1>6. CASE q <= m
  BY <1>4, <1>5, <1>6
<1>7. CASE q > m
  <2>1. PICK x \in Nat : x = q - m
    BY <1>7
  <2>2. S * x = S * q - S * m
    BY <2>1
  <2>3. (s + t) * A = s * A + t * A
    OBVIOUS
  <2>4. t * A <= S * m
    BY <1>1, <1>2
  <2>5. S * x <= s * A
    BY <1>4, <2>2, <2>3, <2>4
  <2>6. x <= r
    BY <1>5, <2>5
  <2> QED
    BY <1>4, <1>5, <2>1, <2>6
<1> QED
  BY <1>4, <1>6, <1>7

\* more shares never fetch less
LEMMA QuoteOrdered ==
  ASSUME NEW p \in PriceRecord, NEW s \in Nat, NEW t \in Nat, s <= t
  PROVE  AssetsFor(p, s) <= AssetsFor(p, t)
<1>1. PICK d \in Nat : t = s + d
  <2>1. t - s \in Nat /\ t = s + (t - s)
    OBVIOUS
  <2> QED
    BY <2>1
<1>2. AssetsFor(p, s) + AssetsFor(p, d) <= AssetsFor(p, s + d)
  BY AssetsForAdds
<1>3. AssetsFor(p, s) \in Nat /\ AssetsFor(p, d) \in Nat /\ AssetsFor(p, t) \in Nat
  BY AssetsForIs
<1> QED
  BY <1>1, <1>2, <1>3

\* previewWithdraw: the least number of shares worth an amount
LEMMA WithdrawIs ==
  ASSUME NEW p \in PriceRecord, NEW m \in Nat
  PROVE  /\ SharesToWithdraw(p, m) \in Nat
         /\ m * p.shares <= SharesToWithdraw(p, m) * p.assets
         /\ \A t \in Nat : t < SharesToWithdraw(p, m) => t * p.assets <= m * p.shares
<1>1. PICK A \in Nat \ {0} : A = p.assets
  BY DEF PriceRecord
<1>2. PICK S \in Nat \ {0} : S = p.shares
  BY DEF PriceRecord
<1>3. PICK n \in Nat : n = m * S
  OBVIOUS
<1>4. n + A - 1 \in Nat
  BY <1>1
<1>5. PICK r \in Nat : r = FloorDiv(n + A - 1, A) /\ A * r <= n + A - 1 /\ n + A - 1 < A * r + A
  BY <1>1, <1>4, FloorDivIs
<1>6. r = SharesToWithdraw(p, m)
  BY <1>1, <1>2, <1>3, <1>5 DEF SharesToWithdraw, CeilDiv, FloorDiv
<1>7. n <= A * r
  <2>1. A * r \in Nat
    OBVIOUS
  <2> QED
    BY <1>5, <2>1
<1>8. ASSUME NEW t \in Nat, t < r
      PROVE  t * A <= n
  <2>1. A * (t + 1) <= A * r
    BY <1>8
  <2>2. A * (t + 1) = t * A + A
    OBVIOUS
  <2>3. t * A \in Nat /\ A * r \in Nat
    OBVIOUS
  <2> QED
    BY <1>5, <2>1, <2>2, <2>3
<1> QED
  BY <1>1, <1>2, <1>3, <1>6, <1>7, <1>8

----------------------------------------------------------------------------
(* One fill *)

\* _safeBatchFill within the room the budget leaves: the fill fits the budget,
\* a partial fill leaves the residue, and no more than its value is withheld
LEMMA FillIs ==
  ASSUME NEW p \in PriceRecord, NEW b \in Nat, NEW prior \in Nat, NEW room \in Nat \ {0},
         NEW wanted \in Nat, prior + room = SharesFor(p, b), NEW fill,
         fill = SafeFill(p, b, prior, room, wanted)
  PROVE  /\ fill.shares \in Nat
         /\ AssetsFor(p, prior + fill.shares) <= b
         /\ fill.shares < wanted /\ fill.shares # 0
              => wanted - fill.shares >= SharesToWithdraw(p, MinResidueValue)
         /\ fill.withheld \in Nat /\ fill.withheld <= MinResidueValue
<1>1. MinResidueValue \in Nat \ {0}
  BY QueueAssumption
<1>2. PICK residue \in Nat : /\ residue = SharesToWithdraw(p, MinResidueValue)
                             /\ \A t \in Nat : t < residue => t * p.assets <= MinResidueValue * p.shares
  BY <1>1, WithdrawIs
<1>3. PICK capped \in Nat : capped = Lesser(wanted, room) /\ capped <= wanted /\ capped <= room
  BY DEF Lesser
<1>4. PICK reduced \in Nat : reduced = Minus(wanted, residue)
  <2>1. Minus(wanted, residue) \in Nat
    BY DEF Minus
  <2> QED
    BY <2>1
<1>5. ASSUME NEW s \in Nat, s <= capped
      PROVE  AssetsFor(p, prior + s) <= b
  <2>1. prior + s \in Nat /\ prior + s <= SharesFor(p, b)
    BY <1>3, <1>5
  <2> QED
    BY <2>1, CapWithinBudget
<1>6. CASE capped = wanted \/ wanted - capped >= residue
  <2>1. fill.shares = capped /\ fill.withheld = 0
    BY <1>2, <1>3, <1>6 DEF SafeFill
  <2> QED
    BY <1>1, <1>2, <1>3, <1>5, <1>6, <2>1
<1>7. CASE ~(capped = wanted \/ wanted - capped >= residue)
  <2>1. reduced <= capped /\ capped - reduced < residue
    BY <1>3, <1>4, <1>7 DEF Minus
  <2>2. CASE AssetsFor(p, room) # 0 /\ AssetsFor(p, prior + wanted) <= b
    <3>1. fill.shares = wanted /\ fill.withheld = 0
      BY <1>2, <1>3, <1>7, <2>2 DEF SafeFill
    <3> QED
      BY <1>1, <2>2, <3>1
  <2>3. CASE ~(AssetsFor(p, room) # 0 /\ AssetsFor(p, prior + wanted) <= b)
    <3>1. /\ fill.shares = reduced
          /\ fill.withheld = AssetsFor(p, prior + capped) - AssetsFor(p, prior + reduced)
      BY <1>2, <1>3, <1>4, <1>7, <2>3 DEF SafeFill
    <3>2. PICK t \in Nat : t = capped - reduced
      BY <2>1
    <3>3. t * p.assets <= MinResidueValue * p.shares
      BY <1>2, <2>1, <3>2
    <3>4. PICK s \in Nat : s = prior + reduced
      OBVIOUS
    <3>5. prior + capped = s + t
      BY <3>2, <3>4
    <3>6. /\ AssetsFor(p, s + t) <= AssetsFor(p, s) + MinResidueValue
          /\ AssetsFor(p, s) <= AssetsFor(p, s + t)
      BY <1>1, <3>3, QuoteStep, QuoteOrdered
    <3>7. AssetsFor(p, s) \in Nat /\ AssetsFor(p, s + t) \in Nat
      BY AssetsForIs
    <3>8. fill.withheld \in Nat /\ fill.withheld <= MinResidueValue
      BY <1>1, <3>1, <3>4, <3>5, <3>6, <3>7
    <3>9. AssetsFor(p, prior + fill.shares) <= b
      BY <1>5, <2>1, <3>1
    <3>10. fill.shares # 0 => wanted - fill.shares >= residue
      BY <1>4, <3>1 DEF Minus
    <3> QED
      BY <1>2, <3>1, <3>8, <3>9, <3>10
  <2> QED
    BY <2>2, <2>3
<1> QED
  BY <1>6, <1>7

----------------------------------------------------------------------------
(* The selected batch *)

\* the batch a call selects fills every request but perhaps the last whole, and
\* the last one as _safeBatchFill says; the rest of what it says is about a request
\* the budget reaches
Selected(p, b, batch) ==
  /\ \A i \in head..batch.last : Taken(p, b, i) /\ batch.fill[i] = FillAt(p, b, i).shares
  /\ \A i \in head..(batch.last - 1) : TakenWhole(p, b, i)
  /\ \/ batch.withheld = 0
     \/ \E x \in head..NumRequests :
          /\ SharesFor(p, b) > Prior(x)
          /\ batch.withheld = FillAt(p, b, x).withheld

\* _selectPricingBatch selects such a batch
LEMMA SelectBatchTakes ==
  ASSUME requests \in Seq(Request), head \in Nat \ {0}, head <= NumRequests + 1,
         NEW p \in PriceRecord, NEW b \in Nat, NEW max \in Nat \ {0}
  PROVE  Selected(p, b, SelectBatch(p, b, max))
<1> DEFINE end  == Lesser(NumRequests, head + max - 1)
           ends == {i \in head..end : ~TakenWhole(p, b, i)}
           x    == Min(ends)
           batch == SelectBatch(p, b, max)
<1>1. NumRequests \in Nat
  BY BookSums
<1>2. end \in Nat /\ end <= NumRequests
  BY <1>1 DEF Lesser
<1> HIDE DEF end
<1>4. CASE end < head \/ SharesFor(p, b) = 0
  <2>1. batch.last = head - 1 /\ batch.withheld = 0
    BY <1>4 DEF SelectBatch, Batch, end
  <2> HIDE DEF batch
  <2>2. /\ \A i \in head..(head - 1) : FALSE
        /\ \A i \in head..((head - 1) - 1) : FALSE
    OBVIOUS
  <2>3. Selected(p, b, batch)
    BY <2>1, <2>2 DEF Selected
  <2> QED
    BY <2>3 DEF batch
<1>5. CASE ~(end < head) /\ SharesFor(p, b) # 0 /\ ends = {}
  <2>1. batch = [last |-> end, stop |-> "chunk", withheld |-> 0,
                 fill |-> [i \in 1..NumRequests |-> IF i \in head..end THEN requests[i].shares ELSE 0]]
    BY <1>5, Zenon DEF SelectBatch, Batch, end
  <2>2. \A i \in head..end : TakenWhole(p, b, i)
    BY <1>5
  <2> HIDE DEF batch
  <2>3. batch.last = end /\ batch.withheld = 0
    BY <2>1
  <2>4. ASSUME NEW i \in head..end
        PROVE  Taken(p, b, i) /\ batch.fill[i] = FillAt(p, b, i).shares
    <3>1. i \in 1..NumRequests
      BY <1>1, <1>2
    <3>2. batch.fill[i] = requests[i].shares
      BY <2>1, <3>1
    <3> QED
      BY <2>2, <3>2 DEF TakenWhole
  <2>5. \A i \in head..(end - 1) : i \in head..end
    BY <1>2
  <2>6. Selected(p, b, batch)
    BY <2>2, <2>3, <2>4, <2>5 DEF Selected
  <2> QED
    BY <2>6 DEF batch
<1>6. CASE ~(end < head) /\ SharesFor(p, b) # 0 /\ ends # {}
  <2> DEFINE last == IF Taken(p, b, x) THEN x ELSE x - 1
  <2>1. x \in ends /\ \A y \in ends : x <= y
    <3>1. ends \in SUBSET Nat
      BY <1>2
    <3> QED
      BY <1>6, <3>1, LeastElement DEF Min
  <2>2. batch = Batch(last, StopAt(p, b, x),
                      IF Eligible(x) /\ SharesFor(p, b) > Prior(x) THEN FillAt(p, b, x).withheld ELSE 0,
                      LAMBDA i : FillAt(p, b, i).shares)
    BY <1>6, Zenon DEF SelectBatch, Batch, end
  <2>3. x \in head..NumRequests
    BY <1>1, <1>2, <2>1
  <2>4. \A i \in head..(x - 1) : TakenWhole(p, b, i)
    BY <1>2, <2>1
  <2> HIDE DEF batch, x, last
  <2>5. /\ batch.last = last
        /\ batch.withheld = IF Eligible(x) /\ SharesFor(p, b) > Prior(x) THEN FillAt(p, b, x).withheld ELSE 0
        /\ batch.fill = [i \in 1..NumRequests |-> IF i \in head..last THEN FillAt(p, b, i).shares ELSE 0]
    BY <2>2 DEF Batch
  <2>6. last \in (head - 1)..NumRequests /\ last <= x /\ (last = x => Taken(p, b, x))
    BY <1>1, <2>3 DEF last
  <2>7. ASSUME NEW i \in head..last
        PROVE  Taken(p, b, i) /\ batch.fill[i] = FillAt(p, b, i).shares
    <3>1. i \in 1..NumRequests /\ i \in Int /\ x \in Int
      BY <1>1, <2>3, <2>6
    <3>2. batch.fill[i] = FillAt(p, b, i).shares
      BY <2>5, <3>1
    <3>3. Taken(p, b, i)
      <4>1. CASE i = x
        <5>1. last = x
          BY <2>3, <2>6, <3>1, <4>1
        <5> QED
          BY <2>6, <4>1, <5>1
      <4>2. CASE i # x
        <5>1. i \in head..(x - 1)
          BY <2>3, <2>6, <3>1, <4>2
        <5> QED
          BY <2>4, <5>1 DEF TakenWhole
      <4> QED
        BY <4>1, <4>2
    <3> QED
      BY <3>2, <3>3
  <2>8. \A i \in head..(last - 1) : TakenWhole(p, b, i)
    BY <2>3, <2>4, <2>6
  <2>9. \/ batch.withheld = 0
        \/ SharesFor(p, b) > Prior(x) /\ batch.withheld = FillAt(p, b, x).withheld
    BY <2>5
  <2>10. Selected(p, b, batch)
    BY <2>3, <2>5, <2>7, <2>8, <2>9 DEF Selected
  <2> QED
    BY <2>10 DEF batch
<1> QED
  BY <1>2, <1>4, <1>5, <1>6

\* the filled requests before the head ask for nothing, so what the selection
\* counts as taken before a request is all that is asked for before it
LEMMA PriorIs ==
  ASSUME requests \in Seq(Request), head \in Nat \ {0}, FifoHead,
         NEW i \in head..NumRequests
  PROVE  Prior(i) = Asked(i - 1) /\ Prior(i) \in Nat
<1>1. /\ NumRequests \in Nat /\ head - 1 \in 0..NumRequests /\ i - 1 \in 0..NumRequests
      /\ head - 1 \in Nat
  BY BookSums
<1>2. /\ Asked(head - 1) = SumTo(Shares(requests), head - 1)
      /\ Asked(i - 1) \in Nat
  BY <1>1, BookSums
<1>3. ASSUME NEW k \in 1..(head - 1)
      PROVE  Shares(requests)[k] = 0
  <2>1. k \in 1..NumRequests /\ k < head
    BY <1>1
  <2>2. Shares(requests)[k] = requests[k].shares
    BY <2>1, BookSums
  <2> QED
    BY <2>1, <2>2 DEF FifoHead
<1>4. SumTo(Shares(requests), head - 1) = 0 * (head - 1)
  BY <1>1, <1>3, SumToConst
<1>5. Asked(head - 1) = 0
  BY <1>1, <1>2, <1>4
<1> QED
  BY <1>2, <1>5 DEF Prior

\* what a selected batch that is also good takes in all
LEMMA BatchSharesAre ==
  ASSUME requests \in Seq(Request), head \in Nat \ {0}, FifoHead,
         NEW batch, GoodBatch(batch), batch.last \in head..NumRequests
  PROVE  BatchShares(batch) = Prior(batch.last) + batch.fill[batch.last]
<1>1. NumRequests \in Nat
  BY BookSums
<1>2. PICK last \in head..NumRequests : last = batch.last
  OBVIOUS
<1>3. /\ last \in Nat /\ last # 0 /\ last \in 0..NumRequests /\ last \in 1..NumRequests
      /\ last - 1 \in 0..NumRequests /\ last - 1 \in Nat
  BY <1>1
<1>4. \A k \in 1..NumRequests : batch.fill[k] \in Int /\ (k > last => batch.fill[k] = 0)
  <2>1. \A k \in 1..NumRequests : batch.fill[k] \in Nat /\ (k \notin head..last => batch.fill[k] = 0)
    BY <1>2 DEF GoodBatch
  <2>2. \A k \in 1..NumRequests : k > last => k \notin head..last
    BY <1>1
  <2> QED
    BY <2>1, <2>2
<1>5. SumTo(batch.fill, NumRequests) = SumTo(batch.fill, last)
  BY <1>1, <1>3, <1>4, SumToTail
<1>6. SumTo(batch.fill, last) = SumTo(batch.fill, last - 1) + batch.fill[last]
  BY <1>3, SumToStep
<1>7. ASSUME NEW k \in 1..(last - 1)
      PROVE  batch.fill[k] = Shares(requests)[k]
  <2>1. k \in 1..NumRequests /\ k < last
    BY <1>1
  <2>2. Shares(requests)[k] = requests[k].shares
    BY <2>1, BookSums
  <2>3. CASE k < head
    <3>1. requests[k].shares = 0
      BY <2>1, <2>3 DEF FifoHead
    <3>2. k \notin head..batch.last
      BY <2>3
    <3>3. batch.fill[k] = 0
      BY <2>1, <3>2 DEF GoodBatch
    <3> QED
      BY <2>2, <3>1, <3>3
  <2>4. CASE k >= head
    <3>1. k \in head..(batch.last - 1)
      BY <1>2, <2>1, <2>4
    <3>2. batch.fill[k] = requests[k].shares
      BY <2>1, <3>1 DEF GoodBatch
    <3> QED
      BY <2>2, <3>2
  <2> QED
    BY <2>1, <2>3, <2>4
<1>8. SumTo(batch.fill, last - 1) = SumTo(Shares(requests), last - 1)
  BY <1>3, <1>7, SumToSame
<1>9. Prior(last) = SumTo(Shares(requests), last - 1)
  BY <1>3, PriorIs, BookSums
<1> QED
  BY <1>2, <1>5, <1>6, <1>8, <1>9 DEF BatchShares

\* what the reverts of _executePricingBatch and _allocateBatchReceipt, the
\* residue and the withheld amount ask of a batch
LEMMA BatchFits ==
  ASSUME requests \in Seq(Request), head \in Nat \ {0}, FifoHead,
         NEW p \in PriceRecord, NEW b \in Nat,
         NEW batch, GoodBatch(batch), Selected(p, b, batch)
  PROVE  /\ AssetsFor(p, BatchShares(batch)) <= b
         /\ \A i \in head..batch.last : AssetsFor(p, batch.fill[i]) # 0
         /\ batch.last \in head..NumRequests
              /\ batch.fill[batch.last] < requests[batch.last].shares
              /\ batch.fill[batch.last] # 0
            => requests[batch.last].shares - batch.fill[batch.last]
                 >= SharesToWithdraw(p, MinResidueValue)
         /\ batch.withheld \in Nat /\ batch.withheld <= MinResidueValue
<1>1. NumRequests \in Nat /\ SharesFor(p, b) \in Nat /\ MinResidueValue \in Nat
  BY BookSums, SharesForIs, QueueAssumption
<1>2. ASSUME NEW i \in head..NumRequests, SharesFor(p, b) > Prior(i)
      PROVE  LET fill == FillAt(p, b, i)
             IN  /\ fill.shares \in Nat
                 /\ AssetsFor(p, Prior(i) + fill.shares) <= b
                 /\ fill.shares < requests[i].shares /\ fill.shares # 0
                      => requests[i].shares - fill.shares >= SharesToWithdraw(p, MinResidueValue)
                 /\ fill.withheld \in Nat /\ fill.withheld <= MinResidueValue
  <2>1. PICK prior \in Nat : prior = Prior(i)
    BY PriorIs
  <2>2. PICK room \in Nat \ {0} : room = SharesFor(p, b) - Prior(i)
    <3>1. SharesFor(p, b) - Prior(i) \in Nat \ {0}
      BY <1>1, <1>2, <2>1
    <3> QED
      BY <3>1
  <2>3. PICK wanted \in Nat : wanted = requests[i].shares
    <3>1. i \in 1..NumRequests
      BY <1>1
    <3> QED
      BY <3>1, BookSums
  <2>4. FillAt(p, b, i) = SafeFill(p, b, prior, room, wanted)
    BY <2>1, <2>2, <2>3 DEF FillAt
  <2>5. prior + room = SharesFor(p, b)
    BY <1>1, <2>1, <2>2
  <2> QED
    BY <2>1, <2>3, <2>4, <2>5, FillIs
<1>3. batch.withheld \in Nat /\ batch.withheld <= MinResidueValue
  BY <1>1, <1>2 DEF Selected
<1>4. \A i \in head..batch.last : AssetsFor(p, batch.fill[i]) # 0
  BY DEF Selected, Taken
<1>5. CASE batch.last \in head..NumRequests
  <2>1. batch.last \in head..batch.last
    BY <1>1, <1>5
  <2>2. /\ SharesFor(p, b) > Prior(batch.last)
        /\ batch.fill[batch.last] = FillAt(p, b, batch.last).shares
    BY <2>1 DEF Selected, Taken
  <2>3. BatchShares(batch) = Prior(batch.last) + batch.fill[batch.last]
    BY <1>5, BatchSharesAre
  <2> QED
    BY <1>2, <1>3, <1>4, <1>5, <2>2, <2>3
<1>6. CASE batch.last \notin head..NumRequests
  <2>1. BatchShares(batch) = 0
    BY <1>6, BatchSharesOK
  <2>2. AssetsFor(p, BatchShares(batch)) = 0
    BY <2>1, NothingForNothing
  <2> QED
    BY <1>3, <1>4, <1>6, <2>2
<1> QED
  BY <1>5, <1>6

----------------------------------------------------------------------------
(* A call never reverts for its pricing *)

\* the batch a call selects is a good one within the budget, the custody and
\* what the exit price leaves in the vault
LEMMA CallSelects ==
  ASSUME IInv, NEW f \in FeesDue, NEW max \in Chunks, NEW batch,
         batch = SelectBatch(CallPrice(f), CallBudget, max)
  PROVE  /\ GoodBatch(batch) /\ Selected(CallPrice(f), CallBudget, batch)
         /\ BatchShares(batch) \in Nat
         /\ BatchShares(batch) <= bal[Queue] /\ bal[Queue] <= supply
         /\ AssetsFor(CallPrice(f), BatchShares(batch)) \in Nat
         /\ AssetsFor(CallPrice(f), BatchShares(batch)) <= CallBudget
         /\ AssetsFor(CallPrice(f), BatchShares(batch)) <= ExitAssets(held, Released, mark)
<1> DEFINE p == CallPrice(f)
           burned == BatchShares(batch)
<1>1. /\ requests \in Seq(Request) /\ head \in Nat \ {0} /\ head <= NumRequests + 1
      /\ FifoHead /\ Custody /\ max \in Nat \ {0}
      /\ bal \in [Holders -> Nat] /\ TotalShares(bal) = supply /\ supply \in Nat
  BY QueueAssumption DEF IInv, TypeOK, VaultTypeOK, FifoHead
<1>2. /\ p \in PriceRecord /\ CallBudget \in Nat
      /\ p.assets = ExitAssets(held, Released, mark) + 1
      /\ p.shares = supply + f + VirtualShares
      /\ ExitAssets(held, Released, mark) \in Nat
  BY CallTerms
<1> HIDE DEF p
<1>3. GoodBatch(batch) /\ Selected(p, CallBudget, batch)
  BY <1>1, <1>2, SelectBatchOK, SelectBatchTakes DEF p
<1>4. AssetsFor(p, burned) <= CallBudget
  BY <1>1, <1>2, <1>3, BatchFits
<1>5. burned \in Nat /\ burned <= Asked(NumRequests)
  BY <1>1, <1>3, BatchSharesOK
<1>6. bal[Queue] \in Nat /\ bal[Queue] <= supply
  BY <1>1, HoldersAre, TotalSharesNat
<1>7. burned <= bal[Queue]
  <2>1. Asked(NumRequests) <= bal[Queue] /\ Asked(NumRequests) \in Nat
    <3>1. NumRequests \in 0..NumRequests
      BY <1>1, BookSums
    <3> QED
      BY <1>1, <3>1, BookSums DEF Custody
  <2> QED
    BY <1>5, <1>6, <2>1
<1> HIDE DEF burned
<1>8. AssetsFor(p, burned) \in Nat
  BY <1>2, <1>5, AssetsForIs
<1>9. AssetsFor(p, burned) <= ExitAssets(held, Released, mark)
  <2>1. f \in Nat /\ VirtualShares \in Nat \ {0}
    BY FeesAreNat, VaultAssumption
  <2>2. burned < p.shares
    BY <1>1, <1>2, <1>5, <1>6, <1>7, <2>1
  <2>3. AssetsFor(p, burned) < p.assets
    BY <1>2, <1>5, <2>2, ExitCovered
  <2> QED
    BY <1>2, <1>8, <2>3
<1> QED
  BY <1>3, <1>4, <1>5, <1>6, <1>7, <1>8, <1>9 DEF p, burned

\* every item of a selected batch is paid its own quote at least, and not nothing
LEMMA ItemsPaid ==
  ASSUME requests \in Seq(Request), head \in Nat \ {0}, FifoHead,
         NEW p \in PriceRecord, NEW b \in Nat,
         NEW batch, GoodBatch(batch), Selected(p, b, batch),
         NEW received, received = AssetsFor(p, BatchShares(batch)),
         NEW i \in head..batch.last
  PROVE  /\ Payout(p, batch, received, i) >= AssetsFor(p, batch.fill[i])
         /\ Payout(p, batch, received, i) > 0
<1> DEFINE quote == [k \in 1..NumRequests |-> AssetsFor(p, batch.fill[k])]
<1>1. NumRequests \in Nat
  BY BookSums
<1>2. batch.last \in (head - 1)..NumRequests
  BY DEF GoodBatch
<1>3. /\ batch.last \in head..NumRequests /\ i \in 1..NumRequests
      /\ batch.last \in 1..NumRequests
  BY <1>1, <1>2
<1>4. \A k \in 1..NumRequests : batch.fill[k] \in Nat /\ quote[k] = AssetsFor(p, batch.fill[k])
  BY DEF GoodBatch
<1>5. \A k \in 1..NumRequests : quote[k] \in Nat
  BY <1>4, AssetsForIs
<1>6. QuotedBefore(p, batch) = SumTo(quote, batch.last - 1)
  BY DEF QuotedBefore
<1> HIDE DEF quote
<1>7. quote[i] \in Nat /\ quote[i] # 0 /\ quote[i] = AssetsFor(p, batch.fill[i])
  BY <1>3, <1>4, <1>5, BatchFits
<1>8. CASE i # batch.last
  BY <1>7, <1>8 DEF Payout
<1>9. CASE i = batch.last
  <2>1. SumTo(quote, NumRequests) <= received
    BY <1>1, <1>4, QuotesWithinReceipt DEF BatchShares
  <2>2. i \in 0..NumRequests /\ i \in Nat /\ i # 0 /\ i - 1 \in Nat
    BY <1>1, <1>3
  <2>3. SumTo(quote, i) <= SumTo(quote, NumRequests)
    BY <1>1, <1>5, <2>2, SumToGrows
  <2>4. SumTo(quote, i) = SumTo(quote, i - 1) + quote[i]
    BY <2>2, SumToStep
  <2>5. SumTo(quote, i - 1) \in Nat /\ SumTo(quote, NumRequests) \in Nat
    <3>1. \A k \in 1..(i - 1) : quote[k] \in Nat
      BY <1>1, <1>5, <2>2
    <3> QED
      BY <1>1, <1>5, <2>2, <3>1, SumToNat
  <2>6. received \in Nat
    BY BatchSharesOK, AssetsForIs
  <2>7. Payout(p, batch, received, i) = received - SumTo(quote, i - 1)
    BY <1>6, <1>9 DEF Payout
  <2> QED
    BY <1>7, <2>1, <2>3, <2>4, <2>5, <2>6, <2>7
<1> QED
  BY <1>8, <1>9

\* The reverts of _executePricingBatch and _allocateBatchReceipt never stop a
\* settlement: whatever the chunk and the fees, the batch selected fits budget
\* and custody and each of its items is paid.
THEOREM PricingNeverFails == Spec => []PricingNeverReverts
<1>1. IInv => PricingNeverReverts
  <2> SUFFICES ASSUME IInv, NEW max \in Chunks, NEW f \in FeesDue,
                      NEW p, p = CallPrice(f),
                      NEW batch, batch = SelectBatch(p, CallBudget, max),
                      NEW received, received = AssetsFor(p, BatchShares(batch))
               PROVE  /\ received <= CallBudget
                      /\ received <= ExitAssets(held, Released, mark)
                      /\ BatchShares(batch) <= bal[Queue]
                      /\ \A i \in head..batch.last : Payout(p, batch, received, i) >= AssetsFor(p, batch.fill[i])
                                                  /\ Payout(p, batch, received, i) > 0
    BY DEF PricingNeverReverts
  <2>1. /\ GoodBatch(batch) /\ Selected(p, CallBudget, batch)
        /\ received <= CallBudget
        /\ received <= ExitAssets(held, Released, mark)
        /\ BatchShares(batch) <= bal[Queue]
    BY CallSelects
  <2>2. /\ requests \in Seq(Request) /\ head \in Nat \ {0} /\ FifoHead
        /\ p \in PriceRecord /\ CallBudget \in Nat
    BY CallTerms DEF IInv, TypeOK
  <2> QED
    BY <2>1, <2>2, ItemsPaid
<1> QED
  BY <1>1, Invariance, PTL

----------------------------------------------------------------------------
(* Fills and the heartbeat *)

\* between settlements nothing has been distributed
AtRest == ~settling => distributed = 0

\* one settlement call, in its terms
LEMMA CallIs ==
  ASSUME IInv, Keeper
  PROVE  \E f, max, batch :
           /\ f \in FeesDue /\ max \in Chunks
           /\ batch = SelectBatch(CallPrice(f), CallBudget, max)
           /\ Execute(CallPrice(f), CallBudget, batch, f, Released)
           /\ \/ StayOpen(AssetsFor(CallPrice(f), BatchShares(batch))) /\ ~Drained'
              \/ CloseOut(AssetsFor(CallPrice(f), BatchShares(batch)), batch.withheld)
           /\ UNCHANGED <<vesting, mark, halts, sanctioned, configVars, idle>>
<1>1. PICK max \in Chunks : CloseEpoch(max)
  BY DEF Keeper
<1>2. PICK f \in FeesDue : \E batch \in {SelectBatch(CallPrice(f), CallBudget, max)} :
        /\ Execute(CallPrice(f), CallBudget, batch, f, Released)
        /\ IF ~Drained' /\ batch.stop = "chunk"
           THEN StayOpen(AssetsFor(CallPrice(f), BatchShares(batch)))
           ELSE CloseOut(AssetsFor(CallPrice(f), BatchShares(batch)), batch.withheld)
  BY <1>1 DEF CloseEpoch
<1>3. UNCHANGED <<vesting, mark, halts, sanctioned, configVars, idle>>
  BY <1>1 DEF CloseEpoch
<1> QED
  BY <1>2, <1>3

\* what a call does to each request
LEMMA CallFills ==
  ASSUME IInv, NEW f \in FeesDue, NEW batch, GoodBatch(batch),
         Execute(CallPrice(f), CallBudget, batch, f, Released),
         NEW i \in 1..NumRequests
  PROVE  \/ /\ i \in head..batch.last
            /\ requests'[i].shares = requests[i].shares - batch.fill[i]
            /\ requests'[i].claimable = requests[i].claimable
                 + Payout(CallPrice(f), batch, AssetsFor(CallPrice(f), BatchShares(batch)), i)
         \/ requests'[i].shares = requests[i].shares
<1>1. requests \in Seq(Request)
  BY DEF IInv, TypeOK
<1>2. requests[i] \in Request /\ requests[i].shares \in Nat
  BY <1>1, BookSums DEF Request
<1>3. batch.fill[i] \in Nat /\ (i \notin head..batch.last => batch.fill[i] = 0)
  BY DEF GoodBatch
<1>4. CASE BatchShares(batch) = 0
  <2>1. requests' = requests
    BY <1>4 DEF Execute, bookVars
  <2> QED
    BY <2>1
<1>5. CASE BatchShares(batch) # 0
  <2>1. requests'[i] = [requests[i] EXCEPT !.shares = @ - batch.fill[i],
          !.claimable = @ + Payout(CallPrice(f), batch, AssetsFor(CallPrice(f), BatchShares(batch)), i)]
    BY <1>5 DEF Execute
  <2>2. /\ requests'[i].shares = requests[i].shares - batch.fill[i]
        /\ requests'[i].claimable = requests[i].claimable
             + Payout(CallPrice(f), batch, AssetsFor(CallPrice(f), BatchShares(batch)), i)
    BY <1>2, <2>1 DEF Request
  <2> QED
    BY <1>2, <1>3, <2>2
<1> QED
  BY <1>4, <1>5

\* no other step fills a request or touches an open settlement
LEMMA OthersFillNothing ==
  ASSUME IInv, [Next]_vars, ~Keeper
  PROVE  /\ \A i \in 1..NumRequests : requests'[i].shares = requests[i].shares
         /\ UNCHANGED settlementVars
         /\ epochLeft' <= epochLeft
<1>1. /\ requests \in Seq(Request) /\ NumRequests \in Nat
      /\ \A i \in 1..NumRequests : requests[i] \in Request
      /\ epochLeft \in Nat
  BY BookSums DEF IInv, TypeOK
<1>2. ASSUME NEW u \in Users, NEW s \in Sizes, RequestRedeem(u, s)
      PROVE  /\ \A i \in 1..NumRequests : requests'[i].shares = requests[i].shares
             /\ UNCHANGED settlementVars /\ epochLeft' = epochLeft
  <2>1. requests' = Append(requests, [owner |-> u, age |-> 0, shares |-> s, claimable |-> 0])
    BY <1>2 DEF RequestRedeem
  <2>2. \A i \in 1..NumRequests : requests'[i] = requests[i]
    BY <1>1, <2>1 DEF NumRequests
  <2> QED
    BY <1>2, <2>2 DEF RequestRedeem
<1>3. ASSUME NEW j \in 1..NumRequests, Claim(j)
      PROVE  /\ \A i \in 1..NumRequests : requests'[i].shares = requests[i].shares
             /\ UNCHANGED settlementVars /\ epochLeft' = epochLeft
  <2>1. requests' = [requests EXCEPT ![j].claimable = 0]
    BY <1>3 DEF Claim
  <2>2. \A i \in 1..NumRequests : requests'[i].shares = requests[i].shares
    BY <1>1, <2>1 DEF Request, NumRequests
  <2> QED
    BY <1>3, <2>2 DEF Claim
<1>4. CASE Tick
  <2>1. requests' = [i \in 1..NumRequests |-> [requests[i] EXCEPT !.age = Lesser(@ + 1, MaxCooldown)]]
    BY <1>4 DEF Tick
  <2>2. \A i \in 1..NumRequests : requests'[i].shares = requests[i].shares
    BY <1>1, <2>1 DEF Request
  <2>3. epochLeft' <= epochLeft
    BY <1>1, <1>4 DEF Tick, Minus
  <2> QED
    BY <1>4, <2>2, <2>3 DEF Tick
<1>5. CASE \/ Configure \/ \E x \in IdleLevels \ {idle} : MoveReserves(x)
           \/ (VaultNext /\ UNCHANGED queueVars) \/ UNCHANGED vars
  <2>1. UNCHANGED <<requests, epochLeft, settlementVars>>
    BY <1>5 DEF Configure, MoveReserves, SetEpochDuration, SetEpochLiquidityBps,
                SetRedeemCooldown, SetMinRedemptionValue, queueVars, bookVars, vars, settlementVars
  <2> QED
    BY <1>1, <2>1
<1> QED
  BY <1>1, <1>2, <1>3, <1>4, <1>5 DEF Next

\* the batch fills live requests in order, each after its cooldown and each
\* for something
LEMMA CallFillsFairly ==
  ASSUME IInv, NEW f \in FeesDue, NEW max \in Chunks, NEW batch,
         batch = SelectBatch(CallPrice(f), CallBudget, max),
         Execute(CallPrice(f), CallBudget, batch, f, Released),
         NEW i \in 1..NumRequests, requests'[i].shares < requests[i].shares
  PROVE  /\ BatchShares(batch) # 0
         /\ i \in head..batch.last
         /\ requests'[i].shares = requests[i].shares - batch.fill[i]
         /\ requests[i].age >= cooldown
         /\ requests'[i].claimable > requests[i].claimable
         /\ \A j \in 1..(i - 1) : requests'[j].shares = 0
<1> DEFINE p == CallPrice(f)
           received == AssetsFor(p, BatchShares(batch))
<1>1. /\ requests \in Seq(Request) /\ head \in Nat \ {0} /\ FifoHead
      /\ p \in PriceRecord /\ CallBudget \in Nat
  BY CallTerms DEF IInv, TypeOK
<1>2. GoodBatch(batch) /\ Selected(p, CallBudget, batch)
  BY CallSelects
<1>3. /\ NumRequests \in Nat
      /\ \A j \in 1..NumRequests : requests[j].shares \in Nat /\ requests[j].claimable \in Nat
  BY <1>1, BookSums DEF Request
<1>4. /\ i \in head..batch.last
      /\ requests'[i].shares = requests[i].shares - batch.fill[i]
      /\ requests'[i].claimable = requests[i].claimable + Payout(p, batch, received, i)
  BY <1>2, <1>3, CallFills
<1>5. Payout(p, batch, received, i) > 0
  BY <1>1, <1>2, <1>4, ItemsPaid
<1>6. BatchShares(batch) # 0
  <2>1. ASSUME BatchShares(batch) = 0 PROVE FALSE
    <3>1. requests' = requests
      BY <2>1 DEF Execute, bookVars
    <3> QED
      BY <1>3, <3>1
  <2> QED
    BY <2>1
<1>7. Payout(p, batch, received, i) \in Nat
  <2>1. batch.last \in head..NumRequests /\ BatchShares(batch) \in Nat
    BY <1>1, <1>2, <1>6, BatchSharesOK
  <2>2. received \in Nat
    BY <1>1, <2>1, AssetsForIs
  <2> QED
    BY <1>1, <1>2, <2>1, <2>2, ReceiptAllocated
<1>8. Eligible(i)
  BY <1>2, <1>4 DEF Selected, Taken
<1>9. ASSUME NEW j \in 1..(i - 1)
      PROVE  requests'[j].shares = 0
  <2>1. j \in 1..NumRequests /\ j < i
    BY <1>3
  <2>2. requests'[j].shares = requests[j].shares - batch.fill[j]
    <3>1. requests' = [k \in 1..NumRequests |->
            [requests[k] EXCEPT !.shares = @ - batch.fill[k], !.claimable = @ + Payout(p, batch, received, k)]]
      BY <1>6 DEF Execute
    <3>2. requests[j] \in Request
      BY <1>1, <2>1, BookSums
    <3> QED
      BY <2>1, <3>1, <3>2 DEF Request
  <2>3. CASE j < head
    <3>1. requests[j].shares = 0 /\ batch.fill[j] = 0
      BY <1>1, <1>2, <2>1, <2>3 DEF FifoHead, GoodBatch
    <3> QED
      BY <2>2, <3>1
  <2>4. CASE j >= head
    <3>1. batch.last \in (head - 1)..NumRequests
      BY <1>2 DEF GoodBatch
    <3>2. j \in head..(batch.last - 1)
      BY <1>1, <1>3, <1>4, <2>1, <2>4, <3>1
    <3>3. batch.fill[j] = requests[j].shares
      BY <1>2, <2>1, <3>2 DEF GoodBatch
    <3> QED
      BY <1>3, <2>1, <2>2, <3>3
  <2> QED
    BY <1>1, <2>1, <2>3, <2>4
<1> QED
  BY <1>3, <1>4, <1>5, <1>6, <1>7, <1>8, <1>9 DEF Eligible

\* C-1: a request is filled only when every earlier one is full at the end of the
\* same call, never before its cooldown and never for nothing (closeEpoch).
THEOREM FillsAreFair == Spec => FairFills
<1>1. IInv /\ [Next]_vars =>
        [\A i \in 1..NumRequests : requests'[i].shares < requests[i].shares =>
            /\ \A j \in 1..(i - 1) : requests'[j].shares = 0
            /\ requests[i].age >= cooldown
            /\ requests'[i].claimable > requests[i].claimable]_vars
  <2> SUFFICES ASSUME IInv, [Next]_vars, NEW i \in 1..NumRequests,
                      requests'[i].shares < requests[i].shares
               PROVE  /\ \A j \in 1..(i - 1) : requests'[j].shares = 0
                      /\ requests[i].age >= cooldown
                      /\ requests'[i].claimable > requests[i].claimable
    OBVIOUS
  <2>1. requests[i].shares \in Nat
    BY BookSums DEF IInv, TypeOK, Request
  <2>2. Keeper
    BY <2>1, OthersFillNothing
  <2> QED
    BY <2>2, CallIs, CallFillsFairly
<1> QED
  BY <1>1, Invariance, PTL DEF Spec, FairFills

\* a call pays out what its batch received
LEMMA CallPays ==
  ASSUME IInv, NEW f \in FeesDue, NEW max \in Chunks, NEW batch,
         batch = SelectBatch(CallPrice(f), CallBudget, max),
         Execute(CallPrice(f), CallBudget, batch, f, Released)
  PROVE  /\ cash' - cash = AssetsFor(CallPrice(f), BatchShares(batch))
         /\ AssetsFor(CallPrice(f), BatchShares(batch)) \in Nat
         /\ batch.withheld \in Nat /\ batch.withheld <= MinResidueValue
<1>1. /\ cash \in Nat /\ CallPrice(f) \in PriceRecord /\ CallBudget \in Nat
      /\ requests \in Seq(Request) /\ head \in Nat \ {0} /\ FifoHead
  BY CallTerms DEF IInv, TypeOK
<1>2. /\ GoodBatch(batch) /\ Selected(CallPrice(f), CallBudget, batch)
      /\ AssetsFor(CallPrice(f), BatchShares(batch)) \in Nat
  BY CallSelects
<1>3. batch.withheld \in Nat /\ batch.withheld <= MinResidueValue
  BY <1>1, <1>2, BatchFits
<1>4. CASE BatchShares(batch) = 0
  <2>1. cash' = cash
    BY <1>4 DEF Execute, bookVars
  <2>2. AssetsFor(CallPrice(f), BatchShares(batch)) = 0
    BY <1>1, <1>4, NothingForNothing
  <2> QED
    BY <1>1, <1>3, <2>1, <2>2
<1>5. CASE BatchShares(batch) # 0
  <2>1. cash' = cash + AssetsFor(CallPrice(f), BatchShares(batch))
    BY <1>5 DEF Execute
  <2> QED
    BY <1>1, <1>2, <1>3, <2>1
<1> QED
  BY <1>4, <1>5

\* Between settlements nothing counts as distributed: a settlement that closes
\* or never opened leaves no amount for the next one to start from.
THEOREM NothingCarriedOver == Spec => []AtRest
<1>1. Init => AtRest
  BY DEF Init, AtRest
<1>2. IInv /\ AtRest /\ [Next]_vars => AtRest'
  <2> SUFFICES ASSUME IInv, AtRest, [Next]_vars PROVE AtRest'
    OBVIOUS
  <2>1. CASE Keeper
    BY <2>1, CallIs DEF AtRest, StayOpen, CloseOut
  <2>2. CASE ~Keeper
    BY <2>2, OthersFillNothing DEF AtRest, settlementVars
  <2> QED
    BY <2>1, <2>2
<1> QED
  BY <1>1, <1>2, Invariance, PTL DEF Spec

\* A1: while requests wait an epoch is only spent on a settlement that paid
\* something and came within the residue value of the floor it opened under
\* (closeEpoch, EpochLiquidityShort).
THEOREM HeartbeatIsEarned == Spec => HeartbeatEarned
<1>1. IInv /\ AtRest /\ [Next]_vars =>
        [epochLeft' > epochLeft =>
           LET paid == distributed + cash' - cash
           IN  \/ head' > Len(requests')
               \/ paid > 0 /\ paid + MinResidueValue >= minAtOpen']_vars
  <2> SUFFICES ASSUME IInv, AtRest, [Next]_vars, epochLeft' > epochLeft,
                      ~(head' > Len(requests'))
               PROVE  /\ distributed + cash' - cash > 0
                      /\ distributed + cash' - cash + MinResidueValue >= minAtOpen'
    OBVIOUS
  <2>1. epochLeft \in Nat /\ distributed \in Nat /\ cash \in Nat /\ MinResidueValue \in Nat
    BY QueueAssumption DEF IInv, TypeOK
  <2>2. Keeper
    <3>1. CASE ~Keeper
      <4>1. epochLeft' <= epochLeft
        BY <3>1, OthersFillNothing
      <4>2. epochLeft' \in Nat
        <5>1. epochLeft' = epochLeft \/ epochLeft' = Minus(epochLeft, 1)
          BY <3>1 DEF Next, vars, queueVars, RequestRedeem, Claim, Configure, SetEpochDuration,
                SetEpochLiquidityBps, SetRedeemCooldown, SetMinRedemptionValue, MoveReserves, Tick
        <5> QED
          BY <2>1, <5>1 DEF Minus
      <4> QED
        BY <2>1, <4>1, <4>2
    <3> QED
      BY <3>1
  <2>3. PICK f, max, batch :
          /\ f \in FeesDue /\ max \in Chunks
          /\ batch = SelectBatch(CallPrice(f), CallBudget, max)
          /\ Execute(CallPrice(f), CallBudget, batch, f, Released)
          /\ \/ StayOpen(AssetsFor(CallPrice(f), BatchShares(batch))) /\ ~Drained'
             \/ CloseOut(AssetsFor(CallPrice(f), BatchShares(batch)), batch.withheld)
    BY <2>2, CallIs
  <2>4. /\ cash' - cash = AssetsFor(CallPrice(f), BatchShares(batch))
        /\ AssetsFor(CallPrice(f), BatchShares(batch)) \in Nat
        /\ batch.withheld \in Nat /\ batch.withheld <= MinResidueValue
    BY <2>3, CallPays
  <2>5. PICK spent \in Nat : spent = AssetsFor(CallPrice(f), BatchShares(batch))
    BY <2>4
  <2>6. CallDistributed = distributed /\ CallFloor \in Nat
    <3>1. CallDistributed = distributed
      BY DEF CallDistributed, AtRest
    <3>2. minAtOpen \in Nat /\ minValue \in Nat
      BY DEF IInv, TypeOK
    <3> QED
      BY <3>1, <3>2 DEF CallFloor
  <2>7. CloseOut(spent, batch.withheld)
    BY <2>1, <2>3, <2>5 DEF StayOpen
  <2>8. /\ minAtOpen' = CallFloor
        /\ distributed + spent # 0
        /\ distributed + spent + batch.withheld >= CallFloor
    BY <2>6, <2>7 DEF CloseOut, EarnsHeartbeat, Drained, NumRequests
  <2>9. distributed + cash' - cash = distributed + spent
    <3>1. cash' \in Nat
      BY <2>3, CallSelects, ExecuteBook, CallTerms
    <3> QED
      BY <2>1, <2>4, <2>5, <3>1
  <2>10. PICK paid : paid = distributed + cash' - cash
    OBVIOUS
  <2>11. paid \in Nat /\ paid # 0 /\ paid + batch.withheld >= minAtOpen' /\ minAtOpen' \in Nat
    BY <2>1, <2>6, <2>8, <2>9, <2>10
  <2>12. paid > 0 /\ paid + MinResidueValue >= minAtOpen'
    BY <2>1, <2>4, <2>11
  <2> QED
    BY <2>10, <2>12
<1> QED
  BY <1>1, NothingCarriedOver, Invariance, PTL DEF Spec, HeartbeatEarned

----------------------------------------------------------------------------
(* The stream through a settlement *)

\* a floor division grows with what is divided
LEMMA FloorDivOrdered ==
  ASSUME NEW a \in Nat, NEW b \in Nat, a <= b, NEW d \in Nat \ {0}
  PROVE  FloorDiv(a, d) <= FloorDiv(b, d)
<1>1. PICK q \in Nat : q = FloorDiv(a, d) /\ d * q <= a
  BY FloorDivIs
<1>2. d * q <= b
  BY <1>1
<1> QED
  BY <1>1, <1>2, FloorDivAtLeast

\* a stream capped for an outflow is not capped again for a smaller one
LEMMA CappedTwice ==
  ASSUME NEW s \in Nat, NEW h \in Nat, NEW o \in Nat, NEW q \in Nat, q <= o
  PROVE  Capped(Capped(s, h, o), h, q) = Capped(s, h, o)
<1>1. PICK d \in Nat \ {0} : d = StrandedRatio + 1
  <2>1. StrandedRatio + 1 \in Nat \ {0}
    BY VaultAssumption
  <2> QED
    BY <2>1
<1>2. PICK x \in Nat : x = Minus(h, o)
  <2>1. Minus(h, o) \in Nat
    BY DEF Minus
  <2> QED
    BY <2>1
<1>3. PICK y \in Nat : y = Minus(h, q) /\ x <= y
  <2>1. Minus(h, q) \in Nat /\ x <= Minus(h, q)
    BY <1>2 DEF Minus
  <2> QED
    BY <2>1
<1>4. PICK m \in Nat : m = FloorDiv(x, d)
  BY <1>1, <1>2, FloorDivIs
<1>5. PICK n \in Nat : n = FloorDiv(y, d) /\ m <= n
  BY <1>1, <1>2, <1>3, <1>4, FloorDivIs, FloorDivOrdered
<1> QED
  BY <1>1, <1>2, <1>3, <1>4, <1>5 DEF Capped, Lesser

\* a call that pays has recognized the yield of its whole budget first, and takes
\* nothing more out of the stream
LEMMA CallStream ==
  ASSUME IInv, NEW f \in FeesDue, NEW max \in Chunks, NEW batch,
         batch = SelectBatch(CallPrice(f), CallBudget, max),
         Execute(CallPrice(f), CallBudget, batch, f, Released),
         BatchShares(batch) # 0
  PROVE  /\ Released = Capped(stream, held, CallBudget)
         /\ stream' = Released /\ supply # 0
         /\ held' = held - AssetsFor(CallPrice(f), BatchShares(batch))
         /\ supply' = supply + f - BatchShares(batch)
<1> DEFINE received == AssetsFor(CallPrice(f), BatchShares(batch))
<1>1. /\ requests \in Seq(Request) /\ head \in Nat \ {0}
      /\ held \in Nat /\ stream \in Nat /\ supply \in Nat
  BY DEF IInv, TypeOK, VaultTypeOK
<1>2. /\ GoodBatch(batch) /\ Selected(CallPrice(f), CallBudget, batch)
      /\ BatchShares(batch) \in Nat /\ BatchShares(batch) <= bal[Queue] /\ bal[Queue] <= supply
      /\ received \in Nat /\ received <= CallBudget /\ CallBudget \in Nat
  BY CallSelects, CallTerms
<1>3. batch.last \in head..NumRequests /\ NumRequests \in Nat
  BY <1>1, <1>2, BatchSharesOK, BookSums
<1>4. HeadReady
  <2>1. head \in head..batch.last
    BY <1>1, <1>3
  <2>2. Eligible(head)
    BY <1>2, <2>1 DEF Selected, Taken
  <2> QED
    BY <1>1, <1>3, <2>2 DEF HeadReady, Drained
<1>5. Released = Capped(stream, held, CallBudget)
  BY <1>4 DEF Released
<1>6. /\ stream' = Capped(Released, held, received)
      /\ held' = held - received
      /\ supply' = supply + f - BatchShares(batch)
  BY DEF Execute
<1>7. stream' = Released
  BY <1>1, <1>2, <1>5, <1>6, CappedTwice
<1>8. supply # 0
  <2>1. bal[Queue] \in Nat
    BY HoldersAre DEF IInv, TypeOK, VaultTypeOK
  <2> QED
    BY <1>1, <1>2, <2>1
<1> QED
  BY <1>5, <1>6, <1>7, <1>8

\* M-2: a chunk that leaves its settlement open leaves no yield for the next chunk
\* to recognize, so a later chunk is not priced above an earlier one for it.
THEOREM ChunksLeaveNoStep == Spec => ChunkLeavesNoStep
<1>1. IInv /\ IInv' /\ AtRest /\ [Next]_vars =>
        [(settling' /\ distributed' # distributed)
           => stream' = Capped(stream, held, budget)']_vars
  <2> SUFFICES ASSUME IInv, IInv', AtRest, [Next]_vars, settling', distributed' # distributed
               PROVE  stream' = Capped(stream, held, budget)'
    OBVIOUS
  <2>1. Keeper
    BY OthersFillNothing DEF settlementVars
  <2>2. PICK f, max, batch :
          /\ f \in FeesDue /\ max \in Chunks
          /\ batch = SelectBatch(CallPrice(f), CallBudget, max)
          /\ Execute(CallPrice(f), CallBudget, batch, f, Released)
          /\ \/ StayOpen(AssetsFor(CallPrice(f), BatchShares(batch))) /\ ~Drained'
             \/ CloseOut(AssetsFor(CallPrice(f), BatchShares(batch)), batch.withheld)
          /\ UNCHANGED vesting
    BY <2>1, CallIs
  <2>3. PICK spent \in Nat : spent = AssetsFor(CallPrice(f), BatchShares(batch))
    BY <2>2, CallSelects
  <2>4. StayOpen(spent) /\ ~Drained'
    BY <2>2, <2>3 DEF CloseOut
  <2>5. /\ budget' = CallBudget - spent /\ distributed' = distributed + spent
        /\ distributed \in Nat
    <3>1. distributed \in Nat /\ CallDistributed = distributed
      BY DEF IInv, TypeOK, CallDistributed, AtRest
    <3> QED
      BY <2>4, <3>1 DEF StayOpen
  <2>6. BatchShares(batch) # 0
    <3>1. ASSUME BatchShares(batch) = 0 PROVE spent = 0
      BY <2>2, <2>3, <3>1, NothingForNothing, CallTerms
    <3> QED
      BY <2>5, <3>1
  <2>7. /\ Released = Capped(stream, held, CallBudget)
        /\ stream' = Released /\ supply # 0
        /\ held' = held - spent
    BY <2>2, <2>3, <2>6, CallStream
  <2>8. supply' # 0
    <3>1. /\ head' <= Len(requests') /\ head' \in Nat \ {0} /\ requests' \in Seq(Request)
          /\ requests'[head'].shares # 0
      <4>1. /\ requests' \in Seq(Request) /\ head' \in Nat \ {0} /\ FifoHead'
        BY DEF IInv, TypeOK
      <4>2. head' \in 1..Len(requests')
        BY <2>4, <4>1 DEF Drained, NumRequests
      <4> QED
        BY <4>1, <4>2 DEF FifoHead, NumRequests
    <3>2. \A k \in 1..Len(requests') :
            Shares(requests')[k] = requests'[k].shares /\ Shares(requests')[k] \in Nat
      <4>1. \A k \in 1..Len(requests') : requests'[k] \in Request
        BY <3>1
      <4> QED
        BY <4>1 DEF Shares, Request
    <3>3. SumTo(Shares(requests'), Len(requests')) \in Nat \ {0}
      <4>1. head' \in 1..Len(requests') /\ Len(requests') \in Nat
        BY <3>1
      <4>2. Shares(requests')[head'] <= SumTo(Shares(requests'), Len(requests'))
        BY <3>2, <4>1, SumToEntry
      <4>3. SumTo(Shares(requests'), Len(requests')) \in Nat
        BY <3>2, <4>1, SumToNat
      <4> QED
        BY <3>1, <3>2, <4>1, <4>2, <4>3
    <3>4. bal'[Queue] >= SumTo(Shares(requests'), Len(requests'))
      BY DEF IInv, Custody, Asked, NumRequests, Shares
    <3>5. /\ bal' \in [Holders -> Nat] /\ TotalShares(bal') = supply' /\ Queue \in Holders
      BY HoldersAre DEF IInv, TypeOK, VaultTypeOK
    <3>6. bal'[Queue] <= TotalShares(bal') /\ bal'[Queue] \in Nat /\ TotalShares(bal') \in Nat
      BY <3>5, TotalSharesNat
    <3> QED
      BY <3>3, <3>4, <3>5, <3>6
  <2>9. /\ held \in Nat /\ stream \in Nat /\ CallBudget \in Nat /\ spent <= CallBudget
        /\ spent <= held
    <3>1. spent <= CallBudget /\ spent <= ExitAssets(held, Released, mark)
      BY <2>2, <2>3, CallSelects
    <3>2. ExitAssets(held, Released, mark) \in Nat /\ ExitAssets(held, Released, mark) <= held
      BY <2>2, CallTerms
    <3>3. held \in Nat /\ stream \in Nat /\ CallBudget \in Nat
      BY <2>2, CallTerms DEF IInv, TypeOK, VaultTypeOK
    <3> QED
      BY <2>3, <3>1, <3>2, <3>3
  <2>10. Minus(held', budget') = Minus(held, CallBudget)
    BY <2>3, <2>5, <2>7, <2>9 DEF Minus
  <2>11. PICK s \in Nat : s = Capped(stream, held, CallBudget)
    BY <2>9, CappedIs
  <2>12. Capped(s, held, CallBudget) = s
    BY <2>9, <2>11, CappedTwice
  <2>13. Capped(stream, held, budget)' =
           IF vesting' /\ supply' # 0
           THEN Lesser(stream', FloorDiv(Minus(held', budget'), StrandedRatio + 1)) ELSE 0
    BY DEF Capped
  <2> QED
    BY <2>2, <2>7, <2>8, <2>10, <2>11, <2>12, <2>13 DEF Capped
<1> QED
  BY <1>1, NothingCarriedOver, Invariance, PTL DEF Spec, ChunkLeavesNoStep

----------------------------------------------------------------------------
(* The price of those who stay *)

\* what is left after an exit is worth no less for each share that is left
LEMMA ExitKeepsPrice ==
  ASSUME NEW p \in PriceRecord, NEW s \in Nat, s < p.shares,
         NEW q \in Nat, q = AssetsFor(p, s)
  PROVE  (p.assets - q) * p.shares >= p.assets * (p.shares - s)
<1>1. PICK A \in Nat \ {0} : A = p.assets
  BY DEF PriceRecord
<1>2. PICK S \in Nat \ {0} : S = p.shares
  BY DEF PriceRecord
<1>3. S * q <= s * A
  BY <1>1, <1>2, AssetsForIs
<1>4. (A - q) * S = A * S - S * q /\ A * (S - s) = A * S - s * A
  OBVIOUS
<1>5. A * S \in Nat /\ S * q \in Nat /\ s * A \in Nat
  OBVIOUS
<1> QED
  BY <1>1, <1>2, <1>3, <1>4, <1>5

\* a product with a positive factor keeps its order only if the rest does
LEMMA CancelFactor ==
  ASSUME NEW x \in Nat, NEW y \in Nat, NEW c \in Nat \ {0}, x * c <= y * c
  PROVE  x <= y
OBVIOUS

\* shares worth an amount at one price are worth it at a better one
LEMMA WorthKept ==
  ASSUME NEW p \in PriceRecord, NEW t \in PriceRecord, NEW r \in Nat, NEW m \in Nat,
         t.assets * p.shares >= p.assets * t.shares,
         m * p.shares <= r * p.assets
  PROVE  AssetsFor(t, r) >= m
<1>1. PICK A \in Nat \ {0}, S \in Nat \ {0} : A = p.assets /\ S = p.shares
  BY DEF PriceRecord
<1>2. PICK B \in Nat \ {0}, T \in Nat \ {0} : B = t.assets /\ T = t.shares
  BY DEF PriceRecord
<1>3. B * S >= A * T /\ m * S <= r * A
  BY <1>1, <1>2
<1>4. (m * S) * T <= (r * A) * T
  <2>1. PICK x \in Nat : x = m * S
    OBVIOUS
  <2>2. PICK y \in Nat : y = r * A
    OBVIOUS
  <2>3. x * T <= y * T
    BY <1>3, <2>1, <2>2
  <2> QED
    BY <2>1, <2>2, <2>3
<1>5. r * (A * T) <= r * (B * S)
  <2>1. PICK x \in Nat : x = A * T
    OBVIOUS
  <2>2. PICK y \in Nat : y = B * S
    OBVIOUS
  <2>3. r * x <= r * y
    BY <1>3, <2>1, <2>2
  <2> QED
    BY <2>1, <2>2, <2>3
<1>6. (m * S) * T = (T * m) * S /\ (r * A) * T = r * (A * T) /\ r * (B * S) = (r * B) * S
  OBVIOUS
<1>7. PICK x \in Nat : x = T * m
  OBVIOUS
<1>8. PICK y \in Nat : y = r * B
  OBVIOUS
<1>9. x * S <= y * S
  <2>1. (m * S) * T \in Nat /\ r * (A * T) \in Nat /\ r * (B * S) \in Nat
    OBVIOUS
  <2> QED
    BY <1>4, <1>5, <1>6, <1>7, <1>8, <2>1
<1>10. x <= y
  BY <1>9, CancelFactor
<1> QED
  BY <1>2, <1>7, <1>8, <1>10, AssetsForIs

\* after a paying call the exit price has the receipt and the burned shares less
LEMMA CallLeavesPrice ==
  ASSUME IInv, NEW f \in FeesDue, NEW max \in Chunks, NEW batch,
         batch = SelectBatch(CallPrice(f), CallBudget, max),
         Execute(CallPrice(f), CallBudget, batch, f, Released),
         mark' = mark, BatchShares(batch) # 0,
         NEW received \in Nat, received = AssetsFor(CallPrice(f), BatchShares(batch))
  PROVE  /\ ExitAssets(held, stream, mark)' = ExitAssets(held, Released, mark) - received
         /\ ExitAssets(held, stream, mark)' \in Nat
         /\ supply' = supply + f - BatchShares(batch)
         /\ supply' \in Nat
<1>1. /\ held \in Nat /\ mark \in Nat /\ supply \in Nat /\ f \in Nat
  BY FeesAreNat DEF IInv, TypeOK, VaultTypeOK
<1>2. /\ stream' = Released /\ held' = held - received
      /\ supply' = supply + f - BatchShares(batch)
  BY CallStream
<1>3. Released \in Nat
  BY CallTerms
<1>4. /\ received <= ExitAssets(held, Released, mark)
      /\ BatchShares(batch) \in Nat /\ BatchShares(batch) <= supply
  <2>1. bal[Queue] \in Nat
    BY HoldersAre DEF IInv, TypeOK, VaultTypeOK
  <2> QED
    BY <1>1, <2>1, CallSelects
<1>5. ExitAssets(held, stream, mark)' = ExitAssets(held', stream', mark')
  BY DEF ExitAssets, Vested, Minus
<1>6. /\ ExitAssets(held - received, Released, mark) = ExitAssets(held, Released, mark) - received
      /\ ExitAssets(held - received, Released, mark) \in Nat
  BY <1>1, <1>3, <1>4 DEF ExitAssets, Vested, Minus
<1> QED
  BY <1>1, <1>2, <1>4, <1>5, <1>6

\* Q-01: a request filled in part keeps a rest worth the residue value at the price
\* the call leaves, so it cannot become a head nobody can redeem (_safeBatchFill).
THEOREM RestsAreRedeemable == Spec => ResidueRedeemable
<1>1. IInv /\ [Next]_vars =>
        [\A i \in 1..NumRequests :
           (requests'[i].shares < requests[i].shares /\ requests'[i].shares # 0)
             => AssetsFor(PriceAfter', requests'[i].shares) >= MinResidueValue]_vars
  <2> SUFFICES ASSUME IInv, [Next]_vars, NEW i \in 1..NumRequests,
                      requests'[i].shares < requests[i].shares, requests'[i].shares # 0
               PROVE  AssetsFor(PriceAfter', requests'[i].shares) >= MinResidueValue
    OBVIOUS
  <2>1. /\ requests \in Seq(Request) /\ head \in Nat \ {0} /\ FifoHead
        /\ NumRequests \in Nat /\ requests[i].shares \in Nat /\ MinResidueValue \in Nat
    BY BookSums, QueueAssumption DEF IInv, TypeOK, Request
  <2>2. Keeper
    BY <2>1, OthersFillNothing
  <2>3. PICK f, max, batch :
          /\ f \in FeesDue /\ max \in Chunks
          /\ batch = SelectBatch(CallPrice(f), CallBudget, max)
          /\ Execute(CallPrice(f), CallBudget, batch, f, Released)
          /\ mark' = mark
    BY <2>2, CallIs
  <2>4. PICK p \in PriceRecord :
          /\ p = CallPrice(f)
          /\ p.assets = ExitAssets(held, Released, mark) + 1
          /\ p.shares = supply + f + VirtualShares
    BY <2>3, CallTerms
  <2>5. PICK received \in Nat : received = AssetsFor(CallPrice(f), BatchShares(batch))
    BY <2>3, CallSelects
  <2>6. /\ BatchShares(batch) # 0 /\ i \in head..batch.last
        /\ requests'[i].shares = requests[i].shares - batch.fill[i]
    BY <2>3, CallFillsFairly
  <2>7. GoodBatch(batch) /\ Selected(p, CallBudget, batch) /\ CallBudget \in Nat
    BY <2>3, <2>4, CallSelects, CallTerms
  <2>8. /\ i = batch.last /\ batch.last \in head..NumRequests
        /\ batch.fill[i] \in Nat /\ batch.fill[i] <= requests[i].shares
    <3>1. /\ batch.last \in (head - 1)..NumRequests
          /\ batch.fill[i] \in Nat /\ batch.fill[i] <= requests[i].shares
      BY <2>7 DEF GoodBatch
    <3>2. i # batch.last => i \in head..(batch.last - 1)
      BY <2>1, <2>6, <3>1
    <3>3. i # batch.last => batch.fill[i] = requests[i].shares
      BY <2>7, <3>2 DEF GoodBatch
    <3>4. i >= head
      BY <2>1, <2>6, <3>1
    <3> QED
      BY <2>1, <2>6, <3>1, <3>3, <3>4
  <2>9. PICK rest \in Nat : /\ rest = requests'[i].shares
                            /\ rest >= SharesToWithdraw(p, MinResidueValue)
    <3>1. batch.fill[i] < requests[i].shares /\ batch.fill[i] # 0
      BY <2>1, <2>6, <2>8
    <3>2. requests[i].shares - batch.fill[i] >= SharesToWithdraw(p, MinResidueValue)
      BY <2>1, <2>7, <2>8, <3>1, BatchFits
    <3> QED
      BY <2>1, <2>6, <2>8, <3>1, <3>2
  <2>10. MinResidueValue * p.shares <= rest * p.assets
    <3>1. PICK w \in Nat : w = SharesToWithdraw(p, MinResidueValue) /\ MinResidueValue * p.shares <= w * p.assets
      BY <2>1, WithdrawIs
    <3>2. p.assets \in Nat /\ p.shares \in Nat
      BY DEF PriceRecord
    <3>3. w * p.assets <= rest * p.assets
      BY <2>9, <3>1, <3>2
    <3>4. MinResidueValue * p.shares \in Nat /\ w * p.assets \in Nat /\ rest * p.assets \in Nat
      BY <2>1, <3>2, SMTT(20)
    <3> QED
      BY <3>1, <3>3, <3>4
  <2>11. /\ PriceAfter' = Price(ExitAssets(held, stream, mark)', supply')
         /\ ExitAssets(held, stream, mark)' = p.assets - 1 - received
         /\ ExitAssets(held, stream, mark)' \in Nat
         /\ supply' = p.shares - VirtualShares - BatchShares(batch)
         /\ supply' \in Nat
    <3>1. /\ ExitAssets(held, stream, mark)' = ExitAssets(held, Released, mark) - received
          /\ ExitAssets(held, stream, mark)' \in Nat
          /\ supply' = supply + f - BatchShares(batch) /\ supply' \in Nat
      BY <2>3, <2>5, <2>6, CallLeavesPrice
    <3>2. /\ supply \in Nat /\ f \in Nat /\ VirtualShares \in Nat /\ BatchShares(batch) \in Nat
          /\ ExitAssets(held, Released, mark) \in Nat
      BY <2>3, CallSelects, CallTerms, FeesAreNat, VaultAssumption DEF IInv, TypeOK, VaultTypeOK
    <3>3. PriceAfter' = Price(ExitAssets(held, stream, mark)', supply')
      BY DEF PriceAfter, Price
    <3> QED
      BY <2>4, <3>1, <3>2, <3>3
  <2>12. PICK t \in PriceRecord : /\ t = PriceAfter'
                                  /\ t.assets = p.assets - received
                                  /\ t.shares = p.shares - BatchShares(batch)
    <3>1. VirtualShares \in Nat \ {0} /\ BatchShares(batch) \in Nat
          /\ p.assets \in Nat /\ p.shares \in Nat
      BY <2>3, CallSelects, VaultAssumption DEF PriceRecord
    <3>2. PriceAfter' \in PriceRecord
      BY <2>11, <3>1, PriceIs
    <3>3. /\ PriceAfter'.assets = ExitAssets(held, stream, mark)' + 1
          /\ PriceAfter'.shares = supply' + VirtualShares
      BY <2>11 DEF Price
    <3> QED
      BY <2>11, <3>1, <3>2, <3>3
  <2>13. t.assets * p.shares >= p.assets * t.shares
    <3>1. BatchShares(batch) \in Nat /\ p.shares \in Nat /\ t.shares \in Nat \ {0}
      BY <2>3, CallSelects DEF PriceRecord
    <3>2. BatchShares(batch) < p.shares
      BY <2>12, <3>1
    <3> QED
      BY <2>4, <2>5, <2>12, <3>1, <3>2, ExitKeepsPrice
  <2> QED
    BY <2>1, <2>9, <2>10, <2>12, <2>13, WorthKept
<1> QED
  BY <1>1, Invariance, PTL DEF Spec, ResidueRedeemable

\* what NoDilution says of a step: the gross, the realized and the exit price
PricesKept ==
  /\ PriceKept(held + 1, held' + 1)
  /\ PriceKept(TotalAssets + 1, TotalAssets' + 1)
  /\ (mark' <= mark /\ mark <= TotalAssets) => PriceKept(ExitAssets(held, stream, mark) + 1,
                                                         ExitAssets(held, stream, mark)' + 1)

\* the bases of the realized and of the exit price
LEMMA BasesAreNat ==
  ASSUME NEW h \in Nat, NEW s \in Nat, NEW m \in Nat
  PROVE  /\ Vested(h, s) \in Nat /\ Vested(h, s) <= h
         /\ ExitAssets(h, s, m) \in Nat /\ ExitAssets(h, s, m) <= h
BY DEF ExitAssets, Vested, Minus

\* they grow with what has vested
LEMMA BasesOrdered ==
  ASSUME NEW h \in Nat, NEW s \in Nat, NEW m \in Nat, NEW h2 \in Nat, NEW s2 \in Nat, NEW m2 \in Nat,
         Vested(h, s) <= Vested(h2, s2), m2 <= m, m <= Vested(h, s)
  PROVE  ExitAssets(h, s, m) <= ExitAssets(h2, s2, m2)
<1>1. PICK x \in Nat : x = Vested(h, s)
  BY BasesAreNat
<1>2. PICK y \in Nat : y = Vested(h2, s2)
  BY BasesAreNat
<1>3. x <= y /\ m <= x
  BY <1>1, <1>2
<1>4. ExitAssets(h, s, m) = Minus(x, m) /\ ExitAssets(h2, s2, m2) = Minus(y, m2)
  BY <1>1, <1>2 DEF ExitAssets
<1>5. Minus(x, m) <= Minus(y, m2)
  BY <1>3 DEF Minus
<1> QED
  BY <1>4, <1>5

\* and by exactly what is paid in
LEMMA BasesAdd ==
  ASSUME NEW h \in Nat, NEW s \in Nat, NEW m \in Nat, NEW a \in Nat, s <= h
  PROVE  /\ Vested(h + a, s) = Vested(h, s) + a
         /\ m <= Vested(h, s) => ExitAssets(h + a, s, m) = ExitAssets(h, s, m) + a
<1>1. PICK x \in Nat : x = Vested(h, s) /\ Vested(h + a, s) = x + a
  BY DEF Vested, Minus
<1>2. ASSUME m <= x
      PROVE  Minus(x + a, m) = Minus(x, m) + a
  BY <1>2 DEF Minus
<1> QED
  BY <1>1, <1>2 DEF ExitAssets

\* a step that only mints fee shares and takes nothing out of the vault
LEMMA OnlyFees ==
  ASSUME IInv, IInv', supply' = supply + FeeSharesMinted,
         held' >= held, TotalAssets' >= TotalAssets
  PROVE  PricesKept
<1>1. /\ held \in Nat /\ stream \in Nat /\ mark \in Nat /\ supply' \in Nat
      /\ held' \in Nat /\ stream' \in Nat /\ mark' \in Nat
  BY DEF IInv, TypeOK, VaultTypeOK
<1>2. PICK n \in Nat : n = supply' + VirtualShares /\ n = supply + FeeSharesMinted + VirtualShares
  BY <1>1, VaultAssumption
<1>3. ASSUME NEW x \in Nat, NEW y \in Nat, x <= y
      PROVE  PriceKept(x + 1, y + 1)
  <2>1. (y + 1) * n >= (x + 1) * n
    BY <1>3
  <2> QED
    BY <1>2, <2>1 DEF PriceKept
<1>4. /\ TotalAssets = Vested(held, stream) /\ TotalAssets' = Vested(held', stream')
      /\ ExitAssets(held, stream, mark)' = ExitAssets(held', stream', mark')
  BY DEF TotalAssets, ExitAssets, Vested, Minus
<1>5. /\ TotalAssets \in Nat /\ TotalAssets' \in Nat
      /\ ExitAssets(held, stream, mark) \in Nat
      /\ ExitAssets(held, stream, mark)' \in Nat
  BY <1>1, <1>4, BasesAreNat
<1>6. PriceKept(held + 1, held' + 1) /\ PriceKept(TotalAssets + 1, TotalAssets' + 1)
  BY <1>1, <1>3, <1>5
<1>7. ASSUME mark' <= mark, mark <= TotalAssets
      PROVE  PriceKept(ExitAssets(held, stream, mark) + 1, ExitAssets(held, stream, mark)' + 1)
  <2>1. ExitAssets(held, stream, mark) <= ExitAssets(held, stream, mark)'
    BY <1>1, <1>4, <1>7, BasesOrdered
  <2> QED
    BY <1>3, <1>5, <2>1
<1> QED
  BY <1>6, <1>7 DEF PricesKept

\* an entry of a assets for s shares, priced on everything held
LEMMA EntryPaysItsWay ==
  ASSUME IInv, NEW f \in Nat, NEW a \in Nat, NEW s \in Nat,
         FeeSharesMinted = f,
         supply' = supply + f + s, held' = held + a, UNCHANGED <<stream, mark>>,
         s * (held + 1) <= a * (supply + f + VirtualShares)
  PROVE  PricesKept
<1>1. /\ held \in Nat /\ stream \in Nat /\ mark \in Nat /\ supply \in Nat /\ stream <= held
  BY DEF IInv, TypeOK, VaultTypeOK, StreamBacked
<1>2. PICK n \in Nat : n = supply + f + VirtualShares
  BY <1>1, VaultAssumption
<1>3. ASSUME NEW x \in Nat, x <= held
      PROVE  PriceKept(x + 1, x + a + 1)
  <2>1. s * (x + 1) <= s * (held + 1)
    BY <1>1, <1>3
  <2>2. s * (x + 1) <= a * n
    <3>1. s * (x + 1) \in Nat /\ s * (held + 1) \in Nat /\ a * n \in Nat
      BY <1>1
    <3> QED
      BY <1>2, <2>1, <3>1
  <2>3. (x + a + 1) * n = (x + 1) * n + a * n /\ (x + 1) * (n + s) = (x + 1) * n + s * (x + 1)
    OBVIOUS
  <2>4. (x + a + 1) * n >= (x + 1) * (n + s)
    <3>1. (x + 1) * n \in Nat /\ a * n \in Nat /\ s * (x + 1) \in Nat
      OBVIOUS
    <3> QED
      BY <2>2, <2>3, <3>1
  <2>5. supply + FeeSharesMinted + VirtualShares = n /\ supply' + VirtualShares = n + s
    BY <1>1, <1>2, VaultAssumption
  <2> QED
    BY <2>4, <2>5 DEF PriceKept
<1>4. /\ TotalAssets = Vested(held, stream) /\ TotalAssets' = Vested(held + a, stream)
      /\ ExitAssets(held, stream, mark)' = ExitAssets(held + a, stream, mark)
  BY DEF TotalAssets, ExitAssets, Vested, Minus
<1>5. /\ TotalAssets \in Nat /\ TotalAssets <= held /\ TotalAssets' = TotalAssets + a
      /\ ExitAssets(held, stream, mark) \in Nat /\ ExitAssets(held, stream, mark) <= held
      /\ mark <= TotalAssets
           => ExitAssets(held, stream, mark)' = ExitAssets(held, stream, mark) + a
  <2>1. /\ Vested(held, stream) \in Nat /\ Vested(held, stream) <= held
        /\ ExitAssets(held, stream, mark) \in Nat /\ ExitAssets(held, stream, mark) <= held
    BY <1>1, BasesAreNat
  <2>2. /\ Vested(held + a, stream) = Vested(held, stream) + a
        /\ mark <= Vested(held, stream)
             => ExitAssets(held + a, stream, mark) = ExitAssets(held, stream, mark) + a
    BY <1>1, BasesAdd
  <2> QED
    BY <1>4, <2>1, <2>2
<1>6. PriceKept(held + 1, held' + 1) /\ PriceKept(TotalAssets + 1, TotalAssets' + 1)
  BY <1>1, <1>3, <1>5
<1>7. ASSUME mark <= TotalAssets
      PROVE  PriceKept(ExitAssets(held, stream, mark) + 1, ExitAssets(held, stream, mark)' + 1)
  BY <1>3, <1>5, <1>7
<1> QED
  BY <1>6, <1>7 DEF PricesKept

\* an exit at a price on no more than what it leaves its base with
LEMMA ExitArithmetic ==
  ASSUME NEW n \in Nat, NEW out \in Nat, out <= n, NEW q \in Nat, NEW base \in Nat,
         q * n <= out * base,
         NEW whole \in Nat, base <= whole, q <= whole, NEW before \in Nat, before <= whole
  PROVE  (whole - q) * n >= before * (n - out)
<1>1. PICK rest \in Nat : rest = n - out
  <2>1. n - out \in Nat
    OBVIOUS
  <2> QED
    BY <2>1
<1>2. out * base <= out * whole
  OBVIOUS
<1>3. before * rest <= whole * rest
  OBVIOUS
<1>4. whole * n = whole * rest + out * whole
  <2>1. n = rest + out
    BY <1>1
  <2>2. whole * (rest + out) = whole * rest + out * whole
    OBVIOUS
  <2> QED
    BY <2>1, <2>2
<1>5. (whole - q) * n = whole * n - q * n
  OBVIOUS
<1>6. /\ q * n \in Nat /\ out * base \in Nat /\ out * whole \in Nat
      /\ whole * rest \in Nat /\ before * rest \in Nat
  OBVIOUS
<1> QED
  BY <1>1, <1>2, <1>3, <1>4, <1>5, <1>6

\* what a step of the vault or of the queue's users mints in fee shares
LEMMA FeesMinted ==
  ASSUME IInv, NEW f \in FeesDue, <<held, supply>>' # <<held, supply>> \/ f = 0,
         bal'[FeeRecipient] = bal[FeeRecipient] + f
  PROVE  FeeSharesMinted = f
<1>1. FeeRecipient \in Holders /\ bal \in [Holders -> Nat] /\ f \in Nat
  BY FeesAreNat, HoldersAre DEF IInv, TypeOK, VaultTypeOK
<1>2. PICK b \in Nat : b = bal[FeeRecipient]
  BY <1>1
<1>3. bal'[FeeRecipient] - bal[FeeRecipient] = f
  BY <1>1, <1>2
<1> QED
  BY <1>3 DEF FeeSharesMinted

\* the fee recipient neither enters nor queues, so a step that credits fees
\* and moves other balances mints exactly those fees
LEMMA FeesCredited ==
  ASSUME IInv, NEW f \in FeesDue, supply' = supply + f, held' \in Nat,
         bal'[FeeRecipient] = bal[FeeRecipient] + f
  PROVE  supply' = supply + FeeSharesMinted
<1>1. /\ FeeRecipient \in Holders /\ bal \in [Holders -> Nat] /\ f \in Nat
      /\ supply \in Nat /\ held \in Nat
  BY FeesAreNat, HoldersAre DEF IInv, TypeOK, VaultTypeOK
<1>2. CASE <<held, supply>>' = <<held, supply>>
  <2>1. f = 0 /\ FeeSharesMinted = 0
    BY <1>1, <1>2 DEF FeeSharesMinted
  <2> QED
    BY <1>1, <2>1
<1>3. CASE <<held, supply>>' # <<held, supply>>
  BY <1>3, FeesMinted
<1> QED
  BY <1>2, <1>3

\* what has vested does not fall when no more is streamed than is paid in
LEMMA VestedOrdered ==
  ASSUME NEW h \in Nat, NEW s \in Nat, NEW h2 \in Nat, NEW s2 \in Nat, s2 + h <= s + h2
  PROVE  Vested(h, s) <= Vested(h2, s2)
BY DEF Vested, Minus

LEMMA OnlyFeesStep ==
  ASSUME IInv, IInv', NEW f \in FeesDue, supply' = supply + f,
         bal'[FeeRecipient] = bal[FeeRecipient] + f,
         held' >= held, stream' + held <= stream + held'
  PROVE  PricesKept
<1>1. /\ held \in Nat /\ stream \in Nat /\ held' \in Nat /\ stream' \in Nat
  BY DEF IInv, TypeOK, VaultTypeOK
<1>2. supply' = supply + FeeSharesMinted
  BY <1>1, FeesCredited
<1>3. TotalAssets = Vested(held, stream) /\ TotalAssets' = Vested(held', stream')
  BY DEF TotalAssets, Vested, Minus
<1>4. TotalAssets \in Nat /\ TotalAssets' \in Nat /\ TotalAssets <= TotalAssets'
  BY <1>1, <1>3, BasesAreNat, VestedOrdered
<1> QED
  BY <1>2, <1>4, OnlyFees

\* steps that touch neither the assets nor the supply
LEMMA NothingMinted ==
  ASSUME IInv, IInv', UNCHANGED <<supply, held>>, stream' <= stream
  PROVE  PricesKept
<1>1. /\ held \in Nat /\ stream \in Nat /\ stream' \in Nat /\ supply \in Nat
  BY DEF IInv, TypeOK, VaultTypeOK
<1>2. supply' = supply + FeeSharesMinted
  BY <1>1 DEF FeeSharesMinted
<1>3. TotalAssets = Vested(held, stream) /\ TotalAssets' = Vested(held, stream')
  BY DEF TotalAssets, Vested, Minus
<1>4. PICK z \in Nat : z = stream' /\ z + held <= stream + held
  BY <1>1
<1>5. Vested(held, z) \in Nat /\ Vested(held, stream) \in Nat /\ Vested(held, stream) <= Vested(held, z)
  BY <1>1, <1>4, BasesAreNat, VestedOrdered
<1>6. TotalAssets' >= TotalAssets
  BY <1>3, <1>4, <1>5
<1>7. held' >= held
  BY <1>1
<1> QED
  BY <1>2, <1>6, <1>7, OnlyFees

\* the fee recipient is no user
LEMMA RecipientCredited ==
  ASSUME IInv, NEW f \in Nat, NEW u \in Users, NEW s \in Nat
  PROVE  /\ Credit(bal, FeeRecipient, f)[FeeRecipient] = bal[FeeRecipient] + f
         /\ Credit(Credit(bal, FeeRecipient, f), u, s)[FeeRecipient] = bal[FeeRecipient] + f
         /\ [Credit(bal, FeeRecipient, f) EXCEPT ![u] = @ - s, ![Queue] = @ + s][FeeRecipient]
              = bal[FeeRecipient] + f
<1>1. bal \in [Holders -> Nat] /\ FeeRecipient \in Holders
  BY HoldersAre DEF IInv, TypeOK, VaultTypeOK
<1>2. FeeRecipient # u /\ FeeRecipient # Queue
  BY VaultAssumption
<1> QED
  BY <1>1, <1>2 DEF Credit

LEMMA RequestKeepsPrices ==
  ASSUME IInv, IInv', NEW u \in Users, NEW s \in Sizes, RequestRedeem(u, s)
  PROVE  PricesKept
<1>1. PICK f \in FeesDue :
        /\ supply' = supply + f
        /\ bal' = [Credit(bal, FeeRecipient, f) EXCEPT ![u] = @ - s, ![Queue] = @ + s]
  BY DEF RequestRedeem
<1>2. f \in Nat /\ s \in Nat /\ held \in Nat /\ stream \in Nat
  BY FeesAreNat, QueueAssumption DEF IInv, TypeOK, VaultTypeOK
<1>3. bal'[FeeRecipient] = bal[FeeRecipient] + f
  BY <1>1, <1>2, RecipientCredited
<1>4. held' = held /\ stream' = stream
  BY DEF RequestRedeem
<1>5. held >= held /\ stream + held <= stream + held
  BY <1>2
<1>6. held' >= held /\ stream' + held <= stream + held'
  BY <1>4, <1>5
<1> QED
  BY <1>1, <1>3, <1>6, OnlyFeesStep

LEMMA YieldKeepsPrices ==
  ASSUME IInv, IInv', NEW a \in Amounts, NotifyYield(a)
  PROVE  PricesKept
<1>1. PICK f \in FeesDue : supply' = supply + f /\ bal' = Credit(bal, FeeRecipient, f)
  BY DEF NotifyYield
<1>2. f \in Nat /\ a \in Nat /\ held \in Nat /\ stream \in Nat
  BY FeesAreNat, VaultAssumption DEF IInv, TypeOK, VaultTypeOK
<1>3. bal'[FeeRecipient] = bal[FeeRecipient] + f
  BY <1>1, HoldersAre DEF Credit, IInv, TypeOK, VaultTypeOK
<1>4. PICK h \in Nat, s \in Nat : h = held + a /\ s = stream + a
  BY <1>2
<1>5. PICK left \in Nat : stream' = left /\ left <= s
  <2>1. Capped(s, h, 0) <= s /\ Capped(s, h, 0) \in Nat
    BY CappedIs
  <2>2. stream' = IF vesting THEN Capped(s, h, 0) ELSE stream
    BY <1>4 DEF NotifyYield
  <2> QED
    BY <1>2, <1>4, <2>1, <2>2
<1>6. held' >= held /\ stream' + held <= stream + held'
  <2>1. held' = h
    BY <1>4 DEF NotifyYield
  <2>2. h >= held /\ left + held <= stream + h
    BY <1>2, <1>4, <1>5
  <2> QED
    BY <1>5, <2>1, <2>2
<1> QED
  BY <1>1, <1>3, <1>6, OnlyFeesStep

LEMMA SetVestingKeepsPrices ==
  ASSUME IInv, IInv', NEW on \in VestingModes, SetVesting(on)
  PROVE  PricesKept
<1>1. PICK f \in FeesDue : supply' = supply + f /\ bal' = Credit(bal, FeeRecipient, f)
  BY DEF SetVesting
<1>2. held \in Nat /\ stream \in Nat
  BY DEF IInv, TypeOK, VaultTypeOK
<1>3. bal'[FeeRecipient] = bal[FeeRecipient] + f
  BY <1>1, HoldersAre DEF Credit, IInv, TypeOK, VaultTypeOK
<1>4. PICK left \in Nat : stream' = left /\ left <= stream
  BY <1>2 DEF SetVesting
<1>5. held' = held
  BY DEF SetVesting
<1>6. held >= held /\ left + held <= stream + held
  BY <1>2, <1>4
<1>7. held' >= held /\ stream' + held <= stream + held'
  BY <1>4, <1>5, <1>6
<1> QED
  BY <1>1, <1>3, <1>7, OnlyFeesStep

LEMMA DonationKeepsPrices ==
  ASSUME IInv, IInv', NEW a \in Amounts, Donate(a)
  PROVE  PricesKept
<1>1. held \in Nat /\ stream \in Nat /\ supply \in Nat /\ a \in Nat /\ bal \in [Holders -> Nat]
  BY VaultAssumption DEF IInv, TypeOK, VaultTypeOK
<1>2. UNCHANGED <<bal, supply, stream>> /\ held' = held + a
  BY DEF Donate
<1>3. PICK h \in Nat : h = held + a /\ h >= held /\ stream + held <= stream + h
  BY <1>1
<1>4. supply' = supply + FeeSharesMinted
  <2>1. PICK b \in Nat : b = bal[FeeRecipient]
    BY <1>1, HoldersAre
  <2>2. FeeSharesMinted = 0
    BY <1>2, <2>1 DEF FeeSharesMinted
  <2> QED
    BY <1>1, <1>2, <2>2
<1>5. TotalAssets = Vested(held, stream) /\ TotalAssets' = Vested(h, stream)
  BY <1>2, <1>3 DEF TotalAssets, Vested, Minus
<1>6. Vested(held, stream) \in Nat /\ Vested(h, stream) \in Nat /\ Vested(held, stream) <= Vested(h, stream)
  BY <1>1, <1>3, BasesAreNat, VestedOrdered
<1>7. held' >= held /\ TotalAssets' >= TotalAssets
  BY <1>2, <1>3, <1>5, <1>6
<1> QED
  BY <1>4, <1>7, OnlyFees

LEMMA AccrualKeepsPrices ==
  ASSUME IInv, IInv', AccrueFees
  PROVE  PricesKept
<1>1. PICK f \in FeesDue : supply' = supply + f /\ bal' = Credit(bal, FeeRecipient, f)
  BY DEF AccrueFees
<1>2. held \in Nat /\ stream \in Nat
  BY DEF IInv, TypeOK, VaultTypeOK
<1>3. bal'[FeeRecipient] = bal[FeeRecipient] + f
  BY <1>1, HoldersAre DEF Credit, IInv, TypeOK, VaultTypeOK
<1>4. held' = held /\ stream' = stream
  BY DEF AccrueFees
<1>5. held >= held /\ stream + held <= stream + held
  BY <1>2
<1>6. held' >= held /\ stream' + held <= stream + held'
  BY <1>4, <1>5
<1> QED
  BY <1>1, <1>3, <1>6, OnlyFeesStep

\* previewMint: the least assets that pay for an amount of shares
LEMMA AssetsToMintIs ==
  ASSUME NEW p \in PriceRecord, NEW s \in Nat
  PROVE  AssetsToMint(p, s) \in Nat /\ s * p.assets <= AssetsToMint(p, s) * p.shares
<1>1. PICK A \in Nat \ {0} : A = p.assets
  BY DEF PriceRecord
<1>2. PICK S \in Nat \ {0} : S = p.shares
  BY DEF PriceRecord
<1>3. PICK n \in Nat : n = s * A
  OBVIOUS
<1>4. n + S - 1 \in Nat
  BY <1>2
<1>5. PICK r \in Nat : r = FloorDiv(n + S - 1, S) /\ n + S - 1 < S * r + S
  BY <1>2, <1>4, FloorDivIs
<1>6. r = AssetsToMint(p, s)
  BY <1>1, <1>2, <1>3, <1>5 DEF AssetsToMint, CeilDiv, FloorDiv
<1>7. n <= S * r
  <2>1. S * r \in Nat
    OBVIOUS
  <2> QED
    BY <1>5, <2>1
<1> QED
  BY <1>1, <1>2, <1>3, <1>5, <1>6, <1>7

\* the entry price is on everything held and on the supply after fees
LEMMA EntryPriceIs ==
  ASSUME IInv, NEW f \in FeesDue
  PROVE  /\ Price(EntryAssets, supply + f) \in PriceRecord
         /\ Price(EntryAssets, supply + f).assets = held + 1
         /\ Price(EntryAssets, supply + f).shares = supply + f + VirtualShares
<1>1. held \in Nat /\ supply + f \in Nat
  BY FeesAreNat DEF IInv, TypeOK, VaultTypeOK
<1> QED
  BY <1>1, PriceIs, VaultAssumption DEF Price, EntryAssets

LEMMA DepositKeepsPrices ==
  ASSUME IInv, NEW u \in Users, NEW a \in Amounts, Deposit(u, a)
  PROVE  PricesKept
<1>1. PICK f \in FeesDue :
        /\ supply' = supply + f + SharesFor(Price(EntryAssets, supply + f), a)
        /\ bal' = Credit(Credit(bal, FeeRecipient, f), u, SharesFor(Price(EntryAssets, supply + f), a))
  BY DEF Deposit
<1>2. a \in Nat /\ a # 0 /\ held \in Nat /\ supply \in Nat /\ f \in Nat
  BY FeesAreNat, VaultAssumption DEF IInv, TypeOK, VaultTypeOK
<1>3. PICK s \in Nat : /\ s = SharesFor(Price(EntryAssets, supply + f), a)
                       /\ (held + 1) * s <= a * (supply + f + VirtualShares)
  BY <1>2, EntryPriceIs, SharesForIs
<1>4. held' = held + a /\ UNCHANGED <<stream, mark>>
  BY DEF Deposit
<1>5. bal'[FeeRecipient] = bal[FeeRecipient] + f
  BY <1>1, <1>2, <1>3, RecipientCredited
<1>6. held' # held
  BY <1>2, <1>4
<1>7. FeeSharesMinted = f
  BY <1>5, <1>6, FeesMinted
<1>8. supply' = supply + f + s
  BY <1>1, <1>3
<1>9. s * (held + 1) <= a * (supply + f + VirtualShares)
  BY <1>2, <1>3
<1> QED
  BY <1>2, <1>4, <1>7, <1>8, <1>9, EntryPaysItsWay

LEMMA MintKeepsPrices ==
  ASSUME IInv, NEW u \in Users, NEW s \in Moves, Mint(u, s)
  PROVE  PricesKept
<1>1. PICK f \in FeesDue :
        /\ supply' = supply + f + s
        /\ bal' = Credit(Credit(bal, FeeRecipient, f), u, s)
        /\ held' = held + AssetsToMint(Price(EntryAssets, supply + f), s)
  BY DEF Mint
<1>2. s \in Nat /\ s # 0 /\ held \in Nat /\ supply \in Nat /\ f \in Nat
  BY FeesAreNat, VaultAssumption DEF IInv, TypeOK, VaultTypeOK
<1>3. PICK a \in Nat : /\ a = AssetsToMint(Price(EntryAssets, supply + f), s)
                       /\ s * (held + 1) <= a * (supply + f + VirtualShares)
  BY <1>2, EntryPriceIs, AssetsToMintIs
<1>4. held' = held + a /\ UNCHANGED <<stream, mark>>
  BY <1>1, <1>3 DEF Mint
<1>5. bal'[FeeRecipient] = bal[FeeRecipient] + f
  BY <1>1, <1>2, RecipientCredited
<1>6. supply' # supply
  BY <1>1, <1>2
<1>7. FeeSharesMinted = f
  BY <1>5, <1>6, FeesMinted
<1> QED
  BY <1>1, <1>2, <1>3, <1>4, <1>7, EntryPaysItsWay

\* a batch that takes shares pays something
LEMMA CallPaysSomething ==
  ASSUME IInv, NEW f \in FeesDue, NEW max \in Chunks, NEW batch,
         batch = SelectBatch(CallPrice(f), CallBudget, max), BatchShares(batch) # 0
  PROVE  AssetsFor(CallPrice(f), BatchShares(batch)) # 0
<1>1. /\ requests \in Seq(Request) /\ head \in Nat \ {0} /\ FifoHead
      /\ CallPrice(f) \in PriceRecord /\ CallBudget \in Nat
  BY CallTerms DEF IInv, TypeOK
<1>2. /\ GoodBatch(batch) /\ Selected(CallPrice(f), CallBudget, batch)
      /\ BatchShares(batch) \in Nat /\ AssetsFor(CallPrice(f), BatchShares(batch)) \in Nat
  BY CallSelects
<1>3. PICK last \in head..NumRequests : last = batch.last
  BY <1>1, <1>2, BatchSharesOK
<1>4. NumRequests \in Nat
  BY <1>1, BookSums
<1>5. last \in 1..NumRequests /\ last \in head..last /\ last \in Nat
  BY <1>1, <1>4
<1>6. batch.fill[last] \in Nat /\ AssetsFor(CallPrice(f), batch.fill[last]) # 0
  <2>1. batch.fill[last] \in Nat
    BY <1>2, <1>5 DEF GoodBatch
  <2>2. \A i \in head..batch.last : AssetsFor(CallPrice(f), batch.fill[i]) # 0
    BY <1>1, <1>2, BatchFits
  <2> QED
    BY <1>3, <1>5, <2>1, <2>2
<1>7. BatchShares(batch) = Prior(last) + batch.fill[last] /\ Prior(last) \in Nat
  BY <1>1, <1>2, <1>3, <1>5, BatchSharesAre, PriorIs
<1>8. batch.fill[last] <= BatchShares(batch)
  BY <1>6, <1>7
<1>9. /\ AssetsFor(CallPrice(f), batch.fill[last]) \in Nat
      /\ AssetsFor(CallPrice(f), batch.fill[last]) <= AssetsFor(CallPrice(f), BatchShares(batch))
  BY <1>1, <1>2, <1>6, <1>8, AssetsForIs, QuoteOrdered
<1> QED
  BY <1>2, <1>6, <1>9

\* an exit priced below par of the conservative base leaves the three prices
LEMMA ExitLeavesPrices ==
  ASSUME NEW n \in Nat, NEW out \in Nat, out <= n, NEW q \in Nat,
         NEW h \in Nat, NEW s \in Nat, NEW m \in Nat, NEW left \in Nat, left <= s,
         q <= ExitAssets(h, left, m), q * n <= out * (ExitAssets(h, left, m) + 1)
  PROVE  /\ (h - q + 1) * n >= (h + 1) * (n - out)
         /\ (Vested(h - q, left) + 1) * n >= (Vested(h, s) + 1) * (n - out)
         /\ m <= Vested(h, s) =>
              (ExitAssets(h - q, left, m) + 1) * n >= (ExitAssets(h, s, m) + 1) * (n - out)
<1>1. PICK x \in Nat : x = ExitAssets(h, left, m)
  BY BasesAreNat
<1>2. PICK y \in Nat : y = Vested(h, left)
  BY BasesAreNat
<1>3. PICK z \in Nat : z = Vested(h, s)
  BY BasesAreNat
<1>4. PICK w \in Nat : w = ExitAssets(h, s, m)
  BY BasesAreNat
<1>5. x <= y /\ y <= h /\ z <= y
  <2>1. x <= y
    BY <1>1, <1>2 DEF ExitAssets, Minus
  <2>2. y <= h /\ z <= y
    BY <1>2, <1>3 DEF Vested, Minus
  <2> QED
    BY <2>1, <2>2
<1>6. ASSUME m <= z
      PROVE  w <= x
  <2>1. Vested(h, s) <= Vested(h, left) /\ m <= m /\ m <= Vested(h, s)
    BY <1>2, <1>3, <1>5, <1>6
  <2> QED
    BY <1>1, <1>4, <2>1, BasesOrdered
<1>7. /\ Vested(h - q, left) + 1 = (y + 1) - q
      /\ ExitAssets(h - q, left, m) + 1 = (x + 1) - q
      /\ h - q + 1 = (h + 1) - q
  BY <1>1, <1>2 DEF ExitAssets, Vested, Minus
<1>8. q * n <= out * (x + 1) /\ q <= x
  BY <1>1
<1>9. ((h + 1) - q) * n >= (h + 1) * (n - out)
  BY <1>5, <1>8, ExitArithmetic
<1>10. ((y + 1) - q) * n >= (z + 1) * (n - out)
  BY <1>5, <1>8, ExitArithmetic
<1>11. m <= z => ((x + 1) - q) * n >= (w + 1) * (n - out)
  BY <1>6, <1>8, ExitArithmetic
<1> QED
  BY <1>3, <1>4, <1>7, <1>9, <1>10, <1>11

LEMMA CallKeepsPrices ==
  ASSUME IInv, IInv', Keeper
  PROVE  PricesKept
<1>1. PICK f, max, batch :
        /\ f \in FeesDue /\ max \in Chunks
        /\ batch = SelectBatch(CallPrice(f), CallBudget, max)
        /\ Execute(CallPrice(f), CallBudget, batch, f, Released)
        /\ UNCHANGED <<vesting, mark, halts, sanctioned, configVars, idle>>
  BY CallIs
<1>2. /\ held \in Nat /\ stream \in Nat /\ mark \in Nat /\ supply \in Nat /\ f \in Nat
      /\ bal \in [Holders -> Nat] /\ VirtualShares \in Nat
      /\ Released \in Nat /\ Released <= stream
  BY <1>1, CallTerms, FeesAreNat, VaultAssumption DEF IInv, TypeOK, VaultTypeOK
<1>3. CASE BatchShares(batch) = 0
  <2>1. /\ supply' = supply + f /\ bal' = Credit(bal, FeeRecipient, f)
        /\ stream' = Released /\ held' = held
    BY <1>1, <1>3 DEF Execute
  <2>2. bal'[FeeRecipient] = bal[FeeRecipient] + f
    BY <1>2, <2>1, HoldersAre DEF Credit
  <2>3. held >= held /\ Released + held <= stream + held
    BY <1>2
  <2>4. held' >= held /\ stream' + held <= stream + held'
    BY <2>1, <2>3
  <2> QED
    BY <1>1, <2>1, <2>2, <2>4, OnlyFeesStep
<1>4. CASE BatchShares(batch) # 0
  <2>1. PICK out \in Nat, q \in Nat :
          /\ out = BatchShares(batch) /\ q = AssetsFor(CallPrice(f), BatchShares(batch))
          /\ q # 0 /\ out <= supply /\ q <= ExitAssets(held, Released, mark)
    <3>1. bal[Queue] \in Nat
      BY <1>2, HoldersAre
    <3> QED
      BY <1>1, <1>2, <1>4, <3>1, CallSelects, CallPaysSomething
  <2>2. /\ stream' = Released /\ held' = held - q /\ supply' = supply + f - out
    BY <1>1, <1>4, <2>1, CallStream
  <2>3. FeeSharesMinted = f
    <3>1. bal'[FeeRecipient] = bal[FeeRecipient] + f
      <4>1. bal' = [Credit(bal, FeeRecipient, f) EXCEPT ![Queue] = @ - BatchShares(batch)]
        BY <1>1, <1>4 DEF Execute
      <4> QED
        BY <1>2, <4>1, HoldersAre DEF Credit
    <3>2. held' # held
      BY <1>2, <2>1, <2>2
    <3> QED
      BY <1>1, <3>1, <3>2, FeesMinted
  <2>4. PICK n \in Nat : n = supply + f + VirtualShares
    BY <1>2
  <2>5. out <= n /\ n - out = supply' + VirtualShares /\ n = supply + FeeSharesMinted + VirtualShares
    BY <1>2, <2>1, <2>2, <2>3, <2>4
  <2>6. q * n <= out * (ExitAssets(held, Released, mark) + 1)
    <3>1. /\ CallPrice(f) \in PriceRecord
          /\ CallPrice(f).assets = ExitAssets(held, Released, mark) + 1
          /\ CallPrice(f).shares = n
      BY <1>1, <2>4, CallTerms
    <3>2. n * q <= out * (ExitAssets(held, Released, mark) + 1)
      BY <2>1, <3>1, AssetsForIs
    <3> QED
      BY <3>2
  <2>7. /\ (held - q + 1) * n >= (held + 1) * (n - out)
        /\ (Vested(held - q, Released) + 1) * n >= (Vested(held, stream) + 1) * (n - out)
        /\ mark <= Vested(held, stream) =>
             (ExitAssets(held - q, Released, mark) + 1) * n
               >= (ExitAssets(held, stream, mark) + 1) * (n - out)
    BY <1>2, <2>1, <2>5, <2>6, ExitLeavesPrices
  <2>8. /\ TotalAssets = Vested(held, stream) /\ TotalAssets' = Vested(held - q, Released)
        /\ ExitAssets(held, stream, mark)' = ExitAssets(held - q, Released, mark)
    BY <1>1, <2>2 DEF TotalAssets, ExitAssets, Vested, Minus
  <2>9. PriceKept(held + 1, held' + 1)
    BY <2>2, <2>5, <2>7 DEF PriceKept
  <2>10. PriceKept(TotalAssets + 1, TotalAssets' + 1)
    BY <2>5, <2>7, <2>8 DEF PriceKept
  <2>11. mark <= TotalAssets =>
           PriceKept(ExitAssets(held, stream, mark) + 1, ExitAssets(held, stream, mark)' + 1)
    BY <2>5, <2>7, <2>8 DEF PriceKept
  <2> QED
    BY <2>9, <2>10, <2>11 DEF PricesKept
<1> QED
  BY <1>3, <1>4

\* Nothing but a burned loss lowers the gross, the realized or, short of a higher
\* impairment, the exit price: an entry pays for its shares, an exit leaves at
\* no more than its share, and fees and yield only add (closeEpoch, deposit,
\* mint, notifyYield).
THEOREM NobodyDiluted == Spec => NoDilution
<1>1. ASSUME IInv, IInv', [Next]_vars, ~ \E a \in Amounts : BurnSeniorLoss(a)
      PROVE  PricesKept
  <2>1. ASSUME NEW u \in Users, NEW s \in Sizes, RequestRedeem(u, s)
        PROVE  PricesKept
    BY <1>1, <2>1, RequestKeepsPrices
  <2>2. CASE Keeper
    BY <1>1, <2>2, CallKeepsPrices
  <2>3. CASE \/ \E i \in 1..NumRequests : Claim(i)
             \/ Configure
             \/ \E x \in IdleLevels \ {idle} : MoveReserves(x)
             \/ UNCHANGED vars
    <3>1. UNCHANGED vaultVars
      BY <2>3 DEF Claim, Configure, SetEpochDuration, SetEpochLiquidityBps, SetRedeemCooldown,
                  SetMinRedemptionValue, MoveReserves, vars
    <3>2. UNCHANGED <<supply, held>> /\ stream' = stream
      BY <3>1 DEF vaultVars
    <3>3. stream' <= stream
      BY <1>1, <3>2 DEF IInv, TypeOK, VaultTypeOK
    <3> QED
      BY <1>1, <3>2, <3>3, NothingMinted
  <2>4. CASE Tick
    <3>1. UNCHANGED <<supply, held>> /\ stream' <= stream
      BY <1>1, <2>4 DEF Tick, Vest, IInv, TypeOK, VaultTypeOK
    <3> QED
      BY <1>1, <3>1, NothingMinted
  <2>5. CASE VaultNext
    <3>1. CASE AccrueFees
      BY <1>1, <3>1, AccrualKeepsPrices
    <3>2. ASSUME NEW u \in Users, NEW a \in Amounts, Deposit(u, a)
          PROVE  PricesKept
      BY <1>1, <3>2, DepositKeepsPrices
    <3>3. ASSUME NEW u \in Users, NEW s \in Moves, Mint(u, s)
          PROVE  PricesKept
      BY <1>1, <3>3, MintKeepsPrices
    <3>4. ASSUME NEW a \in Amounts, NotifyYield(a) \/ Donate(a)
          PROVE  PricesKept
      BY <1>1, <3>4, YieldKeepsPrices, DonationKeepsPrices
    <3>5. ASSUME NEW on \in VestingModes, SetVesting(on)
          PROVE  PricesKept
      BY <1>1, <3>5, SetVestingKeepsPrices
    <3>6. CASE \/ \E u \in Users, to \in Holders, s \in Moves : Transfer(u, to, s)
               \/ \E m \in Marks \ {mark} : Declare(m)
               \/ \E h \in Halts : Halt(h)
               \/ \E u \in SanctionTargets : Sanction(u)
      <4>1. UNCHANGED <<supply, held, stream>>
        BY <3>6 DEF Transfer, Declare, Halt, Sanction
      <4>2. stream' <= stream
        BY <1>1, <4>1 DEF IInv, TypeOK, VaultTypeOK
      <4> QED
        BY <1>1, <4>1, <4>2, NothingMinted
    <3> QED
      BY <1>1, <2>5, <3>1, <3>2, <3>3, <3>4, <3>5, <3>6 DEF VaultNext
  <2> QED
    BY <1>1, <2>1, <2>2, <2>3, <2>4, <2>5 DEF Next
<1>2. IInv /\ IInv' /\ [Next]_vars => ((~ \E a \in Amounts : BurnSeniorLoss(a)) => PricesKept)
  BY <1>1
<1>3. Spec => [][(~ \E a \in Amounts : BurnSeniorLoss(a)) => PricesKept]_vars
  BY <1>2, Invariance, PTL DEF Spec
<1> QED
  BY <1>3 DEF NoDilution, PricesKept
=============================================================================
