------------------------- MODULE SolanaVaultProofs -------------------------
(***************************************************************************)
(* The money of the Solana vault, for every value of the constants: the     *)
(* totals are those of the positions, both accounts hold what they are due, *)
(* and coupon is conserved to the part, however positions are settled.  The *)
(* facts are on single steps, so that AppPagesProofs makes them theorems    *)
(* on the behaviours of the page that follows the program too.              *)
(***************************************************************************)
EXTENDS SolanaVault, SumsProofs, FiniteSetTheorems, SequenceTheorems, TLAPS

----------------------------------------------------------------------------
(* The inductive invariant *)

Fields == DOMAIN NoPosition
IsPosition(p) == p = [field \in Fields |-> p[field]]

\* accrual with the rate epochs as a parameter
Settled(e, p, to) ==
  LET parts == p.remainder + Accrued(p.principal, e, p.through, to)
  IN  [p EXCEPT !.owed = @ + parts \div Slice, !.remainder = parts % Slice, !.through = to]
AccrueAt(e, p, to) == IF to <= p.through THEN p ELSE Settled(e, p, to)

\* parts a position is worth at an instant: owed, carried and still to be settled
Worth(e, p, t) == Slice * p.owed + p.remainder + Accrued(p.principal, e, p.through, t)

\* what the crank would pay for the months that ended by an instant
Payable(e, t, p) ==
  IF p.through # 0 /\ p.through <= MonthStart(t) THEN AccrueAt(e, p, MonthStart(t)).owed ELSE p.payable

MoneyOK(p) ==
  /\ IsPosition(p)
  /\ p.principal \in Nat /\ p.drawn \in Nat /\ p.drawn <= p.principal
  /\ p.owed \in Nat /\ p.payable \in Nat /\ p.payable <= p.owed
  /\ p.remainder \in Nat /\ p.remainder < Slice
  /\ p.through \in Nat /\ p.paidThrough \in Nat

\* A position at instant t under rate epochs e, when c parts are its due and d of them were
\* earned by the last boundary: settled at a boundary it has all of it payable, paid in a month
\* it has nothing payable, and before its first deposit it has nothing at all.
Kept(e, t, p, c, d) ==
  /\ MoneyOK(p) /\ p.through <= t
  /\ d \in Nat /\ Worth(e, p, t) = c /\ Payable(e, t, p) = d \div Slice
  /\ p.through = MonthStart(p.through) => p.payable = p.owed
  /\ p.paidThrough <= MonthStart(t)
  /\ p.paidThrough = MonthStart(t) => p.payable = 0 /\ p.through >= MonthStart(t)
  /\ p.through = 0 => p.principal = 0 /\ p.owed = 0 /\ p.remainder = 0

\* the rate epochs start one after another, the first by now
EpochsOK(e, t) ==
  /\ e \in Seq([start : Nat, bps : Nat]) /\ e # <<>> /\ e[1].start <= t
  /\ \A i, j \in 1..Len(e) : i < j => e[i].start < e[j].start

ConfigFields == {"lock", "notice", "atRisk", "paused", "epochs", "total", "drawn", "funded", "paid", "owed", "positions"}
IsConfig(c) == c = [field \in ConfigFields |-> c[field]]

PositionsKept ==
  /\ pos = [o \in Owners |-> pos[o]]
  /\ credit = [o \in Owners |-> credit[o]] /\ due = [o \in Owners |-> due[o]]
  /\ \A o \in Owners : Kept(config.epochs, now, pos[o], credit[o], due[o])

TotalsKept ==
  /\ IsConfig(config)
  /\ config.total = Sum([o \in Owners |-> pos[o].principal])
  /\ config.drawn = Sum([o \in Owners |-> pos[o].drawn])
  /\ config.owed = Sum([o \in Owners |-> pos[o].owed])

AccountsBacked ==
  /\ vault \in Nat /\ pool \in Nat /\ config.funded \in Nat /\ config.paid \in Nat
  /\ vault >= config.total - config.drawn /\ pool >= Accounted /\ Accounted >= 0

VaultInv ==
  /\ now \in Nat \ {0} /\ EpochsOK(config.epochs, now)
  /\ PositionsKept /\ TotalsKept /\ AccountsBacked

----------------------------------------------------------------------------
(* Whole numbers *)

LEMMA Divisors ==
  ASSUME VaultOK
  PROVE  Month \in Nat \ {0} /\ Slice \in Nat \ {0}
BY DEF VaultOK

\* quotient and remainder
LEMMA DivIs ==
  ASSUME NEW m \in Nat \ {0}, NEW x \in Nat
  PROVE  /\ x \div m \in Nat /\ x % m \in Nat /\ x % m < m
         /\ x = m * (x \div m) + (x % m)
<1>1. x \div m \in Nat
  BY SMT
<1>2. x % m \in 0..(m - 1)
  BY SMT
<1>3. x % m = x - m * (x \div m)
  BY Z3
<1>4. m * (x \div m) \in Nat
  BY <1>1
<1> QED
  BY <1>1, <1>2, <1>3, <1>4

\* the quotient is the only one
LEMMA DivUnique ==
  ASSUME NEW m \in Nat \ {0}, NEW x \in Nat, NEW q \in Nat, NEW r \in Nat, r < m, x = m * q + r
  PROVE  x \div m = q
<1>1. PICK k \in Nat, s \in Nat : k = x \div m /\ x = m * k + s /\ s < m
  BY DivIs
<1>2. ASSUME NEW a \in Nat, NEW b \in Nat, a < b PROVE m * a + m <= m * b
  <2>1. m * (a + 1) <= m * b
    <3>1. PICK c \in Nat : b = (a + 1) + c
      <4>1. b - (a + 1) \in Nat /\ b = (a + 1) + (b - (a + 1))
        BY <1>2
      <4> QED
        BY <4>1
    <3>2. m * b = m * (a + 1) + m * c
      BY <3>1
    <3>3. m * c \in Nat
      OBVIOUS
    <3> QED
      BY <3>2, <3>3
  <2>2. m * (a + 1) = m * a + m
    OBVIOUS
  <2> QED
    BY <2>1, <2>2
<1>3. m * k \in Nat /\ m * q \in Nat
  OBVIOUS
<1>4. ~(k < q)
  BY <1>1, <1>2, <1>3
<1>5. ~(q < k)
  BY <1>1, <1>2, <1>3
<1> QED
  BY <1>1, <1>4, <1>5

----------------------------------------------------------------------------
(* Months *)

\* the month an instant lies in
LEMMA MonthIs ==
  ASSUME VaultOK, NEW t \in Nat
  PROVE  /\ MonthStart(t) \in Nat /\ MonthStart(t) <= t /\ t < MonthStart(t) + Month
         /\ \E k \in Nat : MonthStart(t) = Month * k
<1>1. Month \in Nat \ {0}
  BY DEF VaultOK
<1>2. PICK k \in Nat, r \in Nat : t % Month = r /\ t = Month * k + r /\ r < Month
  BY <1>1, DivIs
<1>3. Month * k \in Nat
  BY <1>1
<1>4. MonthStart(t) = Month * k
  BY <1>2, <1>3 DEF MonthStart
<1>5. MonthStart(t) \in Nat /\ MonthStart(t) <= t /\ t < MonthStart(t) + Month
  <2>1. PICK s \in Nat : s = Month * k
    BY <1>3
  <2> QED
    BY <1>1, <1>2, <1>4, <2>1
<1>6. \E n \in Nat : MonthStart(t) = Month * n
  BY <1>4
<1> QED
  BY <1>5, <1>6

\* the instants of a month have the same start
LEMMA MonthSame ==
  ASSUME VaultOK, NEW t \in Nat, NEW k \in Nat, Month * k <= t, t < Month * k + Month
  PROVE  MonthStart(t) = Month * k
<1>1. Month \in Nat \ {0} /\ Month * k \in Nat
  BY DEF VaultOK
<1>2. PICK r \in Nat : t = Month * k + r
  <2>1. t - Month * k \in Nat /\ t = Month * k + (t - Month * k)
    BY <1>1
  <2> QED
    BY <2>1
<1>3. r < Month
  BY <1>1, <1>2
<1>4. t \div Month = k
  BY <1>1, <1>2, <1>3, DivUnique
<1>5. t = Month * (t \div Month) + (t % Month) /\ t % Month \in Int
  BY <1>1, DivIs
<1> QED
  BY <1>1, <1>4, <1>5 DEF MonthStart

\* what starts a month is its own month's start, and so is every instant since
LEMMA MonthHolds ==
  ASSUME VaultOK, NEW t \in Nat, NEW u \in Nat, MonthStart(t) <= u, u <= t
  PROVE  MonthStart(u) = MonthStart(t)
<1>1. PICK k \in Nat : MonthStart(t) = Month * k /\ t < Month * k + Month
  BY MonthIs
<1>2. Month * k \in Nat /\ Month \in Nat
  BY DEF VaultOK
<1> QED
  BY <1>1, <1>2, MonthSame

\* the next instant is in the same month or starts the next
LEMMA MonthPasses ==
  ASSUME VaultOK, NEW t \in Nat
  PROVE  MonthStart(t + 1) \in {MonthStart(t), t + 1}
<1>1. PICK k \in Nat : MonthStart(t) = Month * k /\ Month * k <= t /\ t < Month * k + Month
  BY MonthIs
<1>2. Month * k \in Nat /\ Month \in Nat \ {0} /\ Month * (k + 1) = Month * k + Month
  BY DEF VaultOK
<1>3. CASE t + 1 < Month * k + Month
  BY <1>1, <1>2, <1>3, MonthSame
<1>4. CASE t + 1 = Month * (k + 1)
  <2>1. k + 1 \in Nat /\ t + 1 \in Nat /\ Month * (k + 1) <= t + 1 /\ t + 1 < Month * (k + 1) + Month
    BY <1>2, <1>4
  <2>2. MonthStart(t + 1) = Month * (k + 1)
    BY <2>1, MonthSame
  <2> QED
    BY <1>4, <2>2
<1> QED
  BY <1>1, <1>2, <1>3, <1>4

----------------------------------------------------------------------------
(* What a principal earns *)

\* the time of the i-th rate epoch within [from, to)
Spell(e, i, from, to) ==
  Later((IF i < Len(e) THEN Earlier(e[i + 1].start, to) ELSE to) - Later(e[i].start, from), 0)

EpochRecords(e) ==
  /\ e \in Seq([start : Nat, bps : Nat]) /\ e # <<>>
  /\ \A i, j \in 1..Len(e) : i < j => e[i].start < e[j].start

\* what each epoch contributes
Parts(P, e, from, to) == [i \in 1..Len(e) |-> P * e[i].bps * Spell(e, i, from, to)]

LEMMA EpochsAre ==
  ASSUME NEW e, EpochRecords(e)
  PROVE  /\ Len(e) \in Nat \ {0} /\ DOMAIN e = 1..Len(e)
         /\ \A i \in 1..Len(e) : e[i].start \in Nat /\ e[i].bps \in Nat
<1>1. e \in Seq([start : Nat, bps : Nat]) /\ e # <<>>
  BY DEF EpochRecords
<1>2. Len(e) \in Nat /\ DOMAIN e = 1..Len(e) /\ \A i \in 1..Len(e) : e[i] \in [start : Nat, bps : Nat]
  BY <1>1, LenProperties, ElementOfSeq
<1>3. Len(e) # 0
  BY <1>1, EmptySeq
<1> QED
  BY <1>2, <1>3

LEMMA SpellNat ==
  ASSUME NEW e, EpochRecords(e), NEW i \in 1..Len(e), NEW from \in Nat, NEW to \in Nat
  PROVE  Spell(e, i, from, to) \in Nat
<1>1. Len(e) \in Nat /\ e[i].start \in Nat /\ (i < Len(e) => e[i + 1].start \in Nat)
  BY EpochsAre
<1> QED
  BY <1>1 DEF Spell, Later, Earlier

\* the parts earned are a sum over the epochs
LEMMA AccruedIs ==
  ASSUME NEW e, EpochRecords(e), NEW P, NEW from, NEW to
  PROVE  Accrued(P, e, from, to) = SumTo(Parts(P, e, from, to), Len(e))
BY EpochsAre DEF Accrued, Spell, Parts

\* products of naturals
LEMMA ProductNat ==
  ASSUME NEW x \in Nat, NEW y \in Nat, NEW z \in Nat
  PROVE  x * y * z \in Nat
OBVIOUS

\* they are a natural number, none without principal or time
LEMMA AccruedNat ==
  ASSUME NEW e, EpochRecords(e), NEW P \in Nat, NEW from \in Nat, NEW to \in Nat
  PROVE  /\ Accrued(P, e, from, to) \in Nat
         /\ P = 0 \/ to <= from => Accrued(P, e, from, to) = 0
<1> DEFINE f == Parts(P, e, from, to)
<1>1. Len(e) \in Nat /\ Accrued(P, e, from, to) = SumTo(f, Len(e))
  BY AccruedIs, EpochsAre
<1>2. ASSUME NEW i \in 1..Len(e)
      PROVE  f[i] \in Nat /\ (P = 0 \/ to <= from => f[i] = 0)
  <2>0. e[i].bps \in Nat /\ Spell(e, i, from, to) \in Nat
    BY EpochsAre, SpellNat
  <2>1. PICK b \in Nat, s \in Nat : b = e[i].bps /\ s = Spell(e, i, from, to)
    BY <2>0
  <2>2. f[i] = P * b * s
    BY <2>1 DEF Parts
  <2>3. P = 0 => P * b * s = 0
    OBVIOUS
  <2>4. to <= from => s = 0
    <3>1. e[i].start \in Nat /\ (i < Len(e) => e[i + 1].start \in Nat)
      BY <1>1, EpochsAre
    <3> QED
      BY <2>1, <3>1 DEF Spell, Later, Earlier
  <2>5. s = 0 => P * b * s = 0
    <3>1. P * b \in Nat
      OBVIOUS
    <3> QED
      BY <3>1
  <2>6. P * b * s \in Nat
    BY ProductNat
  <2> QED
    BY <2>2, <2>3, <2>4, <2>5, <2>6
<1> HIDE DEF f
<1>3. SumTo(f, Len(e)) \in Nat
  BY <1>1, <1>2, SumToNat
<1>4. ASSUME P = 0 \/ to <= from PROVE SumTo(f, Len(e)) = 0
  <2>1. \A i \in 1..Len(e) : f[i] = 0
    BY <1>2, <1>4
  <2>2. SumTo(f, Len(e)) = 0 * Len(e)
    BY <1>1, <2>1, SumToConst
  <2> QED
    BY <1>1, <2>2
<1> QED
  BY <1>1, <1>3, <1>4

\* the time of the last epoch, and of an earlier one, within a span cut in two
LEMMA LastSplits ==
  ASSUME NEW a \in Nat, NEW from \in Nat, NEW mid \in Nat, NEW to \in Nat, from <= mid, mid <= to
  PROVE  Later(to - Later(a, from), 0) = Later(mid - Later(a, from), 0) + Later(to - Later(a, mid), 0)
BY DEF Later

LEMMA SpellSplits ==
  ASSUME NEW a \in Nat, NEW z \in Nat, a < z,
         NEW from \in Nat, NEW mid \in Nat, NEW to \in Nat, from <= mid, mid <= to
  PROVE  Later(Earlier(z, to) - Later(a, from), 0) =
           Later(Earlier(z, mid) - Later(a, from), 0) + Later(Earlier(z, to) - Later(a, mid), 0)
BY DEF Later, Earlier

\* earning from one instant to a later one, and on from there
LEMMA AccruedSplit ==
  ASSUME NEW e, EpochRecords(e), NEW P \in Nat,
         NEW from \in Nat, NEW mid \in Nat, NEW to \in Nat, from <= mid, mid <= to
  PROVE  Accrued(P, e, from, to) = Accrued(P, e, from, mid) + Accrued(P, e, mid, to)
<1> DEFINE f == Parts(P, e, from, mid)
           g == Parts(P, e, mid, to)
           h == Parts(P, e, from, to)
<1>1. /\ Len(e) \in Nat /\ Accrued(P, e, from, mid) = SumTo(f, Len(e))
      /\ Accrued(P, e, mid, to) = SumTo(g, Len(e)) /\ Accrued(P, e, from, to) = SumTo(h, Len(e))
  BY AccruedIs, EpochsAre
<1>2. ASSUME NEW i \in 1..Len(e)
      PROVE  f[i] \in Int /\ g[i] \in Int /\ h[i] = f[i] + g[i]
  <2>0. /\ e[i].bps \in Nat /\ Spell(e, i, from, mid) \in Nat
        /\ Spell(e, i, mid, to) \in Nat /\ Spell(e, i, from, to) \in Nat
    BY EpochsAre, SpellNat
  <2>1. PICK b \in Nat, s \in Nat, t \in Nat, u \in Nat :
          /\ b = e[i].bps /\ s = Spell(e, i, from, mid)
          /\ t = Spell(e, i, mid, to) /\ u = Spell(e, i, from, to)
    BY <2>0
  <2>2. u = s + t
    <3>0. i < Len(e) => i + 1 \in 1..Len(e)
      BY <1>1
    <3>1. e[i].start \in Nat /\ (i < Len(e) => e[i + 1].start \in Nat /\ e[i].start < e[i + 1].start)
      <4>1. \A j \in 1..Len(e) : e[j].start \in Nat
        BY EpochsAre
      <4>2. i < Len(e) => e[i].start < e[i + 1].start
        BY <1>1, <3>0 DEF EpochRecords
      <4> QED
        BY <3>0, <4>1, <4>2
    <3>2. CASE i < Len(e)
      <4>1. PICK a \in Nat, z \in Nat : a = e[i].start /\ z = e[i + 1].start /\ a < z
        BY <3>1, <3>2
      <4>2. /\ s = Later(Earlier(z, mid) - Later(a, from), 0)
            /\ t = Later(Earlier(z, to) - Later(a, mid), 0)
            /\ u = Later(Earlier(z, to) - Later(a, from), 0)
        BY <2>1, <3>2, <4>1 DEF Spell
      <4>3. Later(Earlier(z, to) - Later(a, from), 0) =
              Later(Earlier(z, mid) - Later(a, from), 0) + Later(Earlier(z, to) - Later(a, mid), 0)
        BY <4>1, SpellSplits, SMTT(20)
      <4> QED
        BY <4>2, <4>3
    <3>3. CASE ~(i < Len(e))
      <4>1. PICK a \in Nat : a = e[i].start
        BY <3>1
      <4>2. /\ s = Later(mid - Later(a, from), 0) /\ t = Later(to - Later(a, mid), 0)
            /\ u = Later(to - Later(a, from), 0)
        BY <2>1, <3>3, <4>1 DEF Spell
      <4>3. Later(to - Later(a, from), 0) =
              Later(mid - Later(a, from), 0) + Later(to - Later(a, mid), 0)
        BY <4>1, LastSplits
      <4> QED
        BY <4>2, <4>3
    <3> QED
      BY <3>2, <3>3
  <2>3. PICK c \in Nat : c = P * b
    OBVIOUS
  <2>4. c * s \in Int /\ c * t \in Int /\ c * (s + t) = c * s + c * t
    OBVIOUS
  <2>5. f[i] = c * s /\ g[i] = c * t /\ h[i] = c * u
    BY <2>1, <2>3 DEF Parts
  <2> QED
    BY <2>2, <2>4, <2>5
<1> HIDE DEF f, g, h
<1>3. SumTo(h, Len(e)) = SumTo(f, Len(e)) + SumTo(g, Len(e))
  BY <1>1, <1>2, SumToPlus
<1> QED
  BY <1>1, <1>3

\* a rate that starts later than the last one leaves what was earned before it
LEMMA AccruedBefore ==
  ASSUME NEW e, EpochRecords(e), NEW s \in Nat, NEW b \in Nat, e[Len(e)].start < s,
         NEW P \in Nat, NEW from \in Nat, NEW to \in Nat, to <= s
  PROVE  LET n == Append(e, [start |-> s, bps |-> b])
         IN  /\ EpochRecords(n) /\ n[1] = e[1]
             /\ Accrued(P, n, from, to) = Accrued(P, e, from, to)
<1> DEFINE r == [start |-> s, bps |-> b]
           n == Append(e, r)
           f == Parts(P, e, from, to)
           g == Parts(P, n, from, to)
<1>1. PICK k \in Nat \ {0} : k = Len(e)
  BY EpochsAre
<1>2. r \in [start : Nat, bps : Nat] /\ r.start = s /\ r.bps = b
  OBVIOUS
<1> HIDE DEF r
<1>3. /\ n \in Seq([start : Nat, bps : Nat]) /\ Len(n) = k + 1
      /\ n[k + 1] = r /\ \A i \in 1..k : n[i] = e[i]
  BY <1>1, <1>2 DEF EpochRecords
<1> HIDE DEF n
<1>4. ASSUME NEW i \in 1..Len(n), NEW j \in 1..Len(n), i < j PROVE n[i].start < n[j].start
  <2>1. i \in 1..k /\ e[i].start <= e[k].start /\ e[i].start \in Nat /\ e[k].start \in Nat
    <3>1. i \in 1..k /\ k \in 1..k
      BY <1>1, <1>3, <1>4, SMTT(20)
    <3>2. e[i].start \in Nat /\ e[k].start \in Nat
      BY <1>1, <3>1, EpochsAre
    <3> QED
      BY <1>1, <3>1, <3>2, SMTT(20) DEF EpochRecords
  <2>2. CASE j = k + 1
    BY <1>1, <1>2, <1>3, <2>1, <2>2, SMTT(20)
  <2>3. CASE j \in 1..k
    BY <1>1, <1>3, <1>4, <2>1, <2>3 DEF EpochRecords
  <2> QED
    BY <1>1, <1>3, <2>2, <2>3
<1>5. EpochRecords(n) /\ n[1] = e[1]
  <2>1. n # <<>>
    BY <1>1, <1>3
  <2> QED
    BY <1>1, <1>3, <1>4, <2>1 DEF EpochRecords
<1>6. /\ Accrued(P, e, from, to) = SumTo(f, k)
      /\ Accrued(P, n, from, to) = SumTo(g, k + 1)
  <2>1. Accrued(P, e, from, to) = SumTo(f, Len(e))
    BY AccruedIs
  <2>2. Accrued(P, n, from, to) = SumTo(g, Len(n))
    BY <1>5, AccruedIs
  <2> QED
    BY <1>1, <1>3, <2>1, <2>2
<1>7. ASSUME NEW i \in 1..k PROVE g[i] = f[i]
  <2>1. Spell(n, i, from, to) = Spell(e, i, from, to)
    <3>1. CASE i < k
      <4>1. i + 1 \in 1..k
        BY <3>1
      <4>2. n[i] = e[i] /\ n[i + 1] = e[i + 1] /\ (i < Len(n) <=> i < Len(e))
        BY <1>1, <1>3, <3>1, <4>1
      <4> QED
        BY <4>2 DEF Spell
    <3>2. CASE i = k
      <4>1. n[i] = e[i] /\ n[i + 1].start = s /\ i < Len(n) /\ ~(i < Len(e))
        BY <1>1, <1>2, <1>3, <3>2
      <4>2. Earlier(s, to) = to
        BY DEF Earlier
      <4> QED
        BY <4>1, <4>2 DEF Spell
    <3> QED
      BY <3>1, <3>2
  <2> QED
    BY <1>1, <1>3, <2>1, SMTT(20) DEF Parts
<1>8. g[k + 1] = 0
  <2>1. Spell(n, k + 1, from, to) = 0
    BY <1>2, <1>3 DEF Spell, Later
  <2>2. P * b \in Nat
    OBVIOUS
  <2> QED
    BY <1>2, <1>3, <2>1, <2>2 DEF Parts
<1>9. \A i \in 1..k : f[i] \in Int
  <2> SUFFICES ASSUME NEW i \in 1..k PROVE f[i] \in Int
    OBVIOUS
  <2>0. e[i].bps \in Nat /\ Spell(e, i, from, to) \in Nat
    BY <1>1, EpochsAre, SpellNat
  <2>1. PICK c \in Nat, t \in Nat : c = e[i].bps /\ t = Spell(e, i, from, to)
    BY <2>0
  <2> QED
    BY <1>1, <2>1, ProductNat DEF Parts
<1> HIDE DEF f, g
<1>10. SumTo(g, k + 1) = SumTo(g, k) + g[k + 1]
  <2>1. k + 1 \in Nat /\ k + 1 # 0 /\ (k + 1) - 1 = k
    OBVIOUS
  <2> QED
    BY <2>1, SumToStep
<1>11. SumTo(g, k) = SumTo(f, k)
  BY <1>7, SumToSame
<1>12. SumTo(f, k) \in Int
  BY <1>9, SumToInt
<1>13. Accrued(P, n, from, to) = Accrued(P, e, from, to)
  BY <1>6, <1>8, <1>10, <1>11, <1>12
<1> QED
  BY <1>5, <1>13 DEF n, r

\* the largest of a set of positions
LEMMA LastIs ==
  ASSUME NEW n \in Nat, NEW S \in SUBSET (1..n), S # {}
  PROVE  Max(S) \in S /\ \A x \in S : x <= Max(S)
<1> DEFINE T == {n - x : x \in S}
<1>1. T \in SUBSET Nat /\ T # {}
  <2>1. \A x \in S : n - x \in Nat
    OBVIOUS
  <2> QED
    BY <2>1
<1>2. PICK y \in T : \A z \in T : y <= z
  BY <1>1, LeastElement
<1>3. PICK m \in S : y = n - m
  BY <1>2
<1>4. ASSUME NEW x \in S PROVE m >= x
  <2>1. y <= n - x
    BY <1>2
  <2>2. m \in Int /\ x \in Int
    BY <1>3
  <2> QED
    BY <1>3, <2>1, <2>2
<1> QED
  BY <1>3, <1>4 DEF Max

\* in one instant a principal earns at the rate in force
LEMMA AccruedInstant ==
  ASSUME NEW e, EpochRecords(e), NEW P \in Nat, NEW t \in Nat, e[1].start <= t
  PROVE  LET m == Max({i \in DOMAIN e : e[i].start <= t})
         IN  Accrued(P, e, t, t + 1) = P * e[m].bps
<1> DEFINE S == {i \in DOMAIN e : e[i].start <= t}
           f == Parts(P, e, t, t + 1)
<1>0. t + 1 \in Nat
  OBVIOUS
<1>1. /\ Len(e) \in Nat \ {0} /\ DOMAIN e = 1..Len(e) /\ \A i \in 1..Len(e) : e[i].start \in Nat
      /\ Accrued(P, e, t, t + 1) = SumTo(f, Len(e))
  BY AccruedIs, EpochsAre
<1>2. PICK m : m = Max(S)
  OBVIOUS
<1>3. m \in 1..Len(e) /\ e[m].start <= t /\ \A i \in S : i <= m
  <2>1. S \in SUBSET (1..Len(e)) /\ 1 \in S
    BY <1>1
  <2>2. m \in S /\ \A i \in S : i <= m
    BY <1>1, <1>2, <2>1, LastIs
  <2> QED
    BY <1>1, <2>2
<1>4. ASSUME NEW i \in 1..Len(e) PROVE Spell(e, i, t, t + 1) = IF i = m THEN 1 ELSE 0
  <2>1. e[i].start \in Nat /\ (i < Len(e) => i + 1 \in 1..Len(e) /\ e[i + 1].start \in Nat)
    BY <1>1
  <2>2. CASE i = m
    <3>1. i < Len(e) => e[i + 1].start > t
      <4> SUFFICES ASSUME i < Len(e) PROVE e[i + 1].start > t
        OBVIOUS
      <4>1. i + 1 \in 1..Len(e) /\ i + 1 \notin S
        BY <1>1, <1>3, <2>2
      <4> QED
        BY <1>1, <2>1, <4>1
    <3> QED
      BY <1>3, <2>1, <2>2, <3>1 DEF Spell, Later, Earlier
  <2>3. CASE i > m
    <3>1. i \notin S
      BY <1>1, <1>3, <2>3
    <3>2. e[i].start >= t + 1
      BY <1>1, <2>1, <3>1
    <3> QED
      BY <1>3, <2>1, <2>3, <3>2 DEF Spell, Later, Earlier
  <2>4. CASE i < m
    <3>1. i + 1 \in 1..Len(e) /\ i < Len(e) /\ (i + 1 = m \/ i + 1 < m)
      BY <1>1, <1>3, <2>4
    <3>2. e[i + 1].start <= t
      <4>0. i + 1 < m => e[i + 1].start < e[m].start
        BY <1>3, <3>1 DEF EpochRecords
      <4>1. e[i + 1].start <= e[m].start /\ e[m].start \in Nat
        BY <1>1, <1>3, <2>1, <3>1, <4>0
      <4> QED
        BY <1>3, <2>1, <3>1, <4>1
    <3> QED
      BY <1>3, <2>1, <2>4, <3>1, <3>2 DEF Spell, Later, Earlier
  <2> QED
    BY <1>3, <2>2, <2>3, <2>4
<1>5. PICK b \in Nat : b = e[m].bps
  BY <1>3, EpochsAre
<1>6. PICK d \in Nat : d = P * b
  OBVIOUS
<1>7. ASSUME NEW i \in 1..Len(e) PROVE f[i] = IF i = m THEN d ELSE 0
  <2>1. PICK c \in Nat : c = e[i].bps
    BY EpochsAre
  <2>2. P * c * 1 = P * c /\ P * c * 0 = 0
    <3>1. P * c \in Nat
      OBVIOUS
    <3> QED
      BY <3>1
  <2>0. f[i] = P * c * Spell(e, i, t, t + 1)
    BY <2>1 DEF Parts
  <2>3. CASE i = m
    BY <1>4, <1>5, <1>6, <2>0, <2>1, <2>2, <2>3
  <2>4. CASE i # m
    BY <1>4, <2>0, <2>1, <2>2, <2>4
  <2> QED
    BY <2>3, <2>4
<1> HIDE DEF f
<1>8. SumTo(f, Len(e)) = d
  <2>1. PICK n \in Nat : n = Len(e)
    BY <1>1
  <2>2. m \in 1..n /\ d \in Int /\ \A k \in 1..n : f[k] = IF k = m THEN d ELSE 0
    BY <1>3, <1>7, <2>1
  <2>3. SumTo(f, n) = d
    BY <2>2, SumToSingle
  <2> QED
    BY <2>1, <2>3
<1> QED
  BY <1>1, <1>2, <1>5, <1>6, <1>8

----------------------------------------------------------------------------
(* Positions *)

LEMMA PositionFields ==
  Fields = {"open", "allowlisted", "agreement", "lock", "notice", "principal", "drawn", "lockEnd",
            "requestedAt", "eligibleAt", "through", "paidThrough", "owed", "payable", "remainder", "halted"}
BY DEF Fields, NoPosition

\* parts settled into whole units and a rest
LEMMA PartsSettled ==
  ASSUME VaultOK, NEW owed \in Nat, NEW x \in Nat
  PROVE  /\ owed + x \div Slice \in Nat /\ owed <= owed + x \div Slice
         /\ x % Slice \in Nat /\ x % Slice < Slice
         /\ Slice * (owed + x \div Slice) + (x % Slice) = Slice * owed + x
<1>1. Slice \in Nat \ {0}
  BY DEF VaultOK
<1>2. PICK q \in Nat, r \in Nat : q = x \div Slice /\ r = x % Slice /\ r < Slice /\ x = Slice * q + r
  BY <1>1, DivIs
<1>3. Slice * (owed + q) = Slice * owed + Slice * q /\ Slice * owed \in Nat /\ Slice * q \in Nat
  BY <1>1
<1> QED
  BY <1>1, <1>2, <1>3

\* what a settlement leaves of a position
LEMMA SettledIs ==
  ASSUME VaultOK, NEW e, EpochRecords(e), NEW p, MoneyOK(p), NEW to \in Nat
  PROVE  LET q == AccrueAt(e, p, to)
         IN  /\ MoneyOK(q) /\ q.through = Later(p.through, to)
             /\ q.principal = p.principal /\ q.drawn = p.drawn /\ q.payable = p.payable
             /\ q.paidThrough = p.paidThrough /\ p.owed <= q.owed
             /\ to <= p.through => q = p
             /\ \A t \in Nat : p.through <= t /\ to <= t => Worth(e, q, t) = Worth(e, p, t)
<1>1. CASE to <= p.through
  <2>1. AccrueAt(e, p, to) = p
    BY <1>1 DEF AccrueAt
  <2>2. p.through \in Nat /\ p.owed \in Nat
    BY DEF MoneyOK
  <2> QED
    BY <1>1, <2>1, <2>2 DEF Later
<1>2. CASE ~(to <= p.through)
  <2>1. PICK P \in Nat, from \in Nat, o \in Nat, m \in Nat :
          /\ P = p.principal /\ from = p.through /\ o = p.owed /\ m = p.remainder
          /\ p.drawn \in Nat /\ p.payable \in Nat /\ p.paidThrough \in Nat
          /\ p.drawn <= p.principal /\ p.payable <= p.owed /\ IsPosition(p)
    BY DEF MoneyOK
  <2>2. PICK x \in Nat : x = m + Accrued(P, e, from, to)
    BY AccruedNat
  <2>3. PICK w \in Nat, r \in Nat :
          /\ w = o + x \div Slice /\ r = x % Slice
          /\ o <= w /\ r < Slice /\ Slice * w + r = Slice * o + x
    BY PartsSettled
  <2>4. PICK q : q = [p EXCEPT !.owed = w, !.remainder = r, !.through = to]
    OBVIOUS
  <2>5. q = AccrueAt(e, p, to)
    BY <1>2, <2>1, <2>2, <2>3, <2>4 DEF AccrueAt, Settled
  <2>6. /\ IsPosition(q) /\ q.owed = w /\ q.remainder = r /\ q.through = to
        /\ q.principal = P /\ q.drawn = p.drawn /\ q.payable = p.payable /\ q.paidThrough = p.paidThrough
    BY <2>1, <2>4, PositionFields DEF IsPosition
  <2>7. MoneyOK(q) /\ p.owed <= q.owed
    BY <2>1, <2>3, <2>6 DEF MoneyOK
  <2>8. q.through = Later(p.through, to)
    BY <1>2, <2>1, <2>6 DEF Later
  <2>9. ASSUME NEW t \in Nat, p.through <= t, to <= t PROVE Worth(e, q, t) = Worth(e, p, t)
    <3>1. from <= to
      BY <1>2, <2>1
    <3>2. Accrued(P, e, from, t) = Accrued(P, e, from, to) + Accrued(P, e, to, t)
      BY <2>9, <3>1, AccruedSplit
    <3>3. PICK a \in Nat, b \in Nat : a = Accrued(P, e, from, to) /\ b = Accrued(P, e, to, t)
      BY AccruedNat
    <3>4. PICK so \in Nat, sw \in Nat : so = Slice * o /\ sw = Slice * w
      BY DEF VaultOK
    <3>5. Worth(e, q, t) = sw + r + b
      BY <2>6, <3>3, <3>4 DEF Worth
    <3>6. Worth(e, p, t) = so + m + (a + b)
      BY <2>1, <3>2, <3>3, <3>4 DEF Worth
    <3> QED
      BY <2>2, <2>3, <3>3, <3>4, <3>5, <3>6
  <2>10. ~(to <= p.through)
    BY <1>2
  <2> QED
    BY <2>1, <2>5, <2>6, <2>7, <2>8, <2>9, <2>10
<1> QED
  BY <1>1, <1>2

\* a position that was settled to an instant is worth what is owed and carried
LEMMA WorthAt ==
  ASSUME VaultOK, NEW e, EpochRecords(e), NEW p, MoneyOK(p)
  PROVE  Worth(e, p, p.through) = Slice * p.owed + p.remainder
<1>1. PICK P \in Nat, t \in Nat : P = p.principal /\ t = p.through
  BY DEF MoneyOK
<1>2. Accrued(P, e, t, t) = 0
  BY AccruedNat
<1>3. Slice * p.owed \in Nat /\ p.remainder \in Nat
  <2>1. Slice \in Nat /\ p.owed \in Nat /\ p.remainder \in Nat
    BY DEF MoneyOK, VaultOK
  <2> QED
    BY <2>1
<1> QED
  BY <1>1, <1>2, <1>3 DEF Worth

\* worth is a natural number of parts
LEMMA WorthNat ==
  ASSUME VaultOK, NEW e, EpochRecords(e), NEW p, MoneyOK(p), NEW t \in Nat
  PROVE  Worth(e, p, t) \in Nat
<1>1. PICK P \in Nat, from \in Nat : P = p.principal /\ from = p.through
  BY DEF MoneyOK
<1>2. Accrued(P, e, from, t) \in Nat
  BY AccruedNat
<1>3. Slice * p.owed \in Nat /\ p.remainder \in Nat
  <2>1. Slice \in Nat /\ p.owed \in Nat /\ p.remainder \in Nat
    BY DEF MoneyOK, VaultOK
  <2> QED
    BY <2>1
<1> QED
  BY <1>1, <1>2, <1>3 DEF Worth

\* parts that are whole units and a rest
LEMMA UnitsOf ==
  ASSUME VaultOK, NEW owed \in Nat, NEW r \in Nat, r < Slice
  PROVE  (Slice * owed + r) \div Slice = owed
<1>1. Slice \in Nat \ {0}
  BY DEF VaultOK
<1>2. PICK x \in Nat : x = Slice * owed + r
  BY <1>1
<1> QED
  BY <1>1, <1>2, DivUnique

\* nothing owed, nothing carried
LEMMA NoneOwed ==
  ASSUME VaultOK, NEW owed \in Nat, NEW r \in Nat
  PROVE  Slice * owed + r = 0 <=> owed = 0 /\ r = 0
<1>1. Slice \in Nat \ {0}
  BY DEF VaultOK
<1>2. owed # 0 => Slice * owed >= 1
  BY <1>1
<1>3. Slice * owed \in Nat /\ Slice * 0 = 0
  BY <1>1
<1> QED
  BY <1>2, <1>3

----------------------------------------------------------------------------
(* What keeps a position kept *)

\* what is owed after a settlement
LEMMA OwedAfter ==
  ASSUME NEW e, NEW p, IsPosition(p), NEW to
  PROVE  AccrueAt(e, p, to).owed =
           IF to <= p.through THEN p.owed
           ELSE p.owed + (p.remainder + Accrued(p.principal, e, p.through, to)) \div Slice
<1>1. CASE to <= p.through
  BY <1>1 DEF AccrueAt
<1>2. CASE ~(to <= p.through)
  <2>1. PICK w, r : /\ w = p.owed + (p.remainder + Accrued(p.principal, e, p.through, to)) \div Slice
                    /\ r = (p.remainder + Accrued(p.principal, e, p.through, to)) % Slice
    OBVIOUS
  <2>2. AccrueAt(e, p, to) = [p EXCEPT !.owed = w, !.remainder = r, !.through = to]
    BY <1>2, <2>1 DEF AccrueAt, Settled
  <2>3. AccrueAt(e, p, to).owed = w
    BY <2>2, PositionFields DEF IsPosition
  <2> QED
    BY <1>2, <2>1, <2>3
<1> QED
  BY <1>1, <1>2

\* new terms, and new principal of a position settled by now
LEMMA Rebooked ==
  ASSUME VaultOK, NEW e, EpochRecords(e), NEW t \in Nat \ {0},
         NEW p, NEW c, NEW d, Kept(e, t, p, c, d),
         NEW r, IsPosition(r), r.through = p.through, r.paidThrough = p.paidThrough,
         r.owed = p.owed, r.payable = p.payable, r.remainder = p.remainder,
         r.principal \in Nat, r.drawn \in Nat, r.drawn <= r.principal,
         r.principal = p.principal \/ p.through = t
  PROVE  Kept(e, t, r, c, d)
<1>1. MoneyOK(p) /\ MoneyOK(r)
  BY DEF Kept, MoneyOK
<1>2. MonthStart(t) \in Nat /\ MonthStart(t) <= t
  BY MonthIs
<1>3. Worth(e, r, t) = Worth(e, p, t)
  <2>1. CASE r.principal = p.principal
    BY <2>1 DEF Worth
  <2>2. CASE p.through = t
    <3>1. /\ Worth(e, p, p.through) = Slice * p.owed + p.remainder
          /\ Worth(e, r, r.through) = Slice * r.owed + r.remainder
      BY <1>1, WorthAt
    <3> QED
      BY <2>2, <3>1
  <2> QED
    BY <2>1, <2>2
<1>4. Payable(e, t, r) = Payable(e, t, p)
  <2>1. AccrueAt(e, r, MonthStart(t)).owed = AccrueAt(e, p, MonthStart(t)).owed
    <3>1. CASE r.principal = p.principal
      BY <1>1, <3>1, OwedAfter DEF MoneyOK
    <3>2. CASE p.through = t
      BY <1>1, <1>2, <3>2, OwedAfter DEF MoneyOK
    <3> QED
      BY <3>1, <3>2
  <2> QED
    BY <2>1 DEF Payable
<1>5. r.through = 0 => r.principal = 0
  BY DEF Kept
<1> QED
  BY <1>1, <1>3, <1>4, <1>5 DEF Kept

CheckpointAt(e, p, t) ==
  IF p.through < MonthStart(t)
  THEN LET matured == AccrueAt(e, p, MonthStart(t)) IN AccrueAt(e, [matured EXCEPT !.payable = matured.owed], t)
  ELSE AccrueAt(e, p, t)

\* a checkpoint settles a position to the instant it is made and keeps it otherwise
LEMMA CheckpointKept ==
  ASSUME VaultOK, NEW e, EpochRecords(e), NEW t \in Nat \ {0},
         NEW p, NEW c, NEW d, Kept(e, t, p, c, d)
  PROVE  LET q == CheckpointAt(e, p, t)
         IN  /\ Kept(e, t, q, c, d) /\ q.through = t /\ q.principal = p.principal
             /\ q.drawn = p.drawn /\ q.paidThrough = p.paidThrough /\ IsPosition(q)
<1>1. PICK B \in Nat : B = MonthStart(t) /\ B <= t
  BY MonthIs
<1>2. MoneyOK(p) /\ p.through \in Nat /\ p.through <= t /\ p.paidThrough <= B
  BY <1>1 DEF Kept, MoneyOK
<1>3. Worth(e, p, t) = c /\ Payable(e, t, p) = d \div Slice /\ d \in Nat
  BY DEF Kept
<1>4. CASE p.through < B
  <2>1. PICK m :
          /\ m = AccrueAt(e, p, B) /\ MoneyOK(m) /\ m.through = Later(p.through, B)
          /\ m.principal = p.principal /\ m.drawn = p.drawn /\ m.paidThrough = p.paidThrough
          /\ \A u \in Nat : p.through <= u /\ B <= u => Worth(e, m, u) = Worth(e, p, u)
    BY <1>1, <1>2, SettledIs
  <2>2. m.through = B /\ Worth(e, m, t) = c /\ Worth(e, m, B) = Worth(e, p, B)
    <3>1. m.through = B
      BY <1>1, <1>2, <1>4, <2>1 DEF Later
    <3>2. Worth(e, m, t) = c
      BY <1>1, <1>2, <1>3, <1>4, <2>1
    <3>3. Worth(e, m, B) = Worth(e, p, B)
      BY <1>1, <1>2, <1>4, <2>1
    <3> QED
      BY <3>1, <3>2, <3>3
  <2>3. PICK n : n = [m EXCEPT !.payable = m.owed]
    OBVIOUS
  <2>4. /\ IsPosition(n) /\ n.payable = m.owed /\ n.owed = m.owed /\ n.remainder = m.remainder
        /\ n.through = B /\ n.principal = m.principal /\ n.drawn = m.drawn /\ n.paidThrough = m.paidThrough
    BY <2>1, <2>2, <2>3, PositionFields DEF IsPosition, MoneyOK
  <2>5. MoneyOK(n) /\ Worth(e, n, t) = c
    BY <2>1, <2>2, <2>4 DEF MoneyOK, Worth
  <2>6. PICK q :
          /\ q = AccrueAt(e, n, t) /\ MoneyOK(q) /\ q.through = Later(n.through, t)
          /\ q.principal = n.principal /\ q.drawn = n.drawn /\ q.payable = n.payable
          /\ q.paidThrough = n.paidThrough /\ (t <= n.through => q = n)
          /\ \A u \in Nat : n.through <= u /\ t <= u => Worth(e, q, u) = Worth(e, n, u)
    BY <2>5, SettledIs
  <2>7. q.through = t /\ q.payable = m.owed /\ Worth(e, q, t) = c /\ (t <= B => q = n)
    <3>1. q.through = t
      BY <1>1, <2>4, <2>6 DEF Later
    <3>2. Worth(e, q, t) = c
      BY <1>1, <2>4, <2>5, <2>6
    <3> QED
      BY <2>4, <2>6, <3>1, <3>2
  <2>8. q = CheckpointAt(e, p, t)
    BY <1>1, <1>4, <2>1, <2>3, <2>6 DEF CheckpointAt
  <2>9. Payable(e, t, q) = m.owed
    <3>1. CASE t = B
      <4>1. AccrueAt(e, q, B) = q /\ q.owed = m.owed
        BY <2>4, <2>7, <3>1 DEF AccrueAt
      <4> QED
        BY <1>1, <2>7, <3>1, <4>1 DEF Payable
    <3>2. CASE t # B
      BY <1>1, <2>7, <3>2 DEF Payable
    <3> QED
      BY <3>1, <3>2
  <2>10. Payable(e, t, p) = m.owed
    <3>1. CASE p.through # 0
      <4>1. p.through <= B
        BY <1>1, <1>2, <1>4
      <4> QED
        BY <1>1, <2>1, <3>1, <4>1 DEF Payable
    <3>2. CASE p.through = 0
      <4>1. p.principal = 0 /\ p.owed = 0 /\ p.remainder = 0 /\ p.payable = 0
        BY <3>2 DEF Kept, MoneyOK
      <4>2. Accrued(0, e, p.through, B) = 0
        BY <1>2, AccruedNat
      <4>3. Worth(e, p, B) = 0
        BY <4>1, <4>2, NoneOwed DEF Worth
      <4>4. Slice * m.owed + m.remainder = 0
        BY <2>1, <2>2, <4>3, WorthAt
      <4>5. m.owed = 0
        BY <2>1, <4>4, NoneOwed DEF MoneyOK
      <4> QED
        BY <3>2, <4>1, <4>5 DEF Payable
    <3> QED
      BY <3>1, <3>2
  <2>11. q.through = MonthStart(q.through) => q.payable = q.owed
    BY <1>1, <2>4, <2>6, <2>7
  <2>12. p.paidThrough # B
    <3>1. p.paidThrough = B => p.through >= B
      BY <1>1 DEF Kept
    <3> QED
      BY <1>1, <1>2, <1>4, <3>1
  <2>13. Kept(e, t, q, c, d)
    <3>1. q.paidThrough <= MonthStart(t) /\ q.paidThrough # MonthStart(t) /\ q.through # 0 /\ q.through <= t
      BY <1>1, <1>2, <2>1, <2>4, <2>6, <2>7, <2>12
    <3> QED
      BY <1>3, <2>6, <2>7, <2>9, <2>10, <2>11, <3>1 DEF Kept
  <2> QED
    BY <2>1, <2>4, <2>6, <2>7, <2>8, <2>13 DEF MoneyOK
<1>5. CASE ~(p.through < B)
  <2>1. PICK q :
          /\ q = AccrueAt(e, p, t) /\ MoneyOK(q) /\ q.through = Later(p.through, t)
          /\ q.principal = p.principal /\ q.drawn = p.drawn /\ q.payable = p.payable
          /\ q.paidThrough = p.paidThrough /\ (t <= p.through => q = p)
          /\ \A u \in Nat : p.through <= u /\ t <= u => Worth(e, q, u) = Worth(e, p, u)
    BY <1>2, SettledIs
  <2>2. /\ MoneyOK(q) /\ q.through = t /\ q.principal = p.principal /\ q.drawn = p.drawn
        /\ q.payable = p.payable /\ q.paidThrough = p.paidThrough /\ Worth(e, q, t) = c
        /\ t <= p.through => q = p
    <3>1. q.through = t
      BY <1>2, <2>1 DEF Later
    <3>2. Worth(e, q, t) = c
      BY <1>2, <1>3, <2>1
    <3> QED
      BY <2>1, <3>1, <3>2
  <2>3. q = CheckpointAt(e, p, t)
    BY <1>1, <1>5, <2>1 DEF CheckpointAt
  <2>4. Payable(e, t, q) = Payable(e, t, p)
    <3>1. CASE t = B
      BY <1>1, <1>2, <1>5, <2>2, <3>1
    <3>2. CASE t # B
      <4>1. Payable(e, t, q) = p.payable
        BY <1>1, <2>2, <3>2 DEF Payable
      <4>2. CASE p.through # B
        BY <1>1, <1>2, <1>5, <4>1, <4>2 DEF Payable
      <4>3. CASE p.through = B
        <5>1. MonthStart(B) = B
          BY <1>1, MonthHolds
        <5>2. p.payable = p.owed
          BY <4>3, <5>1 DEF Kept
        <5>3. AccrueAt(e, p, B) = p
          BY <1>2, <4>3 DEF AccrueAt
        <5> QED
          BY <1>1, <4>1, <4>3, <5>2, <5>3 DEF Payable
      <4> QED
        BY <4>2, <4>3
    <3> QED
      BY <3>1, <3>2
  <2>5. q.through = MonthStart(q.through) => q.payable = q.owed
    BY <1>1, <1>2, <1>5, <2>2 DEF Kept
  <2>6. q.paidThrough = MonthStart(t) => q.payable = 0 /\ q.through >= MonthStart(t)
    BY <1>1, <2>2 DEF Kept
  <2>7. Kept(e, t, q, c, d)
    <3>1. q.paidThrough <= MonthStart(t) /\ q.through # 0 /\ q.through <= t
      BY <1>1, <1>2, <2>2
    <3> QED
      BY <1>3, <2>2, <2>4, <2>5, <2>6, <3>1 DEF Kept
  <2> QED
    BY <2>2, <2>3, <2>7 DEF MoneyOK
<1> QED
  BY <1>4, <1>5

LEMMA EpochsRecorded ==
  ASSUME NEW e, NEW t, EpochsOK(e, t)
  PROVE  EpochRecords(e)
BY DEF EpochsOK, EpochRecords

\* a settlement leaves owed what the position is worth by then, in whole units
LEMMA OwedAtWorth ==
  ASSUME VaultOK, NEW e, EpochRecords(e), NEW p, MoneyOK(p), NEW T \in Nat, p.through < T
  PROVE  AccrueAt(e, p, T).owed = Worth(e, p, T) \div Slice
<1>1. PICK m :
        /\ m = AccrueAt(e, p, T) /\ MoneyOK(m) /\ m.through = Later(p.through, T)
        /\ m.principal = p.principal /\ m.drawn = p.drawn
        /\ \A u \in Nat : p.through <= u /\ T <= u => Worth(e, m, u) = Worth(e, p, u)
  BY SettledIs
<1>2. m.through = T /\ p.through <= T
  BY <1>1 DEF Later, MoneyOK
<1>3. Worth(e, m, T) = Worth(e, p, T)
  BY <1>1, <1>2
<1>4. Slice * m.owed + m.remainder = Worth(e, p, T)
  BY <1>1, <1>2, <1>3, WorthAt
<1>5. (Slice * m.owed + m.remainder) \div Slice = m.owed
  BY <1>1, UnitsOf DEF MoneyOK
<1> QED
  BY <1>1, <1>4, <1>5

\* an instant passes, and at the start of a month what is due becomes all that was earned
LEMMA KeptElapses ==
  ASSUME VaultOK, NEW t \in Nat \ {0}, NEW e, EpochsOK(e, t),
         NEW p, NEW c, NEW d, Kept(e, t, p, c, d),
         NEW bps, bps = e[Max({i \in DOMAIN e : e[i].start <= t})].bps
  PROVE  /\ EpochsOK(e, t + 1)
         /\ Kept(e, t + 1, p, c + p.principal * bps,
                 IF MonthStart(t + 1) = t + 1 THEN c + p.principal * bps ELSE d)
<1>1. EpochRecords(e) /\ e[1].start \in Nat /\ e[1].start <= t
  <2>1. EpochRecords(e)
    BY EpochsRecorded
  <2>2. 1 \in 1..Len(e)
    BY <2>1, EpochsAre
  <2> QED
    BY <2>1, <2>2, EpochsAre DEF EpochsOK
<1>2. EpochsOK(e, t + 1)
  BY <1>1 DEF EpochsOK
<1>3. PICK P \in Nat, from \in Nat : P = p.principal /\ from = p.through /\ from <= t
  BY DEF Kept, MoneyOK
<1>4. MoneyOK(p) /\ d \in Nat /\ Worth(e, p, t) = c /\ Payable(e, t, p) = d \div Slice
  BY DEF Kept
<1>5. t + 1 \in Nat /\ t + 1 \in Nat \ {0} /\ from <= t + 1
  BY <1>3
<1>6. PICK b \in Nat : b = MonthStart(t) /\ b <= t /\ p.paidThrough <= b
  BY MonthIs DEF Kept
<1>7. Worth(e, p, t + 1) = c + P * bps
  <2>1. Accrued(P, e, from, t + 1) = Accrued(P, e, from, t) + Accrued(P, e, t, t + 1)
    BY <1>1, <1>3, <1>5, AccruedSplit
  <2>2. Accrued(P, e, t, t + 1) = P * bps
    <3>1. t \in Nat
      OBVIOUS
    <3>2. Accrued(P, e, t, t + 1) = P * e[Max({i \in DOMAIN e : e[i].start <= t})].bps
      BY <1>1, <3>1, AccruedInstant
    <3> QED
      BY <3>2
  <2>3. PICK x \in Nat, y \in Nat : x = Accrued(P, e, from, t) /\ y = Accrued(P, e, t, t + 1)
    BY <1>1, <1>5, AccruedNat
  <2>4. PICK z \in Nat : z = Slice * p.owed + p.remainder
    <3>1. Slice \in Nat /\ p.owed \in Nat /\ p.remainder \in Nat
      BY <1>4 DEF MoneyOK, VaultOK
    <3> QED
      BY <3>1
  <2>5. Worth(e, p, t + 1) = z + (x + y) /\ c = z + x
    BY <1>3, <1>4, <2>1, <2>3, <2>4 DEF Worth
  <2> QED
    BY <2>2, <2>3, <2>5
<1>8. PICK w \in Nat : w = c + P * bps
  BY <1>1, <1>4, <1>5, <1>7, WorthNat
<1>9. CASE MonthStart(t + 1) = t + 1
  <2>1. Payable(e, t + 1, p) = w \div Slice
    <3>1. CASE from # 0
      <4>1. AccrueAt(e, p, t + 1).owed = Worth(e, p, t + 1) \div Slice
        <5>1. p.through < t + 1
          BY <1>3
        <5> QED
          BY <1>1, <1>4, <1>5, <5>1, OwedAtWorth
      <4> QED
        BY <1>3, <1>5, <1>7, <1>8, <1>9, <3>1, <4>1 DEF Payable
    <3>2. CASE from = 0
      <4>1. P = 0 /\ p.owed = 0 /\ p.remainder = 0 /\ p.payable = 0
        BY <1>3, <3>2 DEF Kept, MoneyOK
      <4>2. Accrued(P, e, from, t + 1) = 0
        BY <1>1, <1>5, <4>1, AccruedNat
      <4>3. w = 0
        BY <1>3, <1>7, <1>8, <4>1, <4>2, NoneOwed DEF Worth
      <4>4. w \div Slice = 0
        <5>1. Slice * 0 + 0 = 0 /\ 0 < Slice /\ Slice \in Nat
          BY DEF VaultOK
        <5> QED
          BY <4>3, <5>1, UnitsOf
      <4> QED
        BY <1>3, <3>2, <4>1, <4>4 DEF Payable
    <3> QED
      BY <3>1, <3>2
  <2>2. p.paidThrough <= MonthStart(t + 1) /\ p.paidThrough # MonthStart(t + 1) /\ p.through <= t + 1
    BY <1>3, <1>4, <1>6, <1>9 DEF MoneyOK
  <2>3. Kept(e, t + 1, p, w, w)
    <3>1. p.through = MonthStart(p.through) => p.payable = p.owed
      BY DEF Kept
    <3>2. p.through = 0 => p.principal = 0 /\ p.owed = 0 /\ p.remainder = 0
      BY DEF Kept
    <3> QED
      BY <1>4, <1>7, <1>8, <2>1, <2>2, <3>1, <3>2 DEF Kept
  <2> QED
    BY <1>2, <1>3, <1>8, <1>9, <2>3
<1>10. CASE MonthStart(t + 1) # t + 1
  <2>1. MonthStart(t + 1) = b
    BY <1>6, <1>10, MonthPasses
  <2>2. Payable(e, t + 1, p) = d \div Slice
    BY <1>4, <1>6, <2>1 DEF Payable
  <2>3. Kept(e, t + 1, p, w, d)
    BY <1>3, <1>4, <1>5, <1>6, <1>7, <1>8, <2>1, <2>2 DEF Kept
  <2> QED
    BY <1>2, <1>3, <1>8, <1>10, <2>3
<1> QED
  BY <1>9, <1>10

WithRate(e, s, b) == Append(e, [start |-> s, bps |-> b])

\* a rate for a time to come changes nothing that was earned
LEMMA KeptRates ==
  ASSUME VaultOK, NEW t \in Nat \ {0}, NEW e, EpochsOK(e, t),
         NEW s \in Nat, NEW b \in Nat, e[Len(e)].start < s, t <= s,
         NEW n, n = WithRate(e, s, b)
  PROVE  /\ EpochsOK(n, t)
         /\ \A p, c, d : Kept(e, t, p, c, d) => Kept(n, t, p, c, d)
<1>1. EpochRecords(e) /\ e[1].start <= t
  BY EpochsRecorded DEF EpochsOK
<1>2. EpochRecords(n) /\ n[1] = e[1]
  BY <1>1, AccruedBefore DEF WithRate
<1>3. EpochsOK(n, t)
  BY <1>1, <1>2 DEF EpochsOK, EpochRecords
<1>4. ASSUME NEW p, NEW c, NEW d, Kept(e, t, p, c, d) PROVE Kept(n, t, p, c, d)
  <2>1. MoneyOK(p) /\ p.through <= t
    BY <1>4 DEF Kept
  <2>2. PICK P \in Nat, from \in Nat : P = p.principal /\ from = p.through /\ from <= t
    BY <2>1 DEF MoneyOK
  <2>3. PICK B \in Nat : B = MonthStart(t) /\ B <= t /\ B <= s
    <3>1. PICK B \in Nat : B = MonthStart(t) /\ B <= t
      BY MonthIs
    <3> QED
      BY <3>1
  <2>4. Accrued(P, n, from, t) = Accrued(P, e, from, t) /\ Accrued(P, n, from, B) = Accrued(P, e, from, B)
    BY <1>1, <2>3, AccruedBefore DEF WithRate
  <2>5. Worth(n, p, t) = Worth(e, p, t)
    BY <2>2, <2>4 DEF Worth
  <2>6. AccrueAt(n, p, B).owed = AccrueAt(e, p, B).owed
    BY <2>1, <2>2, <2>4, OwedAfter DEF MoneyOK
  <2>7. Payable(n, t, p) = Payable(e, t, p)
    BY <2>3, <2>6 DEF Payable
  <2> QED
    BY <1>4, <2>5, <2>7 DEF Kept
<1> QED
  BY <1>3, <1>4

\* a position that starts afresh, and one that holds nothing
LEMMA KeptAfresh ==
  ASSUME VaultOK, NEW t \in Nat \ {0}, NEW e, EpochRecords(e),
         NEW p, MoneyOK(p), p.through = t, p.paidThrough = MonthStart(t),
         p.owed = 0, p.payable = 0, p.remainder = 0
  PROVE  Kept(e, t, p, 0, 0)
<1>1. MonthStart(t) \in Nat /\ MonthStart(t) <= t
  BY MonthIs
<1>2. Worth(e, p, t) = 0
  <2>1. Worth(e, p, p.through) = Slice * p.owed + p.remainder
    BY WorthAt
  <2> QED
    BY <2>1, NoneOwed
<1>3. AccrueAt(e, p, MonthStart(t)).owed = 0
  BY <1>1, OwedAfter DEF MoneyOK
<1>4. 0 \div Slice = 0
  <2>1. Slice \in Nat \ {0} /\ Slice * 0 + 0 = 0 /\ 0 < Slice
    BY Divisors
  <2> QED
    BY <2>1, UnitsOf
<1> QED
  BY <1>1, <1>2, <1>3, <1>4 DEF Kept, Payable

LEMMA KeptEmpty ==
  ASSUME VaultOK, NEW t \in Nat \ {0}, NEW e, EpochRecords(e)
  PROVE  Kept(e, t, NoPosition, 0, 0)
<1>1. /\ IsPosition(NoPosition) /\ NoPosition.principal = 0 /\ NoPosition.drawn = 0 /\ NoPosition.through = 0
      /\ NoPosition.paidThrough = 0 /\ NoPosition.owed = 0 /\ NoPosition.payable = 0 /\ NoPosition.remainder = 0
  BY PositionFields DEF IsPosition, NoPosition
<1>2. MonthStart(t) \in Nat /\ MonthStart(t) <= t
  BY MonthIs
<1>3. Accrued(0, e, 0, t) = 0
  BY AccruedNat
<1>4. Slice \in Nat /\ 0 < Slice /\ Slice * 0 + 0 = 0
  BY DEF VaultOK
<1>5. 0 \div Slice = 0
  BY <1>4, UnitsOf
<1>6. Worth(e, NoPosition, t) = 0
  BY <1>1, <1>3, <1>4 DEF Worth
<1>7. Payable(e, t, NoPosition) = 0
  BY <1>1 DEF Payable
<1>8. MoneyOK(NoPosition)
  BY <1>1, <1>4 DEF MoneyOK
<1> QED
  BY <1>1, <1>2, <1>5, <1>6, <1>7, <1>8 DEF Kept

\* what the crank settles a position to
MaturedAt(e, p, t) ==
  IF p.through = 0 \/ p.through > MonthStart(t) THEN p
  ELSE [AccrueAt(e, p, MonthStart(t)) EXCEPT !.payable = AccrueAt(e, p, MonthStart(t)).owed]

LEMMA MaturedIs ==
  ASSUME VaultOK, NEW t \in Nat \ {0}, NEW e, EpochRecords(e),
         NEW p, NEW c, NEW d, Kept(e, t, p, c, d)
  PROVE  LET m == MaturedAt(e, p, t)
         IN  /\ MoneyOK(m) /\ m.principal = p.principal /\ m.drawn = p.drawn
             /\ m.payable = d \div Slice /\ Worth(e, m, t) = c
             /\ p.through # 0 => m.through = Later(p.through, MonthStart(t))
             /\ m.through = MonthStart(t) => m.payable = m.owed
             /\ p.through = 0 => m = p
<1>1. PICK B \in Nat : B = MonthStart(t) /\ B <= t
  BY MonthIs
<1>2. /\ MoneyOK(p) /\ p.through \in Nat /\ p.through <= t /\ Worth(e, p, t) = c
      /\ Payable(e, t, p) = d \div Slice
  BY DEF Kept, MoneyOK
<1>3. CASE p.through # 0 /\ p.through <= B
  <2>1. PICK m :
          /\ m = AccrueAt(e, p, B) /\ MoneyOK(m) /\ m.through = Later(p.through, B)
          /\ m.principal = p.principal /\ m.drawn = p.drawn
          /\ \A u \in Nat : p.through <= u /\ B <= u => Worth(e, m, u) = Worth(e, p, u)
    BY <1>1, <1>2, SettledIs
  <2>2. PICK q : q = [m EXCEPT !.payable = m.owed]
    OBVIOUS
  <2>3. /\ IsPosition(q) /\ q.payable = m.owed /\ q.owed = m.owed /\ q.remainder = m.remainder
        /\ q.through = m.through /\ q.principal = m.principal /\ q.drawn = m.drawn
        /\ q.paidThrough = m.paidThrough
    BY <2>1, <2>2, PositionFields DEF IsPosition, MoneyOK
  <2>4. MoneyOK(q) /\ Worth(e, q, t) = Worth(e, m, t)
    BY <2>1, <2>3 DEF MoneyOK, Worth
  <2>5. Worth(e, m, t) = c
    BY <1>1, <1>2, <2>1
  <2>6. q = MaturedAt(e, p, t)
    <3>1. ~(p.through = 0 \/ p.through > B)
      BY <1>1, <1>2, <1>3
    <3> QED
      BY <1>1, <2>1, <2>2, <3>1 DEF MaturedAt
  <2>7. Payable(e, t, p) = m.owed
    BY <1>1, <1>3, <2>1 DEF Payable
  <2> QED
    BY <1>1, <1>2, <1>3, <2>1, <2>3, <2>4, <2>5, <2>6, <2>7
<1>4. CASE ~(p.through # 0 /\ p.through <= B)
  <2>1. MaturedAt(e, p, t) = p /\ Payable(e, t, p) = p.payable
    <3>1. p.through = 0 \/ p.through > B
      BY <1>1, <1>2, <1>4
    <3> QED
      BY <1>1, <1>4, <3>1 DEF MaturedAt, Payable
  <2>2. p.through # 0 => p.through = Later(p.through, B)
    BY <1>1, <1>2, <1>4 DEF Later
  <2>3. p.through = B => p.payable = p.owed
    <3>1. p.through = B => p.through = 0
      BY <1>4, <1>1
    <3> QED
      BY <3>1 DEF Kept, MoneyOK
  <2> QED
    BY <1>1, <1>2, <2>1, <2>2, <2>3
<1> QED
  BY <1>3, <1>4

PaidOut(m, boundary) ==
  [m EXCEPT !.owed = m.owed - m.payable, !.payable = 0, !.paidThrough = boundary]

Pays(e, t, p, m, q) ==
  /\ m = MaturedAt(e, p, t) /\ m.payable > 0 /\ q = PaidOut(m, MonthStart(t))

\* paying what is payable
LEMMA KeptPaid ==
  ASSUME VaultOK, NEW t \in Nat \ {0}, NEW e, EpochRecords(e),
         NEW p, NEW c, NEW d, Kept(e, t, p, c, d),
         NEW m, NEW q, Pays(e, t, p, m, q)
  PROVE  /\ Kept(e, t, q, c - Slice * m.payable, d - Slice * m.payable)
         /\ m.payable \in Nat /\ m.owed \in Nat /\ q.owed = m.owed - m.payable
         /\ q.principal = p.principal /\ q.drawn = p.drawn
<1>1. PICK B \in Nat : B = MonthStart(t) /\ B <= t
  BY MonthIs
<1>0. m = MaturedAt(e, p, t) /\ m.payable > 0 /\ q = PaidOut(m, MonthStart(t))
  BY DEF Pays
<1>2. /\ MoneyOK(m) /\ m.principal = p.principal /\ m.drawn = p.drawn
      /\ m.payable = d \div Slice /\ Worth(e, m, t) = c
      /\ p.through # 0 => m.through = Later(p.through, B)
      /\ m.through = B => m.payable = m.owed
      /\ p.through = 0 => m = p
  BY <1>0, <1>1, MaturedIs
<1>3. PICK a \in Nat, o \in Nat : a = m.payable /\ o = m.owed /\ a <= o
  BY <1>2 DEF MoneyOK
<1>4. p.through # 0 /\ p.through \in Nat /\ p.through <= t /\ MoneyOK(p)
  <2>1. p.through = 0 => p.payable = 0
    BY DEF Kept, MoneyOK
  <2> QED
    BY <1>0, <1>2, <2>1 DEF Kept, MoneyOK
<1>5. /\ IsPosition(q) /\ q.payable = 0 /\ q.owed = o - a /\ q.remainder = m.remainder
      /\ q.through = m.through /\ q.principal = m.principal /\ q.drawn = m.drawn /\ q.paidThrough = B
  BY <1>0, <1>1, <1>2, <1>3, PositionFields DEF IsPosition, MoneyOK, PaidOut
<1>6. MoneyOK(q)
  BY <1>2, <1>3, <1>5 DEF MoneyOK
<1>7. m.through \in Nat /\ m.through >= B /\ m.through # 0 /\ m.through <= t
  BY <1>1, <1>2, <1>4 DEF Later
<1>8. /\ Worth(e, q, t) = c - Slice * a /\ d - Slice * a \in Nat
      /\ (d - Slice * a) \div Slice = 0
  <2>0. Slice \in Nat \ {0}
    BY Divisors
  <2>1. PICK sa \in Nat, so \in Nat : sa = Slice * a /\ so = Slice * o
    BY <2>0
  <2>2. Slice * (o - a) = so - sa
    BY <2>0, <2>1
  <2>3. PICK x \in Nat, r \in Nat : x = Accrued(m.principal, e, m.through, t) /\ r = m.remainder
    BY <1>2, AccruedNat DEF MoneyOK
  <2>4. Worth(e, m, t) = so + r + x /\ Worth(e, q, t) = (so - sa) + r + x
    BY <1>3, <1>5, <2>1, <2>2, <2>3 DEF Worth
  <2>5. PICK y \in Nat, k \in Nat : y = d \div Slice /\ d = Slice * y + k /\ k < Slice /\ d \in Nat
    BY <2>0, DivIs DEF Kept
  <2>6. d - Slice * a = k
    BY <1>2, <1>3, <2>1, <2>5
  <2>7. Slice * 0 + k = k
    BY <2>0, <2>5
  <2>8. k \div Slice = 0
    BY <2>5, <2>7, UnitsOf
  <2> QED
    BY <1>2, <2>1, <2>4, <2>6, <2>8
<1>9. q.through = B => q.owed = 0
  BY <1>2, <1>3, <1>5
<1>10. Payable(e, t, q) = 0
  <2>1. CASE q.through = B
    <3>0. B <= q.through
      BY <2>1
    <3>1. AccrueAt(e, q, B).owed = q.owed
      BY <3>0 DEF AccrueAt
    <3> QED
      BY <1>1, <1>5, <1>9, <2>1, <3>1 DEF Payable
  <2>2. CASE q.through # B
    BY <1>1, <1>5, <1>7, <2>2 DEF Payable
  <2> QED
    BY <2>1, <2>2
<1>11. q.through = MonthStart(q.through) => q.payable = q.owed
  <2>1. MonthStart(q.through) = B
    BY <1>1, <1>5, <1>7, MonthHolds
  <2> QED
    BY <1>5, <1>9, <2>1
<1>12. Kept(e, t, q, c - Slice * a, d - Slice * a)
  <2>1. q.paidThrough <= MonthStart(t) /\ q.through >= MonthStart(t) /\ q.through <= t /\ q.through # 0
    BY <1>1, <1>5, <1>7
  <2> QED
    BY <1>5, <1>6, <1>8, <1>10, <1>11, <2>1 DEF Kept
<1> QED
  BY <1>2, <1>3, <1>5, <1>12

----------------------------------------------------------------------------
(* Sums over the owners *)

\* the owners can be listed from 1 to their number
LEMMA OwnersListed ==
  ASSUME VaultOK
  PROVE  /\ Cardinality(Owners) \in Nat
         /\ Listed \in [1..Cardinality(Owners) -> Owners]
         /\ \A o \in Owners : \E j \in 1..Cardinality(Owners) :
              \A i \in 1..Cardinality(Owners) : Listed[i] = o <=> i = j
<1>1. Cardinality(Owners) \in Nat /\ ExistsBijection(1..Cardinality(Owners), Owners)
  BY FS_CardinalityType DEF VaultOK
<1>2. Listed \in Bijection(1..Cardinality(Owners), Owners)
  BY <1>1 DEF ExistsBijection, Listed
<1> QED
  BY <1>1, <1>2 DEF Bijection, Injection, IsInjective, Surjection

LEMMA SumSame ==
  ASSUME VaultOK, NEW f, NEW g, \A o \in Owners : f[o] = g[o]
  PROVE  Sum(f) = Sum(g)
<1> DEFINE n == Cardinality(Owners)
           a == [i \in 1..n |-> f[Listed[i]]]
           b == [i \in 1..n |-> g[Listed[i]]]
<1>1. n \in Nat /\ \A i \in 1..n : a[i] = b[i]
  BY OwnersListed
<1>2. Sum(f) = SumTo(a, n) /\ Sum(g) = SumTo(b, n)
  BY DEF Sum
<1> HIDE DEF n, a, b
<1>3. SumTo(a, n) = SumTo(b, n)
  BY <1>1, SumToSame
<1> QED
  BY <1>2, <1>3

LEMMA SumOrdered ==
  ASSUME VaultOK, NEW f, NEW g, \A o \in Owners : f[o] \in Nat /\ g[o] \in Nat /\ f[o] <= g[o]
  PROVE  Sum(f) \in Nat /\ Sum(g) \in Nat /\ Sum(f) <= Sum(g)
<1> DEFINE n == Cardinality(Owners)
           a == [i \in 1..n |-> f[Listed[i]]]
           b == [i \in 1..n |-> g[Listed[i]]]
<1>1. n \in Nat /\ \A i \in 1..n : a[i] \in Nat /\ b[i] \in Nat /\ a[i] <= b[i]
  BY OwnersListed
<1>2. Sum(f) = SumTo(a, n) /\ Sum(g) = SumTo(b, n)
  BY DEF Sum
<1> HIDE DEF n, a, b
<1>3. SumTo(a, n) <= SumTo(b, n)
  BY <1>1, SumToOrdered
<1>4. SumTo(a, n) \in Nat /\ SumTo(b, n) \in Nat
  BY <1>1, SumToNat
<1> QED
  BY <1>2, <1>3, <1>4

\* one owner's share changes
LEMMA SumChanges ==
  ASSUME VaultOK, NEW f, NEW g, NEW x \in Owners,
         \A o \in Owners : f[o] \in Int /\ g[o] \in Int /\ (o # x => g[o] = f[o])
  PROVE  Sum(g) = Sum(f) + g[x] - f[x]
<1> DEFINE n == Cardinality(Owners)
           a == [i \in 1..n |-> f[Listed[i]]]
           b == [i \in 1..n |-> g[Listed[i]]]
<1>1. n \in Nat /\ \A i \in 1..n : a[i] \in Int /\ b[i] \in Int
  BY OwnersListed
<1>2. PICK j \in 1..n : \A i \in 1..n : Listed[i] = x <=> i = j
  BY OwnersListed
<1>3. PICK d \in Int : d = g[x] - f[x]
  OBVIOUS
<1> DEFINE c == [i \in 1..n |-> IF i = j THEN d ELSE 0]
<1>4. \A i \in 1..n : a[i] \in Int /\ c[i] \in Int /\ b[i] = a[i] + c[i]
  <2> SUFFICES ASSUME NEW i \in 1..n PROVE a[i] \in Int /\ c[i] \in Int /\ b[i] = a[i] + c[i]
    OBVIOUS
  <2>1. Listed[i] \in Owners
    BY <1>1, OwnersListed
  <2>2. CASE i = j
    <3>1. Listed[i] = x
      BY <1>2, <2>2
    <3> QED
      BY <1>3, <2>2, <3>1
  <2>3. CASE i # j
    <3>1. Listed[i] # x
      BY <1>2, <2>3
    <3> QED
      BY <2>1, <2>3, <3>1
  <2> QED
    BY <2>2, <2>3
<1>5. \A i \in 1..n : c[i] = IF i = j THEN d ELSE 0
  OBVIOUS
<1>6. Sum(f) = SumTo(a, n) /\ Sum(g) = SumTo(b, n)
  BY DEF Sum
<1> HIDE DEF n, a, b, c
<1>7. SumTo(c, n) = d
  BY <1>1, <1>2, <1>5, SumToSingle
<1>8. SumTo(b, n) = SumTo(a, n) + SumTo(c, n)
  BY <1>1, <1>4, SumToPlus
<1>9. SumTo(a, n) \in Int
  BY <1>1, SumToInt
<1>10. f[x] \in Int /\ g[x] \in Int
  OBVIOUS
<1> QED
  BY <1>3, <1>6, <1>7, <1>8, <1>9, <1>10

----------------------------------------------------------------------------
(* The steps *)

\* the operators of the instructions are those above at today's rates
LEMMA AsInstructions ==
  /\ \A p, t : CheckpointCoupon(p, t) = CheckpointAt(config.epochs, p, t)
  /\ \A p : Matured(p) = MaturedAt(config.epochs, p, now)
<1>1. \A p, t : Accrue(p, t) = AccrueAt(config.epochs, p, t)
  BY DEF Accrue, AccrueAt, Settled
<1>2. \A p, t : CheckpointCoupon(p, t) = CheckpointAt(config.epochs, p, t)
  BY <1>1 DEF CheckpointCoupon, CheckpointAt
<1>3. \A p : Matured(p) = MaturedAt(config.epochs, p, now)
  BY <1>1 DEF Matured, MatureCoupon, MaturedAt
<1> QED
  BY <1>2, <1>3

\* what the invariant says of one position
LEMMA PositionKept ==
  ASSUME VaultInv, NEW o \in Owners
  PROVE  /\ Kept(config.epochs, now, pos[o], credit[o], due[o])
         /\ MoneyOK(pos[o]) /\ IsPosition(pos[o]) /\ EpochRecords(config.epochs)
         /\ now \in Nat \ {0}
BY EpochsRecorded DEF VaultInv, PositionsKept, Kept, MoneyOK

\* the totals are natural numbers, and no more is drawn than there is
LEMMA TotalsNat ==
  ASSUME VaultOK, VaultInv
  PROVE  config.total \in Nat /\ config.drawn \in Nat /\ config.owed \in Nat /\ config.drawn <= config.total
<1> DEFINE a == [o \in Owners |-> pos[o].principal]
           b == [o \in Owners |-> pos[o].drawn]
           c == [o \in Owners |-> pos[o].owed]
<1>1. \A o \in Owners : b[o] \in Nat /\ a[o] \in Nat /\ b[o] <= a[o] /\ c[o] \in Nat /\ c[o] <= c[o]
  BY PositionKept DEF MoneyOK
<1>2. config.total = Sum(a) /\ config.drawn = Sum(b) /\ config.owed = Sum(c)
  BY DEF VaultInv, TotalsKept
<1> HIDE DEF a, b, c
<1>3. Sum(b) \in Nat /\ Sum(a) \in Nat /\ Sum(b) <= Sum(a)
  BY <1>1, SumOrdered
<1>4. Sum(c) \in Nat
  BY <1>1, SumOrdered
<1> QED
  BY <1>2, <1>3, <1>4

\* a step of one position and the totals it is part of
LEMMA PositionMoves ==
  ASSUME VaultOK, VaultInv, NEW o \in Owners, NEW q, pos' = [pos EXCEPT ![o] = q],
         now' = now, IsConfig(config'), config'.epochs = config.epochs,
         NEW C, NEW D, Kept(config.epochs, now, q, C, D),
         credit' = [credit EXCEPT ![o] = C], due' = [due EXCEPT ![o] = D],
         config'.total = config.total + q.principal - pos[o].principal,
         config'.drawn = config.drawn + q.drawn - pos[o].drawn,
         config'.owed = config.owed + q.owed - pos[o].owed
  PROVE  PositionsKept' /\ TotalsKept'
<1>1. /\ pos = [x \in Owners |-> pos[x]] /\ credit = [x \in Owners |-> credit[x]]
      /\ due = [x \in Owners |-> due[x]]
      /\ \A x \in Owners : Kept(config.epochs, now, pos[x], credit[x], due[x])
  BY DEF VaultInv, PositionsKept
<1>2. /\ pos' = [x \in Owners |-> pos'[x]] /\ pos'[o] = q /\ \A x \in Owners \ {o} : pos'[x] = pos[x]
  BY <1>1
<1>3. /\ credit' = [x \in Owners |-> credit'[x]] /\ credit'[o] = C
      /\ \A x \in Owners \ {o} : credit'[x] = credit[x]
  BY <1>1
<1>4. /\ due' = [x \in Owners |-> due'[x]] /\ due'[o] = D
      /\ \A x \in Owners \ {o} : due'[x] = due[x]
  BY <1>1
<1>5. \A x \in Owners : Kept(config'.epochs, now', pos'[x], credit'[x], due'[x])
  <2> SUFFICES ASSUME NEW x \in Owners PROVE Kept(config'.epochs, now', pos'[x], credit'[x], due'[x])
    OBVIOUS
  <2>1. CASE x = o
    BY <1>2, <1>3, <1>4, <2>1
  <2>2. CASE x # o
    BY <1>1, <1>2, <1>3, <1>4, <2>2
  <2> QED
    BY <2>1, <2>2
<1>6. PositionsKept'
  BY <1>2, <1>3, <1>4, <1>5 DEF PositionsKept
<1>7. \A x \in Owners : /\ pos[x].principal \in Int /\ pos'[x].principal \in Int
                        /\ pos[x].drawn \in Int /\ pos'[x].drawn \in Int
                        /\ pos[x].owed \in Int /\ pos'[x].owed \in Int
  BY <1>1, <1>5 DEF Kept, MoneyOK
<1>8. config'.total = Sum([x \in Owners |-> pos'[x].principal])
  <2> DEFINE f == [x \in Owners |-> pos[x].principal]
             g == [x \in Owners |-> pos'[x].principal]
  <2>1. \A x \in Owners : f[x] \in Int /\ g[x] \in Int /\ (x # o => g[x] = f[x])
    BY <1>2, <1>7
  <2>2. g[o] = q.principal /\ f[o] = pos[o].principal
    BY <1>2
  <2>3. config.total = Sum(f)
    BY DEF VaultInv, TotalsKept
  <2> HIDE DEF f, g
  <2>4. Sum(g) = Sum(f) + g[o] - f[o]
    BY <2>1, SumChanges
  <2> QED
    BY <2>2, <2>3, <2>4 DEF g
<1>9. config'.drawn = Sum([x \in Owners |-> pos'[x].drawn])
  <2> DEFINE f == [x \in Owners |-> pos[x].drawn]
             g == [x \in Owners |-> pos'[x].drawn]
  <2>1. \A x \in Owners : f[x] \in Int /\ g[x] \in Int /\ (x # o => g[x] = f[x])
    BY <1>2, <1>7
  <2>2. g[o] = q.drawn /\ f[o] = pos[o].drawn
    BY <1>2
  <2>3. config.drawn = Sum(f)
    BY DEF VaultInv, TotalsKept
  <2> HIDE DEF f, g
  <2>4. Sum(g) = Sum(f) + g[o] - f[o]
    BY <2>1, SumChanges
  <2> QED
    BY <2>2, <2>3, <2>4 DEF g
<1>10. config'.owed = Sum([x \in Owners |-> pos'[x].owed])
  <2> DEFINE f == [x \in Owners |-> pos[x].owed]
             g == [x \in Owners |-> pos'[x].owed]
  <2>1. \A x \in Owners : f[x] \in Int /\ g[x] \in Int /\ (x # o => g[x] = f[x])
    BY <1>2, <1>7
  <2>2. g[o] = q.owed /\ f[o] = pos[o].owed
    BY <1>2
  <2>3. config.owed = Sum(f)
    BY DEF VaultInv, TotalsKept
  <2> HIDE DEF f, g
  <2>4. Sum(g) = Sum(f) + g[o] - f[o]
    BY <2>1, SumChanges
  <2> QED
    BY <2>2, <2>3, <2>4 DEF g
<1>11. TotalsKept'
  BY <1>8, <1>9, <1>10 DEF TotalsKept
<1> QED
  BY <1>6, <1>11

\* a step that moves no position
LEMMA PositionsRest ==
  ASSUME VaultInv, UNCHANGED <<now, pos, credit, due>>, IsConfig(config'), config'.epochs = config.epochs,
         config'.total = config.total, config'.drawn = config.drawn, config'.owed = config.owed
  PROVE  PositionsKept' /\ TotalsKept'
<1>1. PositionsKept'
  BY DEF VaultInv, PositionsKept
<1>2. TotalsKept'
  BY DEF VaultInv, TotalsKept
<1> QED
  BY <1>1, <1>2

\* a position booked with its totals
LEMMA BookMoves ==
  ASSUME VaultOK, VaultInv, NEW o \in Owners, NEW q, Book(o, q), now' = now,
         NEW C, NEW D, Kept(config.epochs, now, q, C, D),
         credit' = [credit EXCEPT ![o] = C], due' = [due EXCEPT ![o] = D]
  PROVE  /\ PositionsKept' /\ TotalsKept'
         /\ config'.total = config.total + q.principal - pos[o].principal
         /\ config'.drawn = config.drawn + q.drawn - pos[o].drawn
         /\ config'.funded = config.funded /\ config'.paid = config.paid /\ config'.epochs = config.epochs
<1>1. IsConfig(config)
  BY DEF VaultInv, TotalsKept
<1>2. /\ IsConfig(config')
      /\ config'.total = config.total + q.principal - pos[o].principal
      /\ config'.drawn = config.drawn + q.drawn - pos[o].drawn
      /\ config'.owed = config.owed + q.owed - pos[o].owed
      /\ config'.funded = config.funded /\ config'.paid = config.paid /\ config'.epochs = config.epochs
  BY <1>1 DEF Book, IsConfig, ConfigFields
<1>3. pos' = [pos EXCEPT ![o] = q]
  BY DEF Book
<1>4. PositionsKept' /\ TotalsKept'
  BY <1>2, <1>3, PositionMoves
<1> QED
  BY <1>2, <1>4

\* the clock stands and the rates are the same
LEMMA InvAgain ==
  ASSUME VaultInv, now' = now, config'.epochs = config.epochs, PositionsKept', TotalsKept', AccountsBacked'
  PROVE  VaultInv'
BY DEF VaultInv, EpochsOK

\* histories that are left alone
LEMMA HistoriesRest ==
  ASSUME VaultInv, UNCHANGED <<credit, due>>, NEW o \in Owners
  PROVE  credit' = [credit EXCEPT ![o] = credit[o]] /\ due' = [due EXCEPT ![o] = due[o]]
BY DEF VaultInv, PositionsKept

\* a step that changes no money: what a position may do, or its notice
SameMoney(q, p) ==
  /\ q.principal = p.principal /\ q.drawn = p.drawn /\ q.owed = p.owed /\ q.payable = p.payable
  /\ q.remainder = p.remainder /\ q.through = p.through /\ q.paidThrough = p.paidThrough

LEMMA StatusMoves ==
  ASSUME VaultOK, VaultInv, NEW o \in Owners, NEW q, pos' = [pos EXCEPT ![o] = q],
         IsPosition(q), SameMoney(q, pos[o]), UNCHANGED <<now, vault, pool, credit, due>>,
         IsConfig(config'), config'.epochs = config.epochs,
         config'.total = config.total, config'.drawn = config.drawn, config'.owed = config.owed,
         config'.funded = config.funded, config'.paid = config.paid
  PROVE  VaultInv'
<1>1. /\ Kept(config.epochs, now, pos[o], credit[o], due[o]) /\ MoneyOK(pos[o])
      /\ EpochRecords(config.epochs) /\ now \in Nat \ {0}
  BY PositionKept
<1>2. Kept(config.epochs, now, q, credit[o], due[o])
  BY <1>1, Rebooked DEF SameMoney, MoneyOK
<1>3. config.total \in Nat /\ config.drawn \in Nat /\ config.owed \in Nat
  BY TotalsNat
<1>4. /\ config'.total = config.total + q.principal - pos[o].principal
      /\ config'.drawn = config.drawn + q.drawn - pos[o].drawn
      /\ config'.owed = config.owed + q.owed - pos[o].owed
  BY <1>1, <1>3 DEF SameMoney, MoneyOK
<1>5. credit' = [credit EXCEPT ![o] = credit[o]] /\ due' = [due EXCEPT ![o] = due[o]]
  BY HistoriesRest
<1>6. PositionsKept' /\ TotalsKept'
  <2>1. PICK C, D : /\ Kept(config.epochs, now, q, C, D)
                    /\ credit' = [credit EXCEPT ![o] = C] /\ due' = [due EXCEPT ![o] = D]
    BY <1>2, <1>5
  <2>2. now' = now
    OBVIOUS
  <2> QED
    BY <1>4, <2>1, <2>2, PositionMoves
<1>7. AccountsBacked'
  BY DEF VaultInv, AccountsBacked, Accounted
<1> QED
  BY <1>6, <1>7, InvAgain

LEMMA AllowlistKeeps ==
  ASSUME VaultOK, VaultInv, NEW o \in Owners, NEW agreement, Allowlist(o, agreement)
  PROVE  VaultInv'
<1>1. IsPosition(pos[o]) /\ pos = [x \in Owners |-> pos[x]] /\ IsConfig(config)
  BY PositionKept DEF VaultInv, PositionsKept, TotalsKept
<1>2. PICK q : q = [pos[o] EXCEPT !.open = TRUE, !.agreement = agreement, !.allowlisted = TRUE]
  OBVIOUS
<1>3. IsPosition(q) /\ SameMoney(q, pos[o])
  BY <1>1, <1>2, PositionFields DEF IsPosition, SameMoney
<1>4. pos' = [pos EXCEPT ![o] = q]
  BY <1>1, <1>2 DEF Allowlist
<1>5. /\ IsConfig(config') /\ config'.epochs = config.epochs
      /\ config'.total = config.total /\ config'.drawn = config.drawn /\ config'.owed = config.owed
      /\ config'.funded = config.funded /\ config'.paid = config.paid
  <2>1. PICK n : config' = [config EXCEPT !.positions = n]
    BY DEF Allowlist
  <2> QED
    BY <1>1, <2>1 DEF IsConfig, ConfigFields
<1>6. UNCHANGED <<now, vault, pool, credit, due>>
  BY DEF Allowlist
<1> QED
  BY <1>3, <1>4, <1>5, <1>6, StatusMoves

LEMMA RevokeKeeps ==
  ASSUME VaultOK, VaultInv, NEW o \in Owners, RevokeAllowlist(o)
  PROVE  VaultInv'
<1>1. IsPosition(pos[o]) /\ pos = [x \in Owners |-> pos[x]] /\ IsConfig(config)
  BY PositionKept DEF VaultInv, PositionsKept, TotalsKept
<1>2. PICK q : q = [pos[o] EXCEPT !.allowlisted = FALSE]
  OBVIOUS
<1>3. IsPosition(q) /\ SameMoney(q, pos[o])
  BY <1>1, <1>2, PositionFields DEF IsPosition, SameMoney
<1>4. pos' = [pos EXCEPT ![o] = q] /\ UNCHANGED <<now, config, vault, pool, credit, due>>
  BY <1>1, <1>2 DEF RevokeAllowlist
<1> QED
  BY <1>1, <1>3, <1>4, StatusMoves

LEMMA HaltKeeps ==
  ASSUME VaultOK, VaultInv, NEW o \in Owners, NEW halted, Halts(o, halted)
  PROVE  VaultInv'
<1>1. IsPosition(pos[o]) /\ pos = [x \in Owners |-> pos[x]] /\ IsConfig(config)
  BY PositionKept DEF VaultInv, PositionsKept, TotalsKept
<1>2. PICK q : q = [pos[o] EXCEPT !.halted = halted]
  OBVIOUS
<1>3. IsPosition(q) /\ SameMoney(q, pos[o])
  BY <1>1, <1>2, PositionFields DEF IsPosition, SameMoney
<1>4. pos' = [pos EXCEPT ![o] = q] /\ UNCHANGED <<now, config, vault, pool, credit, due>>
  BY <1>1, <1>2 DEF Halts
<1> QED
  BY <1>1, <1>3, <1>4, StatusMoves

LEMMA RequestKeeps ==
  ASSUME VaultOK, VaultInv, NEW o \in Owners, RequestWithdrawal(o)
  PROVE  VaultInv'
<1>1. IsPosition(pos[o]) /\ pos = [x \in Owners |-> pos[x]] /\ IsConfig(config)
  BY PositionKept DEF VaultInv, PositionsKept, TotalsKept
<1>2. PICK q : q = [pos[o] EXCEPT !.requestedAt = now,
                                  !.eligibleAt = Later(now + pos[o].notice, pos[o].lockEnd)]
  OBVIOUS
<1>3. IsPosition(q) /\ SameMoney(q, pos[o])
  BY <1>1, <1>2, PositionFields DEF IsPosition, SameMoney
<1>4. pos' = [pos EXCEPT ![o] = q] /\ UNCHANGED <<now, config, vault, pool, credit, due>>
  BY <1>1, <1>2 DEF RequestWithdrawal
<1> QED
  BY <1>1, <1>3, <1>4, StatusMoves

LEMMA CancelKeeps ==
  ASSUME VaultOK, VaultInv, NEW o \in Owners, CancelWithdrawal(o)
  PROVE  VaultInv'
<1>1. IsPosition(pos[o]) /\ pos = [x \in Owners |-> pos[x]] /\ IsConfig(config)
  BY PositionKept DEF VaultInv, PositionsKept, TotalsKept
<1>2. PICK q : q = [pos[o] EXCEPT !.requestedAt = 0, !.eligibleAt = 0]
  OBVIOUS
<1>3. IsPosition(q) /\ SameMoney(q, pos[o])
  BY <1>1, <1>2, PositionFields DEF IsPosition, SameMoney
<1>4. pos' = [pos EXCEPT ![o] = q] /\ UNCHANGED <<now, config, vault, pool, credit, due>>
  BY <1>1, <1>2 DEF CancelWithdrawal
<1> QED
  BY <1>1, <1>3, <1>4, StatusMoves

\* a closed position is worth nothing and was owed nothing
LEMMA CloseKeeps ==
  ASSUME VaultOK, VaultInv, NEW o \in Owners, ClosePosition(o)
  PROVE  VaultInv'
<1>1. /\ MoneyOK(pos[o]) /\ EpochRecords(config.epochs) /\ now \in Nat \ {0} /\ IsConfig(config)
  BY PositionKept DEF VaultInv, TotalsKept
<1>2. Kept(config.epochs, now, NoPosition, 0, 0)
  BY <1>1, KeptEmpty
<1>3. /\ IsConfig(config') /\ config'.epochs = config.epochs
      /\ config'.total = config.total /\ config'.drawn = config.drawn /\ config'.owed = config.owed
      /\ config'.funded = config.funded /\ config'.paid = config.paid
  <2>1. PICK n : config' = [config EXCEPT !.positions = n]
    BY DEF ClosePosition
  <2> QED
    BY <1>1, <2>1 DEF IsConfig, ConfigFields
<1>4. config.total \in Nat /\ config.drawn \in Nat /\ config.owed \in Nat
  BY TotalsNat
<1>5. pos[o].principal = 0 /\ pos[o].drawn = 0 /\ pos[o].owed = 0
  BY DEF ClosePosition
<1>6. NoPosition.principal = 0 /\ NoPosition.drawn = 0 /\ NoPosition.owed = 0
  BY DEF NoPosition
<1>7. /\ config'.total = config.total + NoPosition.principal - pos[o].principal
      /\ config'.drawn = config.drawn + NoPosition.drawn - pos[o].drawn
      /\ config'.owed = config.owed + NoPosition.owed - pos[o].owed
  BY <1>3, <1>4, <1>5, <1>6
<1>8. /\ pos' = [pos EXCEPT ![o] = NoPosition] /\ credit' = [credit EXCEPT ![o] = 0]
      /\ due' = [due EXCEPT ![o] = 0] /\ UNCHANGED <<now, vault, pool>>
  BY DEF ClosePosition
<1>9. PositionsKept' /\ TotalsKept'
  BY <1>2, <1>3, <1>7, <1>8, PositionMoves
<1>10. AccountsBacked'
  BY <1>3, <1>8 DEF VaultInv, AccountsBacked, Accounted
<1> QED
  BY <1>3, <1>8, <1>9, <1>10, InvAgain

\* a position settled by now whose principal changes, and the accounts with it
LEMMA BookKeeps ==
  ASSUME VaultOK, VaultInv, NEW o \in Owners, NEW q, Book(o, q), now' = now, pool' = pool,
         NEW C, NEW D, Kept(config.epochs, now, q, C, D),
         credit' = [credit EXCEPT ![o] = C], due' = [due EXCEPT ![o] = D],
         vault' \in Nat,
         vault' - vault >= (q.principal - pos[o].principal) - (q.drawn - pos[o].drawn)
  PROVE  VaultInv'
<1>1. /\ PositionsKept' /\ TotalsKept'
      /\ config'.total = config.total + q.principal - pos[o].principal
      /\ config'.drawn = config.drawn + q.drawn - pos[o].drawn
      /\ config'.funded = config.funded /\ config'.paid = config.paid /\ config'.epochs = config.epochs
  BY BookMoves
<1>2. config.total \in Nat /\ config.drawn \in Nat /\ MoneyOK(pos[o]) /\ MoneyOK(q)
  BY TotalsNat, PositionKept DEF Kept
<1>3. PICK x \in Nat, y \in Nat, u \in Nat, v \in Nat :
        x = q.principal /\ y = q.drawn /\ u = pos[o].principal /\ v = pos[o].drawn
  BY <1>2 DEF MoneyOK
<1>4. vault \in Nat /\ vault >= config.total - config.drawn
  BY DEF VaultInv, AccountsBacked
<1>5. vault' >= config'.total - config'.drawn
  BY <1>1, <1>2, <1>3, <1>4
<1>6. AccountsBacked'
  BY <1>1, <1>5 DEF VaultInv, AccountsBacked, Accounted
<1> QED
  BY <1>1, <1>6, InvAgain

\* a position ready for a deposit: with today's terms, and afresh when nothing is owed to it
LEMMA OpenedKept ==
  ASSUME VaultOK, VaultInv, NEW o \in Owners
  PROVE  LET r == Opened(pos[o])
             afresh == pos[o].principal = 0 /\ pos[o].owed = 0
         IN  /\ Kept(config.epochs, now, r, IF afresh THEN 0 ELSE credit[o], IF afresh THEN 0 ELSE due[o])
             /\ r.principal = pos[o].principal /\ r.drawn = pos[o].drawn
<1>1. PICK p, e, c, d : p = pos[o] /\ e = config.epochs /\ c = credit[o] /\ d = due[o]
  OBVIOUS
<1>2. /\ Kept(e, now, p, c, d) /\ MoneyOK(p) /\ IsPosition(p) /\ EpochRecords(e) /\ now \in Nat \ {0}
  BY <1>1, PositionKept
<1>3. CASE p.principal # 0
  <2>1. Opened(p) = p
    BY <1>3 DEF Opened
  <2> QED
    BY <1>1, <1>2, <1>3, <2>1
<1>4. CASE p.principal = 0
  <2>1. PICK n : n = [p EXCEPT !.lock = config.lock, !.notice = config.notice, !.lockEnd = 0]
    OBVIOUS
  <2>2. IsPosition(n) /\ SameMoney(n, p)
    BY <1>2, <2>1, PositionFields DEF IsPosition, SameMoney
  <2>3. CASE p.owed # 0
    <3>1. Opened(p) = n
      BY <1>4, <2>1, <2>3 DEF Opened
    <3>2. Kept(e, now, n, c, d)
      BY <1>2, <2>2, Rebooked DEF SameMoney, MoneyOK
    <3> QED
      BY <1>1, <2>2, <2>3, <3>1, <3>2 DEF SameMoney
  <2>4. CASE p.owed = 0
    <3>1. PICK B \in Nat : B = MonthStart(now)
      BY <1>2, MonthIs
    <3>2. PICK r : r = [n EXCEPT !.through = now, !.paidThrough = B, !.payable = 0, !.remainder = 0]
      OBVIOUS
    <3>3. /\ IsPosition(r) /\ r.through = now /\ r.paidThrough = B /\ r.payable = 0 /\ r.remainder = 0
          /\ r.principal = n.principal /\ r.drawn = n.drawn /\ r.owed = n.owed
      BY <2>2, <3>2, PositionFields DEF IsPosition
    <3>4. r = Opened(p)
      BY <1>4, <2>1, <2>4, <3>1, <3>2 DEF Opened
    <3>5. MoneyOK(r)
      <4>1. 0 < Slice
        BY Divisors
      <4> QED
        BY <1>2, <2>2, <2>4, <3>1, <3>3, <4>1 DEF MoneyOK, SameMoney
    <3>6. Kept(e, now, r, 0, 0)
      BY <1>2, <2>2, <2>4, <3>1, <3>3, <3>5, KeptAfresh DEF SameMoney
    <3> QED
      BY <1>1, <1>4, <2>2, <2>4, <3>3, <3>4, <3>6 DEF SameMoney
  <2> QED
    BY <2>3, <2>4
<1> QED
  BY <1>3, <1>4

LEMMA DepositKeeps ==
  ASSUME VaultOK, VaultInv, NEW o \in Owners, NEW amount \in Nat, Deposit(o, amount)
  PROVE  VaultInv'
<1>1. PICK e, c, d, afresh :
        /\ e = config.epochs /\ afresh = (pos[o].principal = 0 /\ pos[o].owed = 0)
        /\ c = IF pos[o].principal = 0 /\ pos[o].owed = 0 THEN 0 ELSE credit[o]
        /\ d = IF pos[o].principal = 0 /\ pos[o].owed = 0 THEN 0 ELSE due[o]
  OBVIOUS
<1>2. EpochRecords(e) /\ now \in Nat \ {0}
  BY <1>1, PositionKept
<1>3. PICK r : r = Opened(pos[o]) /\ Kept(e, now, r, c, d)
               /\ r.principal = pos[o].principal /\ r.drawn = pos[o].drawn
  BY <1>1, OpenedKept
<1>4. PICK k : /\ k = CheckpointAt(e, r, now)
               /\ Kept(e, now, k, c, d) /\ k.through = now /\ k.principal = r.principal
               /\ k.drawn = r.drawn /\ k.paidThrough = r.paidThrough /\ IsPosition(k)
  BY <1>2, <1>3, CheckpointKept
<1>5. PICK q : q = [k EXCEPT !.principal = k.principal + amount, !.lockEnd = Later(k.lockEnd, now + k.lock)]
  OBVIOUS
<1>6. /\ IsPosition(q) /\ q.principal = k.principal + amount /\ q.drawn = k.drawn
      /\ q.owed = k.owed /\ q.payable = k.payable /\ q.remainder = k.remainder
      /\ q.through = k.through /\ q.paidThrough = k.paidThrough
  BY <1>4, <1>5, PositionFields DEF IsPosition
<1>7. MoneyOK(k) /\ k.principal \in Nat /\ k.drawn \in Nat /\ k.drawn <= k.principal
  BY <1>4 DEF Kept, MoneyOK
<1>8. Kept(e, now, q, c, d)
  <2>1. q.principal \in Nat /\ q.drawn \in Nat /\ q.drawn <= q.principal
    BY <1>6, <1>7
  <2> QED
    BY <1>2, <1>4, <1>6, <2>1, Rebooked
<1>9. Book(o, q)
  <2>1. k = CheckpointCoupon(Opened(pos[o]), now)
    BY <1>1, <1>3, <1>4, AsInstructions
  <2> QED
    BY <1>5, <2>1 DEF Deposit
<1>10. /\ now' = now /\ pool' = pool /\ vault' = vault + amount
       /\ credit' = [credit EXCEPT ![o] = c] /\ due' = [due EXCEPT ![o] = d]
  <2>1. CASE pos[o].principal = 0 /\ pos[o].owed = 0
    BY <1>1, <2>1 DEF Deposit
  <2>2. CASE ~(pos[o].principal = 0 /\ pos[o].owed = 0)
    <3>1. UNCHANGED <<credit, due>>
      BY <2>2 DEF Deposit
    <3>2. credit' = [credit EXCEPT ![o] = credit[o]] /\ due' = [due EXCEPT ![o] = due[o]]
      BY <3>1, HistoriesRest
    <3>3. now' = now /\ pool' = pool /\ vault' = vault + amount
      BY DEF Deposit
    <3> QED
      BY <1>1, <2>2, <3>2, <3>3
  <2> QED
    BY <2>1, <2>2
<1>11. /\ vault' \in Nat
       /\ vault' - vault >= (q.principal - pos[o].principal) - (q.drawn - pos[o].drawn)
  <2>1. vault \in Nat
    BY DEF VaultInv, AccountsBacked
  <2> QED
    BY <1>3, <1>4, <1>6, <1>7, <1>10, <2>1
<1> QED
  BY <1>1, <1>8, <1>9, <1>10, <1>11, BookKeeps

LEMMA WithdrawKeeps ==
  ASSUME VaultOK, VaultInv, NEW o \in Owners, NEW amount \in Nat, Withdraw(o, amount)
  PROVE  VaultInv'
<1>1. PICK e, p, c, d : e = config.epochs /\ p = pos[o] /\ c = credit[o] /\ d = due[o]
  OBVIOUS
<1>2. Kept(e, now, p, c, d) /\ MoneyOK(p) /\ EpochRecords(e) /\ now \in Nat \ {0}
  BY <1>1, PositionKept
<1>3. PICK k : /\ k = CheckpointAt(e, p, now)
               /\ Kept(e, now, k, c, d) /\ k.through = now /\ k.principal = p.principal
               /\ k.drawn = p.drawn /\ k.paidThrough = p.paidThrough /\ IsPosition(k)
  BY <1>2, CheckpointKept
<1>4. /\ amount <= p.principal /\ p.drawn <= p.principal - amount /\ vault >= amount
      /\ p.principal \in Nat /\ p.drawn \in Nat
  BY <1>1, <1>2 DEF Withdraw, MoneyOK
<1>5. PICK m : m = [k EXCEPT !.principal = k.principal - amount]
  OBVIOUS
<1>6. PICK q : q = IF m.principal = 0 THEN [m EXCEPT !.lockEnd = 0, !.requestedAt = 0, !.eligibleAt = 0] ELSE m
  OBVIOUS
<1>7. /\ IsPosition(q) /\ q.principal = k.principal - amount /\ q.drawn = k.drawn
      /\ q.owed = k.owed /\ q.payable = k.payable /\ q.remainder = k.remainder
      /\ q.through = k.through /\ q.paidThrough = k.paidThrough
  BY <1>3, <1>5, <1>6, PositionFields DEF IsPosition
<1>8. Kept(e, now, q, c, d)
  <2>1. q.principal \in Nat /\ q.drawn \in Nat /\ q.drawn <= q.principal
    BY <1>3, <1>4, <1>7
  <2> QED
    BY <1>2, <1>3, <1>7, <2>1, Rebooked
<1>9. Book(o, q)
  <2>1. k = CheckpointCoupon(pos[o], now)
    BY <1>1, <1>3, AsInstructions
  <2> QED
    BY <1>5, <1>6, <2>1 DEF Withdraw
<1>10. now' = now /\ pool' = pool /\ vault' = vault - amount /\ UNCHANGED <<credit, due>>
  BY DEF Withdraw
<1>11. credit' = [credit EXCEPT ![o] = c] /\ due' = [due EXCEPT ![o] = d]
  BY <1>1, <1>10, HistoriesRest
<1>12. /\ vault' \in Nat
       /\ vault' - vault >= (q.principal - pos[o].principal) - (q.drawn - pos[o].drawn)
  <2>1. vault \in Nat
    BY DEF VaultInv, AccountsBacked
  <2> QED
    BY <1>1, <1>3, <1>4, <1>7, <1>10, <2>1
<1> QED
  BY <1>1, <1>8, <1>9, <1>10, <1>11, <1>12, BookKeeps

LEMMA LossKeeps ==
  ASSUME VaultOK, VaultInv, NEW o \in Owners, NEW amount \in Nat, RecordLoss(o, amount)
  PROVE  VaultInv'
<1>1. PICK e, p, c, d : e = config.epochs /\ p = pos[o] /\ c = credit[o] /\ d = due[o]
  OBVIOUS
<1>2. Kept(e, now, p, c, d) /\ MoneyOK(p) /\ EpochRecords(e) /\ now \in Nat \ {0}
  BY <1>1, PositionKept
<1>3. PICK k : /\ k = CheckpointAt(e, p, now)
               /\ Kept(e, now, k, c, d) /\ k.through = now /\ k.principal = p.principal
               /\ k.drawn = p.drawn /\ k.paidThrough = p.paidThrough /\ IsPosition(k)
  BY <1>2, CheckpointKept
<1>4. /\ amount <= p.principal /\ amount <= p.drawn /\ p.drawn <= p.principal
      /\ p.principal \in Nat /\ p.drawn \in Nat
  BY <1>1, <1>2 DEF RecordLoss, MoneyOK
<1>5. PICK q : q = [k EXCEPT !.principal = k.principal - amount, !.drawn = k.drawn - amount]
  OBVIOUS
<1>6. /\ IsPosition(q) /\ q.principal = k.principal - amount /\ q.drawn = k.drawn - amount
      /\ q.owed = k.owed /\ q.payable = k.payable /\ q.remainder = k.remainder
      /\ q.through = k.through /\ q.paidThrough = k.paidThrough
  BY <1>3, <1>5, PositionFields DEF IsPosition
<1>7. Kept(e, now, q, c, d)
  <2>1. q.principal \in Nat /\ q.drawn \in Nat /\ q.drawn <= q.principal
    BY <1>3, <1>4, <1>6
  <2> QED
    BY <1>2, <1>3, <1>6, <2>1, Rebooked
<1>8. Book(o, q)
  <2>1. k = CheckpointCoupon(pos[o], now)
    BY <1>1, <1>3, AsInstructions
  <2> QED
    BY <1>5, <2>1 DEF RecordLoss
<1>9. now' = now /\ pool' = pool /\ vault' = vault /\ UNCHANGED <<credit, due>>
  BY DEF RecordLoss
<1>10. credit' = [credit EXCEPT ![o] = c] /\ due' = [due EXCEPT ![o] = d]
  BY <1>1, <1>9, HistoriesRest
<1>11. /\ vault' \in Nat
       /\ vault' - vault >= (q.principal - pos[o].principal) - (q.drawn - pos[o].drawn)
  <2>1. vault \in Nat
    BY DEF VaultInv, AccountsBacked
  <2> QED
    BY <1>1, <1>3, <1>4, <1>6, <1>9, <2>1
<1> QED
  BY <1>1, <1>7, <1>8, <1>9, <1>10, <1>11, BookKeeps

\* principal drawn to the treasury and returned by it
LEMMA DrawnKeeps ==
  ASSUME VaultOK, VaultInv, NEW o \in Owners, NEW q, NEW drawn \in Nat,
         q = [pos[o] EXCEPT !.drawn = drawn], drawn <= pos[o].principal, Book(o, q),
         UNCHANGED <<now, pool, credit, due>>, vault' \in Nat, vault' - vault = pos[o].drawn - drawn
  PROVE  VaultInv'
<1>1. PICK e, p, c, d : e = config.epochs /\ p = pos[o] /\ c = credit[o] /\ d = due[o]
  OBVIOUS
<1>2. Kept(e, now, p, c, d) /\ MoneyOK(p) /\ EpochRecords(e) /\ now \in Nat \ {0}
  BY <1>1, PositionKept
<1>3. /\ IsPosition(q) /\ q.principal = p.principal /\ q.drawn = drawn
      /\ q.owed = p.owed /\ q.payable = p.payable /\ q.remainder = p.remainder
      /\ q.through = p.through /\ q.paidThrough = p.paidThrough
  BY <1>1, <1>2, PositionFields DEF IsPosition, MoneyOK
<1>4. p.principal \in Nat /\ p.drawn \in Nat
  BY <1>2 DEF MoneyOK
<1>5. Kept(e, now, q, c, d)
  <2>1. q.principal \in Nat /\ q.drawn \in Nat /\ q.drawn <= q.principal
    BY <1>1, <1>3, <1>4
  <2>2. q.through = p.through /\ q.paidThrough = p.paidThrough
    BY <1>3
  <2>3. q.owed = p.owed /\ q.payable = p.payable /\ q.remainder = p.remainder
    BY <1>3
  <2>4. IsPosition(q) /\ (q.principal = p.principal \/ p.through = now)
    BY <1>3
  <2> QED
    BY <1>2, <2>1, <2>2, <2>3, <2>4, Rebooked
<1>6. credit' = [credit EXCEPT ![o] = c] /\ due' = [due EXCEPT ![o] = d]
  BY <1>1, HistoriesRest
<1>7. vault' - vault >= (q.principal - pos[o].principal) - (q.drawn - pos[o].drawn)
  <2>1. vault \in Nat
    BY DEF VaultInv, AccountsBacked
  <2> QED
    BY <1>1, <1>3, <1>4, <2>1
<1>8. now' = now /\ pool' = pool
  OBVIOUS
<1> QED
  BY <1>1, <1>5, <1>6, <1>7, <1>8, BookKeeps

LEMMA DrawKeeps ==
  ASSUME VaultOK, VaultInv, NEW o \in Owners, NEW amount \in Nat, DrawToTreasury(o, amount)
  PROVE  VaultInv'
<1>1. pos[o].principal \in Nat /\ pos[o].drawn \in Nat /\ vault \in Nat
  BY PositionKept DEF MoneyOK, VaultInv, AccountsBacked
<1>2. PICK n \in Nat : n = pos[o].drawn + amount
  BY <1>1
<1>3. /\ n <= pos[o].principal /\ vault >= amount /\ vault' = vault - amount
      /\ Book(o, [pos[o] EXCEPT !.drawn = n]) /\ UNCHANGED <<now, pool, credit, due>>
  BY <1>2 DEF DrawToTreasury
<1>4. vault' \in Nat /\ vault' - vault = pos[o].drawn - n
  BY <1>1, <1>2, <1>3
<1> QED
  BY <1>3, <1>4, DrawnKeeps

LEMMA ReturnKeeps ==
  ASSUME VaultOK, VaultInv, NEW o \in Owners, NEW amount \in Nat, ReturnPrincipal(o, amount)
  PROVE  VaultInv'
<1>1. pos[o].principal \in Nat /\ pos[o].drawn \in Nat /\ pos[o].drawn <= pos[o].principal /\ vault \in Nat
  BY PositionKept DEF MoneyOK, VaultInv, AccountsBacked
<1>2. amount <= pos[o].drawn
  BY DEF ReturnPrincipal
<1>3. PICK n \in Nat : n = pos[o].drawn - amount
  BY <1>1, <1>2
<1>4. /\ vault' = vault + amount
      /\ Book(o, [pos[o] EXCEPT !.drawn = n]) /\ UNCHANGED <<now, pool, credit, due>>
  BY <1>3 DEF ReturnPrincipal
<1>5. n <= pos[o].principal /\ vault' \in Nat /\ vault' - vault = pos[o].drawn - n
  BY <1>1, <1>2, <1>3, <1>4
<1> QED
  BY <1>4, <1>5, DrawnKeeps

\* the crank pays what was earned by the boundary, at most what the coupon account holds
LEMMA PayKeeps ==
  ASSUME VaultOK, VaultInv, NEW o \in Owners, PayCoupon(o)
  PROVE  VaultInv'
<1>1. PICK e, p, c, d : e = config.epochs /\ p = pos[o] /\ c = credit[o] /\ d = due[o]
  OBVIOUS
<1>2. Kept(e, now, p, c, d) /\ MoneyOK(p) /\ EpochRecords(e) /\ now \in Nat \ {0}
  BY <1>1, PositionKept
<1>3. PICK m : m = MaturedAt(e, p, now) /\ m = Matured(pos[o])
  BY <1>1, AsInstructions
<1>4. PICK q : q = PaidOut(m, MonthStart(now))
  OBVIOUS
<1>5. PICK paid : paid = m.payable
  OBVIOUS
<1>6. /\ paid > 0 /\ pool >= paid /\ pool' = pool - paid /\ now' = now /\ vault' = vault
      /\ pos' = [pos EXCEPT ![o] = q]
      /\ config' = [config EXCEPT !.owed = @ + m.owed - p.owed - paid, !.paid = @ + paid,
                                  !.funded = @ + Later(paid - Accounted, 0)]
      /\ credit' = [credit EXCEPT ![o] = @ - Slice * paid]
      /\ due' = [due EXCEPT ![o] = @ - Slice * paid]
  BY <1>1, <1>3, <1>4, <1>5 DEF PayCoupon, PaidOut
<1>7. /\ Kept(e, now, q, c - Slice * paid, d - Slice * paid)
      /\ paid \in Nat /\ m.owed \in Nat /\ q.owed = m.owed - paid
      /\ q.principal = p.principal /\ q.drawn = p.drawn
  <2>1. m.payable > 0
    BY <1>5, <1>6
  <2>2. /\ Kept(e, now, q, c - Slice * m.payable, d - Slice * m.payable)
        /\ m.payable \in Nat /\ m.owed \in Nat /\ q.owed = m.owed - m.payable
        /\ q.principal = p.principal /\ q.drawn = p.drawn
    <3>1. Pays(e, now, p, m, q)
      BY <1>3, <1>4, <2>1 DEF Pays
    <3> QED
      BY <1>2, <3>1, KeptPaid
  <2> QED
    BY <1>5, <2>2
<1>8. IsConfig(config) /\ credit = [x \in Owners |-> credit[x]] /\ due = [x \in Owners |-> due[x]]
  BY DEF VaultInv, TotalsKept, PositionsKept
<1>9. credit' = [credit EXCEPT ![o] = c - Slice * paid] /\ due' = [due EXCEPT ![o] = d - Slice * paid]
  BY <1>1, <1>6, <1>8
<1>10. /\ IsConfig(config') /\ config'.epochs = config.epochs
       /\ config'.total = config.total /\ config'.drawn = config.drawn
       /\ config'.owed = config.owed + m.owed - p.owed - paid
       /\ config'.paid = config.paid + paid
       /\ config'.funded = config.funded + Later(paid - Accounted, 0)
  BY <1>6, <1>8 DEF IsConfig, ConfigFields
<1>11. /\ config.total \in Nat /\ config.drawn \in Nat /\ config.owed \in Nat
       /\ p.principal \in Nat /\ p.drawn \in Nat /\ p.owed \in Nat
  BY <1>2, TotalsNat DEF MoneyOK
<1>12. /\ config'.total = config.total + q.principal - pos[o].principal
       /\ config'.drawn = config.drawn + q.drawn - pos[o].drawn
       /\ config'.owed = config.owed + q.owed - pos[o].owed
  BY <1>1, <1>7, <1>10, <1>11
<1>13. PositionsKept' /\ TotalsKept'
  <2>1. PICK C, D : /\ Kept(config.epochs, now, q, C, D)
                    /\ credit' = [credit EXCEPT ![o] = C] /\ due' = [due EXCEPT ![o] = D]
    BY <1>1, <1>7, <1>9
  <2>2. /\ pos' = [pos EXCEPT ![o] = q] /\ now' = now
        /\ IsConfig(config') /\ config'.epochs = config.epochs
    BY <1>6, <1>10
  <2> QED
    BY <1>12, <2>1, <2>2, PositionMoves
<1>14. AccountsBacked'
  <2>1. PICK f \in Nat, g \in Nat : f = config.funded /\ g = config.paid /\ f - g >= 0 /\ pool >= f - g
    BY DEF VaultInv, AccountsBacked, Accounted
  <2>2. vault \in Nat /\ pool \in Nat /\ vault >= config.total - config.drawn
    BY DEF VaultInv, AccountsBacked
  <2>3. PICK s \in Nat : s = Later(paid - Accounted, 0) /\ s >= paid - (f - g) /\ (s = 0 \/ s = paid - (f - g))
    BY <1>7, <2>1 DEF Later, Accounted
  <2>4. config'.funded = f + s /\ config'.paid = g + paid
    BY <1>10, <2>1, <2>3
  <2>5. /\ pool' \in Nat /\ config'.funded \in Nat /\ config'.paid \in Nat
        /\ config'.funded - config'.paid >= 0 /\ pool' >= config'.funded - config'.paid
    BY <1>6, <1>7, <2>1, <2>2, <2>3, <2>4
  <2> QED
    BY <1>6, <1>10, <2>2, <2>5 DEF AccountsBacked, Accounted
<1> QED
  BY <1>6, <1>10, <1>13, <1>14, InvAgain

\* a step of the accounts or of the configuration that moves no position
LEMMA RestKeeps ==
  ASSUME VaultInv, UNCHANGED <<now, pos, credit, due>>, IsConfig(config'), config'.epochs = config.epochs,
         config'.total = config.total, config'.drawn = config.drawn, config'.owed = config.owed,
         vault' \in Nat, pool' \in Nat, config'.funded \in Nat, config'.paid \in Nat,
         vault' >= config.total - config.drawn,
         config'.funded >= config'.paid, pool' >= config'.funded - config'.paid
  PROVE  VaultInv'
<1>1. PositionsKept' /\ TotalsKept'
  BY PositionsRest
<1>2. AccountsBacked'
  BY DEF AccountsBacked, Accounted
<1> QED
  BY <1>1, <1>2, InvAgain

\* what the steps above start from
LEMMA AccountsNow ==
  ASSUME VaultOK, VaultInv
  PROVE  /\ IsConfig(config) /\ vault \in Nat /\ pool \in Nat /\ config.funded \in Nat /\ config.paid \in Nat
         /\ config.total \in Nat /\ config.drawn \in Nat /\ config.drawn <= config.total
         /\ vault >= config.total - config.drawn
         /\ config.funded >= config.paid /\ pool >= config.funded - config.paid
<1>1. /\ IsConfig(config) /\ vault \in Nat /\ pool \in Nat /\ config.funded \in Nat /\ config.paid \in Nat
      /\ vault >= config.total - config.drawn /\ pool >= Accounted /\ Accounted >= 0
  BY DEF VaultInv, TotalsKept, AccountsBacked
<1>2. config.total \in Nat /\ config.drawn \in Nat /\ config.drawn <= config.total
  BY TotalsNat
<1> QED
  BY <1>1, <1>2 DEF Accounted

LEMMA FundKeeps ==
  ASSUME VaultOK, VaultInv, NEW amount \in Nat, FundCoupons(amount)
  PROVE  VaultInv'
<1>1. /\ pool' = pool + amount /\ config' = [config EXCEPT !.funded = @ + amount]
      /\ UNCHANGED <<now, pos, vault, credit, due>>
  BY DEF FundCoupons
<1>2. /\ IsConfig(config') /\ config'.epochs = config.epochs
      /\ config'.total = config.total /\ config'.drawn = config.drawn /\ config'.owed = config.owed
      /\ config'.funded = config.funded + amount /\ config'.paid = config.paid
  BY <1>1, AccountsNow DEF IsConfig, ConfigFields
<1>3. /\ pool' \in Nat /\ vault' \in Nat /\ config'.funded \in Nat /\ config'.paid \in Nat
      /\ vault' >= config.total - config.drawn
      /\ config'.funded >= config'.paid /\ pool' >= config'.funded - config'.paid
  BY <1>1, <1>2, AccountsNow
<1> QED
  BY <1>1, <1>2, <1>3, RestKeeps

LEMMA UnusedKeeps ==
  ASSUME VaultOK, VaultInv, NEW amount \in Nat, WithdrawUnused(amount)
  PROVE  VaultInv'
<1>1. /\ pool' = pool - amount /\ config' = [config EXCEPT !.funded = @ - amount] /\ amount <= Accounted
      /\ UNCHANGED <<now, pos, vault, credit, due>>
  BY DEF WithdrawUnused
<1>2. /\ IsConfig(config') /\ config'.epochs = config.epochs
      /\ config'.total = config.total /\ config'.drawn = config.drawn /\ config'.owed = config.owed
      /\ config'.funded = config.funded - amount /\ config'.paid = config.paid
  BY <1>1, AccountsNow DEF IsConfig, ConfigFields
<1>3. /\ pool' \in Nat /\ vault' \in Nat /\ config'.funded \in Nat /\ config'.paid \in Nat
      /\ vault' >= config.total - config.drawn
      /\ config'.funded >= config'.paid /\ pool' >= config'.funded - config'.paid
  BY <1>1, <1>2, AccountsNow DEF Accounted
<1> QED
  BY <1>1, <1>2, <1>3, RestKeeps

LEMMA SweepKeeps ==
  ASSUME VaultOK, VaultInv, NEW amount \in Nat,
         SweepCoupons(amount) \/ SweepPrincipalSurplus(amount) \/ Donate
  PROVE  VaultInv'
<1>1. UNCHANGED <<now, config, pos, credit, due>>
  BY DEF SweepCoupons, SweepPrincipalSurplus, Donate
<1>2. /\ pool' \in Nat /\ vault' \in Nat
      /\ vault' >= config.total - config.drawn /\ pool' >= config.funded - config.paid
  <2>1. CASE SweepCoupons(amount)
    <3>1. pool' = pool - amount /\ amount <= pool - Accounted /\ vault' = vault
      BY <2>1 DEF SweepCoupons
    <3> QED
      BY <3>1, AccountsNow DEF Accounted
  <2>2. CASE SweepPrincipalSurplus(amount)
    <3>1. pool' = pool /\ amount <= vault - (config.total - config.drawn) /\ vault' = vault - amount
      BY <2>2 DEF SweepPrincipalSurplus
    <3> QED
      BY <3>1, AccountsNow
  <2>3. CASE Donate
    <3>1. (vault' = vault + 1 /\ pool' = pool) \/ (pool' = pool + 1 /\ vault' = vault)
      BY <2>3 DEF Donate
    <3> QED
      BY <3>1, AccountsNow
  <2> QED
    BY <2>1, <2>2, <2>3
<1> QED
  BY <1>1, <1>2, AccountsNow, RestKeeps

\* terms, brakes and authorities
LEMMA AdminKeeps ==
  ASSUME VaultOK, VaultInv,
         \/ \E lock, notice \in Terms : SetTerms(lock, notice)
         \/ \E paused \in BOOLEAN : Pauses(paused)
         \/ \E appointment \in Appointments : SetAuthorities(appointment)
         \/ \E key \in Keys : ProposeAdmin(key) \/ AcceptAdmin(key)
  PROVE  VaultInv'
<1>1. UNCHANGED <<now, pos, vault, pool, credit, due>>
  BY DEF SetTerms, Pauses, SetAuthorities, ProposeAdmin, AcceptAdmin
<1>2. \/ config' = config
      \/ \E lock, notice : config' = [config EXCEPT !.lock = lock, !.notice = notice]
      \/ \E paused : config' = [config EXCEPT !.paused = paused]
  BY DEF SetTerms, Pauses, SetAuthorities, ProposeAdmin, AcceptAdmin
<1>3. /\ IsConfig(config') /\ config'.epochs = config.epochs
      /\ config'.total = config.total /\ config'.drawn = config.drawn /\ config'.owed = config.owed
      /\ config'.funded = config.funded /\ config'.paid = config.paid
  BY <1>2, AccountsNow DEF IsConfig, ConfigFields
<1> QED
  BY <1>1, <1>3, AccountsNow, RestKeeps

LEMMA RateKeeps ==
  ASSUME VaultOK, VaultInv, NEW bps \in Rates, NEW start \in now..(now + MaxAhead), SetRate(bps, start)
  PROVE  VaultInv'
<1>1. PICK e, n : e = config.epochs /\ n = WithRate(e, start, bps)
  OBVIOUS
<1>2. /\ EpochsOK(e, now) /\ now \in Nat \ {0} /\ IsConfig(config) /\ start \in Nat /\ bps \in Nat /\ start >= now
      /\ e[Len(e)].start < start
  <2>1. now \in Nat \ {0} /\ MaxAhead \in Nat /\ bps \in Nat
    BY DEF VaultOK, VaultInv
  <2>2. EpochsOK(e, now) /\ IsConfig(config)
    BY <1>1 DEF VaultInv, TotalsKept
  <2>3. start \in Nat /\ start >= now
    BY <2>1
  <2>4. e[Len(e)].start \in Nat
    <3>1. EpochRecords(e)
      BY <2>2, EpochsRecorded
    <3>2. Len(e) \in 1..Len(e)
      BY <3>1, EpochsAre
    <3> QED
      BY <3>1, <3>2, EpochsAre
  <2>5. start > e[Len(e)].start
    BY <1>1 DEF SetRate
  <2> QED
    BY <2>1, <2>2, <2>3, <2>4, <2>5
<1>3. EpochsOK(n, now) /\ \A p, c, d : Kept(e, now, p, c, d) => Kept(n, now, p, c, d)
  <2>1. now <= start
    BY <1>2
  <2> QED
    BY <1>1, <1>2, <2>1, KeptRates
<1>4. UNCHANGED <<now, pos, vault, pool, credit, due>> /\ config' = [config EXCEPT !.epochs = n]
  BY <1>1 DEF SetRate, WithRate
<1>5. /\ IsConfig(config') /\ config'.epochs = n
      /\ config'.total = config.total /\ config'.drawn = config.drawn /\ config'.owed = config.owed
      /\ config'.funded = config.funded /\ config'.paid = config.paid
  BY <1>2, <1>4 DEF IsConfig, ConfigFields
<1>6. PositionsKept'
  BY <1>1, <1>3, <1>4, <1>5 DEF VaultInv, PositionsKept
<1>7. TotalsKept'
  BY <1>4, <1>5 DEF VaultInv, TotalsKept
<1>8. AccountsBacked'
  BY <1>4, <1>5 DEF VaultInv, AccountsBacked, Accounted
<1>9. now' \in Nat \ {0} /\ EpochsOK(config'.epochs, now')
  BY <1>2, <1>3, <1>4, <1>5
<1> QED
  BY <1>6, <1>7, <1>8, <1>9 DEF VaultInv

LEMMA ElapseKeeps ==
  ASSUME VaultOK, VaultInv, Elapse
  PROVE  VaultInv'
<1>1. PICK e, bps : e = config.epochs /\ bps = RateAt(now)
  OBVIOUS
<1>2. EpochsOK(e, now) /\ now \in Nat \ {0}
  BY <1>1 DEF VaultInv
<1>3. bps = e[Max({i \in DOMAIN e : e[i].start <= now})].bps
  BY <1>1 DEF RateAt
<1>4. /\ now' = now + 1 /\ UNCHANGED <<config, pos, vault, pool>>
      /\ credit' = [o \in Owners |-> credit[o] + pos[o].principal * bps]
      /\ due' = IF MonthStart(now + 1) = now + 1 THEN credit' ELSE due
  BY <1>1 DEF Elapse
<1>5. due = [o \in Owners |-> due[o]] /\ pos = [o \in Owners |-> pos[o]]
  BY DEF VaultInv, PositionsKept
<1>6. due' = [o \in Owners |-> due'[o]] /\ credit' = [o \in Owners |-> credit'[o]]
  <2>1. CASE MonthStart(now + 1) = now + 1
    BY <1>4, <2>1
  <2>2. CASE MonthStart(now + 1) # now + 1
    BY <1>4, <1>5, <2>2
  <2> QED
    BY <2>1, <2>2
<1>7. EpochsOK(e, now + 1) /\ \A o \in Owners : Kept(e, now + 1, pos[o], credit'[o], due'[o])
  <2>1. ASSUME NEW o \in Owners
        PROVE  EpochsOK(e, now + 1) /\ Kept(e, now + 1, pos[o], credit'[o], due'[o])
    <3>1. PICK p, c, d : p = pos[o] /\ c = credit[o] /\ d = due[o] /\ Kept(e, now, p, c, d)
      BY <1>1, PositionKept
    <3>2. /\ EpochsOK(e, now + 1)
          /\ Kept(e, now + 1, p, c + p.principal * bps,
                  IF MonthStart(now + 1) = now + 1 THEN c + p.principal * bps ELSE d)
      BY <1>2, <1>3, <3>1, KeptElapses
    <3>3. credit'[o] = c + p.principal * bps
      BY <1>4, <3>1
    <3>4. due'[o] = IF MonthStart(now + 1) = now + 1 THEN c + p.principal * bps ELSE d
      BY <1>4, <3>1, <3>3
    <3> QED
      BY <3>1, <3>2, <3>3, <3>4
  <2>2. EpochsOK(e, now + 1)
    <3>1. 1 \in 1..Len(e) /\ EpochRecords(e)
      BY <1>2, EpochsRecorded, EpochsAre
    <3>2. e[1].start \in Nat
      BY <3>1, EpochsAre
    <3> QED
      BY <1>2, <3>2 DEF EpochsOK
  <2> QED
    BY <2>1, <2>2
<1>8. PositionsKept'
  BY <1>1, <1>4, <1>5, <1>6, <1>7 DEF PositionsKept
<1>9. TotalsKept'
  BY <1>4 DEF VaultInv, TotalsKept
<1>10. AccountsBacked'
  BY <1>4 DEF VaultInv, AccountsBacked, Accounted
<1>11. now' \in Nat \ {0} /\ EpochsOK(config'.epochs, now')
  BY <1>1, <1>2, <1>4, <1>7
<1> QED
  BY <1>8, <1>9, <1>10, <1>11 DEF VaultInv

LEMMA NextKeeps ==
  ASSUME VaultOK, VaultInv, VaultNext
  PROVE  VaultInv'
<1>1. MaxPrincipal \in Nat /\ MaxPool \in Nat
  BY DEF VaultOK
<1>2. CASE Elapse \/ Donate
  BY <1>2, ElapseKeeps, SweepKeeps
<1>3. CASE \E bps \in Rates, start \in now..(now + MaxAhead) : SetRate(bps, start)
  BY <1>3, RateKeeps
<1>4. CASE \/ EmergencyPause
           \/ \E lock, notice \in Terms : SetTerms(lock, notice)
           \/ \E paused \in BOOLEAN : SetPaused(paused)
           \/ \E appointment \in Appointments : SetAuthorities(appointment)
           \/ \E key \in Keys : ProposeAdmin(key) \/ AcceptAdmin(key)
  <2>1. \/ \E lock, notice \in Terms : SetTerms(lock, notice)
        \/ \E paused \in BOOLEAN : Pauses(paused)
        \/ \E appointment \in Appointments : SetAuthorities(appointment)
        \/ \E key \in Keys : ProposeAdmin(key) \/ AcceptAdmin(key)
    BY <1>4 DEF EmergencyPause, SetPaused
  <2> QED
    BY <2>1, AdminKeeps
<1>5. CASE \E amount \in 1..MaxPool : FundCoupons(amount) \/ SweepCoupons(amount) \/ WithdrawUnused(amount)
  <2>1. PICK amount \in Nat : FundCoupons(amount) \/ SweepCoupons(amount) \/ WithdrawUnused(amount)
    BY <1>1, <1>5
  <2> QED
    BY <2>1, FundKeeps, SweepKeeps, UnusedKeeps
<1>6. CASE \E amount \in 1..(MaxPrincipal + 1) : SweepPrincipalSurplus(amount)
  <2>1. PICK amount \in Nat : SweepPrincipalSurplus(amount)
    BY <1>1, <1>6
  <2> QED
    BY <2>1, SweepKeeps
<1>7. ASSUME NEW o \in Owners,
             \/ RevokeAllowlist(o) \/ EmergencyHalt(o) \/ RequestWithdrawal(o) \/ CancelWithdrawal(o)
             \/ ClosePosition(o) \/ PayCoupon(o)
             \/ \E agreement \in Agreements : Allowlist(o, agreement)
             \/ \E halted \in BOOLEAN : SetPayoutHalt(o, halted)
      PROVE  VaultInv'
  <2>1. CASE RevokeAllowlist(o) \/ RequestWithdrawal(o) \/ CancelWithdrawal(o) \/ ClosePosition(o) \/ PayCoupon(o)
    BY <2>1, RevokeKeeps, RequestKeeps, CancelKeeps, CloseKeeps, PayKeeps
  <2>2. CASE \E agreement \in Agreements : Allowlist(o, agreement)
    BY <2>2, AllowlistKeeps
  <2>3. CASE EmergencyHalt(o) \/ \E halted \in BOOLEAN : SetPayoutHalt(o, halted)
    <3>1. PICK halted : Halts(o, halted)
      BY <2>3 DEF EmergencyHalt, SetPayoutHalt
    <3> QED
      BY <3>1, HaltKeeps
  <2> QED
    BY <1>7, <2>1, <2>2, <2>3
<1>8. ASSUME NEW o \in Owners, NEW amount \in 1..MaxPrincipal,
             \/ Deposit(o, amount) \/ Withdraw(o, amount) \/ DrawToTreasury(o, amount)
             \/ ReturnPrincipal(o, amount) \/ RecordLoss(o, amount)
      PROVE  VaultInv'
  <2>1. amount \in Nat
    BY <1>1
  <2> QED
    BY <1>8, <2>1, DepositKeeps, WithdrawKeeps, DrawKeeps, ReturnKeeps, LossKeeps
<1> QED
  BY <1>2, <1>3, <1>4, <1>5, <1>6, <1>7, <1>8 DEF VaultNext

LEMMA RestsKeeps ==
  ASSUME VaultInv, UNCHANGED vaultVars
  PROVE  VaultInv'
BY DEF vaultVars, VaultInv, PositionsKept, TotalsKept, AccountsBacked, Accounted

\* the program starts with one rate and no position
LEMMA InitKept ==
  ASSUME VaultOK, VaultInit
  PROVE  VaultInv
<1>1. Month \in Nat \ {0} /\ Rates \subseteq Nat
  BY DEF VaultOK
<1>2. now \in Nat \ {0}
  BY <1>1 DEF VaultInit
<1>3. PICK r \in Rates :
        /\ IsConfig(config) /\ config.epochs = <<[start |-> now, bps |-> r]>>
        /\ config.total = 0 /\ config.drawn = 0 /\ config.owed = 0 /\ config.funded = 0 /\ config.paid = 0
  BY DEF VaultInit, IsConfig, ConfigFields
<1>4. EpochsOK(config.epochs, now)
  BY <1>1, <1>2, <1>3 DEF EpochsOK
<1>5. /\ pos = [o \in Owners |-> NoPosition] /\ credit = [o \in Owners |-> 0] /\ due = [o \in Owners |-> 0]
      /\ vault = 0 /\ pool = 0
  BY DEF VaultInit
<1>6. Kept(config.epochs, now, NoPosition, 0, 0)
  BY <1>2, <1>4, EpochsRecorded, KeptEmpty
<1>7. PositionsKept
  BY <1>5, <1>6 DEF PositionsKept
<1>8. NoPosition.principal = 0 /\ NoPosition.drawn = 0 /\ NoPosition.owed = 0
  BY DEF NoPosition
<1>9. ASSUME NEW f, \A o \in Owners : f[o] = 0 PROVE Sum(f) = 0
  <2> DEFINE n == Cardinality(Owners)
             a == [i \in 1..n |-> f[Listed[i]]]
  <2>1. n \in Nat /\ \A i \in 1..n : a[i] = 0
    BY <1>9, OwnersListed
  <2>2. Sum(f) = SumTo(a, n)
    BY DEF Sum
  <2> HIDE DEF n, a
  <2>3. SumTo(a, n) = 0 * n
    BY <2>1, SumToConst
  <2> QED
    BY <2>1, <2>2, <2>3
<1>10. /\ Sum([o \in Owners |-> pos[o].principal]) = 0
       /\ Sum([o \in Owners |-> pos[o].drawn]) = 0
       /\ Sum([o \in Owners |-> pos[o].owed]) = 0
  <2>1. \A o \in Owners : pos[o].principal = 0 /\ pos[o].drawn = 0 /\ pos[o].owed = 0
    BY <1>5, <1>8
  <2> DEFINE f == [o \in Owners |-> pos[o].principal]
             g == [o \in Owners |-> pos[o].drawn]
             h == [o \in Owners |-> pos[o].owed]
  <2>2. \A o \in Owners : f[o] = 0 /\ g[o] = 0 /\ h[o] = 0
    BY <2>1
  <2> HIDE DEF f, g, h
  <2>3. Sum(f) = 0 /\ Sum(g) = 0 /\ Sum(h) = 0
    BY <1>9, <2>2
  <2> QED
    BY <2>3 DEF f, g, h
<1>11. TotalsKept
  BY <1>3, <1>10 DEF TotalsKept
<1>12. AccountsBacked
  BY <1>3, <1>5 DEF AccountsBacked, Accounted
<1> QED
  BY <1>2, <1>4, <1>7, <1>11, <1>12 DEF VaultInv

----------------------------------------------------------------------------
(* What the invariant says *)

LEMMA InvBacked ==
  ASSUME VaultInv
  PROVE  VaultBacked
<1>1. \A o \in Owners : pos[o].drawn <= pos[o].principal /\ pos[o].payable <= pos[o].owed
  BY PositionKept DEF MoneyOK
<1> QED
  BY <1>1 DEF VaultInv, TotalsKept, AccountsBacked, VaultBacked

LEMMA InvConserves ==
  ASSUME VaultOK, VaultInv
  PROVE  CouponConserved
<1> SUFFICES ASSUME NEW o \in Owners
             PROVE  /\ Slice * pos[o].owed + pos[o].remainder
                         + Accrued(pos[o].principal, config.epochs, pos[o].through, now) = credit[o]
                    /\ MonthStart(now) > pos[o].paidThrough => Matured(pos[o]).payable = due[o] \div Slice
  BY DEF CouponConserved
<1>1. /\ Kept(config.epochs, now, pos[o], credit[o], due[o])
      /\ EpochRecords(config.epochs) /\ now \in Nat \ {0}
  BY PositionKept
<1>2. Worth(config.epochs, pos[o], now) = credit[o]
  BY <1>1 DEF Kept
<1>3. MaturedAt(config.epochs, pos[o], now).payable = due[o] \div Slice
  BY <1>1, MaturedIs
<1>4. Matured(pos[o]).payable = due[o] \div Slice
  BY <1>3, AsInstructions
<1> QED
  BY <1>2, <1>4 DEF Worth

\* worth in whole units
LEMMA WorthUnits ==
  ASSUME VaultOK, NEW e, EpochRecords(e), NEW p, MoneyOK(p), NEW t \in Nat
  PROVE  /\ p.owed + (p.remainder + Accrued(p.principal, e, p.through, t)) \div Slice = Worth(e, p, t) \div Slice
         /\ (p.remainder + Accrued(p.principal, e, p.through, t)) \div Slice \in Nat
<1>1. PICK P \in Nat, from \in Nat, o \in Nat, m \in Nat :
        P = p.principal /\ from = p.through /\ o = p.owed /\ m = p.remainder
  BY DEF MoneyOK
<1>2. PICK x \in Nat : x = m + Accrued(P, e, from, t)
  BY AccruedNat
<1>3. Slice \in Nat \ {0} /\ Slice * o \in Nat
  BY Divisors
<1>4. PICK y \in Nat, r \in Nat : y = x \div Slice /\ r < Slice /\ Slice * (o + y) + r = Slice * o + x
  <2>1. x \div Slice \in Nat
    BY <1>3, DivIs
  <2> QED
    BY <2>1, PartsSettled
<1>5. PICK w \in Nat : w = Slice * o + x /\ w = Worth(e, p, t)
  <2>1. Accrued(P, e, from, t) \in Nat
    BY AccruedNat
  <2>2. Worth(e, p, t) = Slice * o + m + Accrued(P, e, from, t)
    BY <1>1 DEF Worth
  <2> QED
    BY <1>2, <1>3, <2>1, <2>2
<1>6. w \div Slice = o + y
  <2>1. w = Slice * (o + y) + r /\ o + y \in Nat
    BY <1>4, <1>5
  <2> QED
    BY <1>3, <1>4, <2>1, DivUnique
<1> QED
  BY <1>1, <1>2, <1>4, <1>5, <1>6

LEMMA InvClaims ==
  ASSUME VaultOK, VaultInv
  PROVE  ClaimableIsPaid
<1> SUFFICES ASSUME NEW o \in Owners
             PROVE  LET view == CouponView(pos[o])
                        paid == IF MonthStart(now) > pos[o].paidThrough THEN Matured(pos[o]).payable ELSE 0
                    IN  /\ view.claimable = paid
                        /\ view.claimable + view.pending = EarnedUnpaid(pos[o])
                        /\ EarnedUnpaid(pos[o]) = credit[o] \div Slice
  BY DEF ClaimableIsPaid
<1>1. PICK e, p, c, d : e = config.epochs /\ p = pos[o] /\ c = credit[o] /\ d = due[o]
  OBVIOUS
<1>2. Kept(e, now, p, c, d) /\ MoneyOK(p) /\ EpochRecords(e) /\ now \in Nat \ {0} /\ Worth(e, p, now) = c
  BY <1>1, PositionKept DEF Kept
<1>3. PICK B \in Nat : B = MonthStart(now)
  BY <1>2, MonthIs
<1>4. EarnedUnpaid(p) = c \div Slice
  BY <1>1, <1>2, WorthUnits DEF EarnedUnpaid
<1>5. PICK m : m = MaturedAt(e, p, now) /\ m = Matured(p)
  BY <1>1, AsInstructions
<1>6. MoneyOK(m) /\ m.principal = p.principal /\ Worth(e, m, now) = c
  <2>1. MoneyOK(MaturedAt(e, p, now))
    BY <1>2, MaturedIs
  <2>2. MaturedAt(e, p, now).principal = p.principal
    BY <1>2, MaturedIs
  <2>3. Worth(e, MaturedAt(e, p, now), now) = c
    BY <1>2, MaturedIs
  <2> QED
    BY <1>5, <2>1, <2>2, <2>3
<1>7. CASE B > p.paidThrough
  <2>1. m = IF B > p.paidThrough /\ p.through # 0 THEN MatureCoupon(p, B) ELSE p
    BY <1>3, <1>5, <1>7 DEF Matured
  <2>2. PICK x : x = (m.remainder + Accrued(p.principal, e, m.through, now)) \div Slice
    OBVIOUS
  <2>3. CouponView(p).claimable = m.payable /\ CouponView(p).pending = m.owed - m.payable + x
    BY <1>1, <1>3, <1>7, <2>1, <2>2 DEF CouponView
  <2>4. m.owed + x = c \div Slice /\ x \in Nat
    BY <1>2, <1>6, <2>2, WorthUnits
  <2>5. m.owed \in Nat /\ m.payable \in Nat
    BY <1>6 DEF MoneyOK
  <2>6. CouponView(p).claimable + CouponView(p).pending = EarnedUnpaid(p)
    BY <1>4, <2>3, <2>4, <2>5
  <2>7. CouponView(p).claimable = IF MonthStart(now) > p.paidThrough THEN Matured(p).payable ELSE 0
    BY <1>3, <1>5, <1>7, <2>3
  <2> QED
    BY <1>1, <1>4, <2>6, <2>7
<1>8. CASE ~(B > p.paidThrough)
  <2>1. p.payable = 0
    <3>1. p.paidThrough <= B /\ p.paidThrough \in Nat /\ (p.paidThrough = B => p.payable = 0)
      BY <1>2, <1>3 DEF Kept, MoneyOK
    <3> QED
      BY <1>8, <3>1
  <2>2. PICK x : x = (p.remainder + Accrued(p.principal, e, p.through, now)) \div Slice
    OBVIOUS
  <2>3. CouponView(p).claimable = 0 /\ CouponView(p).pending = p.owed - p.payable + x
    BY <1>1, <1>3, <1>8, <2>2 DEF CouponView
  <2>4. p.owed + x = c \div Slice /\ x \in Nat
    BY <1>2, <2>2, WorthUnits
  <2>5. p.owed \in Nat
    BY <1>2 DEF MoneyOK
  <2>6. CouponView(p).claimable + CouponView(p).pending = EarnedUnpaid(p)
    BY <1>4, <2>1, <2>3, <2>4, <2>5
  <2>7. CouponView(p).claimable = IF MonthStart(now) > p.paidThrough THEN Matured(p).payable ELSE 0
    BY <1>3, <1>8, <2>3
  <2> QED
    BY <1>1, <1>4, <2>6, <2>7
<1> QED
  BY <1>7, <1>8

\* The accounts of the program hold what its positions are due and its totals are theirs,
\* coupon is neither lost nor made however positions are settled, and the page shows what the
\* crank would pay (the instructions of solana/curator-vault against curatorVaultMath.ts).
THEOREM MoneyExact ==
  ASSUME VaultOK
  PROVE  VaultSpec => [](VaultBacked /\ CouponConserved /\ ClaimableIsPaid)
<1>1. VaultInit => VaultInv
  BY InitKept
<1>2. VaultInv /\ [VaultNext]_vaultVars => VaultInv'
  BY NextKeeps, RestsKeeps
<1>3. VaultInv => VaultBacked /\ CouponConserved /\ ClaimableIsPaid
  BY InvBacked, InvConserves, InvClaims
<1> QED
  BY <1>1, <1>2, <1>3, PTL DEF VaultSpec
=============================================================================
