--------------------------- MODULE PoolSwap_proofs ---------------------------
(***************************************************************************)
(* Proofs about PoolSwap, for amounts, fees and books of any size: the     *)
(* floor divisions of the vault shares and of the curve first, then what a *)
(* swap and an event of a vault do to the pool and to the vault's other    *)
(* depositors, then the quotes.                                            *)
(***************************************************************************)
EXTENDS PoolSwap, TLAPS

(***************************************************************************)
(* Division.                                                               *)
(***************************************************************************)

\* A quotient is the largest number whose product with the divisor does not exceed the
\* dividend: the floor division of BN div and of Rust's checked_div on amounts.
LEMMA DivBounds ==
    ASSUME NEW a \in Int, NEW b \in Nat \ {0}
    PROVE  /\ a \div b \in Int
           /\ b * (a \div b) <= a
           /\ a < b * (a \div b) + b
BY Z3

\* The remainder is what the quotient leaves.
LEMMA Remainder ==
    ASSUME NEW a \in Nat, NEW b \in Nat \ {0}
    PROVE  a = b * (a \div b) + (a % b) /\ a % b \in Nat
<1>1. a % b \in 0 .. b - 1
  BY Z3
<1>2. a = b * (a \div b) + (a % b)
  BY SMT
<1> QED
  BY <1>1, <1>2

\* The quotient of amounts is an amount.
LEMMA DivNat ==
    ASSUME NEW a \in Nat, NEW b \in Nat \ {0}
    PROVE  a \div b \in Nat
BY Z3

\* The product of amounts is an amount.
LEMMA ProductNat ==
    ASSUME NEW a \in Nat, NEW b \in Nat
    PROVE  a * b \in Nat
BY Z3

\* A product grows with its factors.
LEMMA ProductMono ==
    ASSUME NEW a \in Int, NEW b \in Int, NEW c \in Nat, a <= b
    PROVE  a * c <= b * c /\ c * a <= c * b
<1>1. b * c = a * c + (b - a) * c /\ b - a \in Nat
  BY Z3
<1>2. (b - a) * c \in Nat
  BY <1>1, ProductNat
<1>3. a * c \in Int /\ b * c \in Int /\ c * a = a * c /\ c * b = b * c
  BY Z3
<1> QED
  BY <1>1, <1>2, <1>3, Z3

\* A positive factor cancels.
LEMMA Cancel ==
    ASSUME NEW a \in Int, NEW b \in Int, NEW c \in Nat \ {0}
    PROVE  (c * a <= c * b => a <= b) /\ (c * a < c * b => a < b)
<1>1. ASSUME b < a PROVE c * b < c * a
  <2>1. a = b + (a - b) /\ a - b \in Nat \ {0}
    BY <1>1, Z3
  <2>2. c * (a - b) \in Nat /\ c * (a - b) > 0
    BY <2>1, Z3
  <2>3. c * a = c * b + c * (a - b) /\ c * b \in Int
    BY Z3
  <2> QED
    BY <2>2, <2>3, Z3
<1>2. c * a \in Int /\ c * b \in Int
  BY Z3
<1>3. a = b => c * a = c * b
  OBVIOUS
<1> QED
  BY <1>1, <1>2, <1>3, Z3

\* Whatever fits into the dividend is at most the quotient.
LEMMA DivAtLeast ==
    ASSUME NEW a \in Int, NEW b \in Nat \ {0}, NEW q \in Int, b * q <= a
    PROVE  q <= a \div b
<1> DEFINE d == a \div b
<1>1. d \in Int /\ a < b * d + b
  BY DivBounds
<1> HIDE DEF d
<1>2. b * (d + 1) = b * d + b /\ b * d \in Int /\ b * q \in Int
  BY <1>1, Z3
<1>3. b * q < b * (d + 1)
  BY <1>1, <1>2, Z3
<1>4. q < d + 1
  BY <1>1, <1>3, Cancel
<1> QED
  BY <1>1, <1>4, Z3 DEF d

\* What exceeds the dividend exceeds the quotient.
LEMMA DivBelow ==
    ASSUME NEW a \in Int, NEW b \in Nat \ {0}, NEW q \in Int, a < b * q
    PROVE  a \div b < q
<1> DEFINE d == a \div b
<1>1. d \in Int /\ b * d <= a
  BY DivBounds
<1> HIDE DEF d
<1>2. b * d \in Int /\ b * q \in Int
  BY <1>1, Z3
<1>3. b * d < b * q
  BY <1>1, <1>2, Z3
<1>4. d < q
  BY <1>1, <1>3, Cancel
<1> QED
  BY <1>4 DEF d

\* A quotient grows with its dividend.
LEMMA DivMono ==
    ASSUME NEW a \in Int, NEW c \in Int, NEW b \in Nat \ {0}, a <= c
    PROVE  a \div b <= c \div b
<1>1. a \div b \in Int /\ b * (a \div b) <= a
  BY DivBounds
<1>2. b * (a \div b) <= c
  BY <1>1, Z3
<1> QED
  BY <1>1, <1>2, DivAtLeast

(***************************************************************************)
(* The locked profit of a vault.                                           *)
(***************************************************************************)

\* What a vault record holds, before anything is said about its total.
VaultRecord == [total : Nat, supply : Nat, locked : Nat, report : Nat]

\* calculate_locked_profit: between nothing and all that was locked at the last report,
\* all of it at the report itself, and less and less afterwards.
LEMMA LockedProfitFalls ==
    ASSUME NEW v \in VaultRecord, NEW t \in Nat, v.report <= t
    PROVE  /\ LockedProfit(v, t) \in 0 .. v.locked
           /\ t = v.report => LockedProfit(v, t) = v.locked
           /\ LockedProfit(v, t + 1) \in 0 .. LockedProfit(v, t)
<1> DEFINE r(s) == (s - v.report) * Degradation
           left(s) == v.locked * (DegDenominator - r(s))
<1>0. /\ v.report \in Nat /\ v.locked \in Nat
      /\ Degradation \in Nat /\ DegDenominator \in Nat \ {0}
  BY DegradationAssumption DEF VaultRecord
<1>1. /\ r(t) \in Nat /\ r(t + 1) \in Nat
      /\ r(t) <= r(t + 1)
  <2>1. t - v.report \in Nat /\ t + 1 - v.report \in Nat /\ t - v.report <= t + 1 - v.report
    BY <1>0, Z3
  <2>2. r(t) \in Nat /\ r(t + 1) \in Nat
    BY <1>0, <2>1, ProductNat
  <2> QED
    BY <1>0, <2>1, <2>2, ProductMono
<1>2. ASSUME NEW s \in {t, t + 1}, r(s) <= DegDenominator
      PROVE  left(s) \in Nat /\ left(s) <= DegDenominator * v.locked
  <2>1. DegDenominator - r(s) \in Nat /\ DegDenominator - r(s) <= DegDenominator
    BY <1>0, <1>1, <1>2, Z3
  <2>2. left(s) \in Nat
    BY <1>0, <2>1, ProductNat
  <2>3. v.locked * (DegDenominator - r(s)) <= v.locked * DegDenominator
    BY <1>0, <2>1, ProductMono
  <2>4. v.locked * DegDenominator = DegDenominator * v.locked
    BY <1>0, Z3
  <2> QED
    BY <2>2, <2>3, <2>4
<1>3. ASSUME NEW s \in {t, t + 1}
      PROVE  LockedProfit(v, s) = IF r(s) > DegDenominator THEN 0 ELSE left(s) \div DegDenominator
  BY DEF LockedProfit
<1>4. ASSUME r(t + 1) <= DegDenominator PROVE left(t + 1) <= left(t)
  <2>1. /\ DegDenominator - r(t + 1) \in Nat /\ DegDenominator - r(t) \in Nat
        /\ DegDenominator - r(t + 1) <= DegDenominator - r(t)
    BY <1>0, <1>1, <1>4, Z3
  <2> QED
    BY <1>0, <2>1, ProductMono
<1>5. t = v.report => r(t) = 0 /\ left(t) = v.locked * DegDenominator
  BY <1>0, Z3
<1> HIDE DEF r, left
<1>6. ASSUME r(t) <= DegDenominator
      PROVE  left(t) \div DegDenominator \in 0 .. v.locked
  <2>1. left(t) \in Nat /\ left(t) <= DegDenominator * v.locked
    BY <1>2, <1>6
  <2>2. left(t) \div DegDenominator \in Nat
    BY <1>0, <2>1, DivNat
  <2>3. left(t) < DegDenominator * (v.locked + 1)
    <3>1. DegDenominator * (v.locked + 1) = DegDenominator * v.locked + DegDenominator
      BY <1>0, Z3
    <3>2. DegDenominator * v.locked \in Nat
      BY <1>0, ProductNat
    <3> QED
      BY <1>0, <2>1, <3>1, <3>2, Z3
  <2>4. left(t) \div DegDenominator < v.locked + 1
    BY <1>0, <2>1, <2>3, DivBelow
  <2> QED
    BY <1>0, <2>2, <2>4, Z3
<1>7. LockedProfit(v, t) \in 0 .. v.locked
  BY <1>0, <1>3, <1>6, <1>1, Z3
<1>8. t = v.report => LockedProfit(v, t) = v.locked
  <2> SUFFICES ASSUME t = v.report PROVE left(t) \div DegDenominator = v.locked
    BY <1>0, <1>3, <1>5, Z3
  <2>1. left(t) = DegDenominator * v.locked /\ left(t) \in Nat
    BY <1>0, <1>2, <1>5, Z3
  <2>2. v.locked <= left(t) \div DegDenominator
    BY <1>0, <2>1, DivAtLeast
  <2>3. left(t) \div DegDenominator <= v.locked
    BY <1>0, <1>5, <1>6, Z3
  <2> QED
    BY <1>0, <1>5, <1>6, <2>2, <2>3, Z3
<1>9. LockedProfit(v, t + 1) \in 0 .. LockedProfit(v, t)
  <2>1. CASE r(t + 1) > DegDenominator
    BY <1>3, <1>7, <2>1, <1>0
  <2>2. CASE r(t + 1) <= DegDenominator
    <3>1. r(t) <= DegDenominator
      BY <1>0, <1>1, <2>2, Z3
    <3>2. left(t) \in Nat /\ left(t + 1) \in Nat /\ left(t + 1) <= left(t)
      BY <1>2, <1>4, <2>2, <3>1
    <3>3. left(t + 1) \div DegDenominator <= left(t) \div DegDenominator
      BY <1>0, <3>2, DivMono
    <3>4. left(t + 1) \div DegDenominator \in Nat /\ left(t) \div DegDenominator \in Nat
      BY <1>0, <3>2, DivNat
    <3>5. /\ LockedProfit(v, t) = left(t) \div DegDenominator
          /\ LockedProfit(v, t + 1) = left(t + 1) \div DegDenominator
      BY <1>0, <1>1, <1>3, <2>2, <3>1, Z3
    <3> QED
      BY <3>3, <3>4, <3>5
  <2> QED
    BY <1>0, <1>1, <2>1, <2>2, Z3
<1> QED
  BY <1>7, <1>8, <1>9

(***************************************************************************)
(* The shares of a vault: U unlocked tokens, P tokens of LP supply, of     *)
(* which the pool holds p.                                                 *)
(***************************************************************************)

\* get_unmint_amount: minting the LP tokens of a deposit of a never lowers what an LP token
\* of the vault stands for.
LEMMA DepositKeepsSharePrice ==
    ASSUME NEW U \in Nat \ {0}, NEW P \in Nat, NEW a \in Nat
    PROVE  /\ UnmintAmount(a, U, P) \in Nat
           /\ (U + a) * P >= U * (P + UnmintAmount(a, U, P))
<1> DEFINE m == (a * P) \div U
<1>1. /\ m \in Nat
      /\ U * m <= a * P
  BY ProductNat, DivNat, DivBounds
<1>2. (U + a) * P = U * P + a * P
  BY Z3
<1>3. U * (P + m) = U * P + U * m
  BY <1>1, Z3
<1> HIDE DEF m
<1>4. (U + a) * P >= U * (P + m)
  BY <1>1, <1>2, <1>3, Z3
<1> QED BY <1>1, <1>4 DEF UnmintAmount, m

\* get_amount_by_share: l LP tokens are worth at most what the vault has, and paying them
\* out does not lower what the other LP tokens stand for.
LEMMA WithdrawalKeepsSharePrice ==
    ASSUME NEW U \in Nat, NEW P \in Nat \ {0}, NEW l \in 0 .. P
    PROVE  /\ AmountByShare(l, U, P) \in 0 .. U
           /\ (U - AmountByShare(l, U, P)) * P >= U * (P - l)
<1> DEFINE q == (l * U) \div P
<1>1. /\ q \in Nat
      /\ P * q <= l * U
  BY ProductNat, DivNat, DivBounds
<1>2. l * U <= P * U
  BY ProductMono
<1>3. P * q \in Nat /\ l * U \in Nat /\ P * U \in Nat
  BY <1>1, ProductNat
<1> HIDE DEF q
<1>4. q <= U
  <2>1. P * q <= P * U
    BY <1>1, <1>2, <1>3
  <2> QED
    BY <1>1, <2>1, Cancel
<1>5. (U - q) * P = U * P - P * q /\ U * (P - l) = U * P - l * U /\ U * P \in Nat
  BY <1>1, ProductNat, Z3
<1>6. (U - q) * P >= U * (P - l)
  BY <1>1, <1>3, <1>5
<1> QED BY <1>1, <1>4, <1>6 DEF AmountByShare, q

\* A pool that deposits n tokens owns at least what it did and at most n more: what the
\* division leaves is shared by all depositors, and nobody pays for it.
LEMMA DepositValue ==
    ASSUME NEW U \in Nat \ {0}, NEW P \in Nat \ {0}, NEW p \in 0 .. P, NEW n \in Nat
    PROVE  LET m == UnmintAmount(n, U, P)
               before == AmountByShare(p, U, P)
               after == AmountByShare(m + p, U + n, P + m)
           IN  /\ before \in Nat /\ after \in Nat
               /\ before <= after /\ after <= before + n
<1> DEFINE m == UnmintAmount(n, U, P)
           S == (p * U) \div P
           V == (m + p) * (U + n)
           A == V \div (P + m)
<1>1. m \in Nat /\ (U + n) * P >= U * (P + m)
  BY DepositKeepsSharePrice
<1> HIDE DEF m
<1>2. p * U \in Nat /\ S \in Nat /\ P * S <= p * U /\ p * U < P * S + P
  BY ProductNat, DivNat, DivBounds
<1>3. m + p \in Nat /\ U + n \in Nat \ {0} /\ P + m \in Nat \ {0} /\ V \in Nat /\ A \in Nat
  BY <1>1, ProductNat, DivNat
<1> HIDE DEF S
<1>4. S <= A
  <2>1. (P + m) * (P * S) <= (P + m) * (p * U)
    BY <1>2, <1>3, ProductMono, ProductNat
  <2>2. p * (U * (P + m)) <= p * ((U + n) * P)
    BY <1>1, <1>3, ProductMono, ProductNat
  <2>3. /\ (P + m) * (P * S) = P * ((P + m) * S)
        /\ (P + m) * (p * U) = p * (U * (P + m))
        /\ p * ((U + n) * P) = P * (p * (U + n))
    BY <1>1, <1>2, Z3
  <2>4. P * ((P + m) * S) \in Nat /\ p * (U * (P + m)) \in Nat /\ P * (p * (U + n)) \in Nat
        /\ (P + m) * S \in Nat /\ p * (U + n) \in Nat
    BY <1>1, <1>2, <1>3, ProductNat
  <2>5. P * ((P + m) * S) <= P * (p * (U + n))
    BY <2>1, <2>2, <2>3, <2>4
  <2>6. (P + m) * S <= p * (U + n)
    BY <2>4, <2>5, Cancel
  <2>7. V = m * (U + n) + p * (U + n) /\ m * (U + n) \in Nat
    BY <1>1, <1>3, ProductNat, Z3
  <2>8. (P + m) * S <= V
    BY <1>3, <2>4, <2>6, <2>7
  <2> HIDE DEF V
  <2> QED
    BY <1>2, <1>3, <2>8, DivAtLeast
<1>5. A < S + n + 1
  <2> DEFINE k == P - p
             d == U - S - 1
  <2>0. k \in Nat /\ d \in Int
    BY <1>2
  <2>1. P * d < k * U
    <3>1. P * d = P * U - (P * S + P) /\ k * U = P * U - p * U
      BY <1>2, Z3
    <3>2. P * U \in Nat /\ P * S \in Nat
      BY <1>2, ProductNat
    <3> QED
      BY <1>2, <3>1, <3>2
  <2>2. V = (P + m) * (U + n) - k * (U + n)
        /\ (P + m) * (S + n + 1) = (P + m) * (U + n) - (P + m) * d
    BY <1>1, <1>2, Z3
  <2>3. k * (U + n) \in Nat /\ (P + m) * (U + n) \in Nat /\ (P + m) * d \in Int /\ k * U \in Nat
    BY <1>1, <1>3, <2>0, ProductNat, Z3
  <2> HIDE DEF k, d
  <2>4. (P + m) * d < k * (U + n)
    <3>1. P * ((P + m) * d) < P * (k * (U + n))
      <4>1. P * d + 1 <= k * U /\ P * d + 1 \in Int
        BY <2>0, <2>1, <2>3, Z3
      <4>2. (P + m) * (P * d + 1) <= (P + m) * (k * U)
        BY <1>3, <2>3, <4>1, ProductMono
      <4>3. (P + m) * (P * d + 1) = P * ((P + m) * d) + (P + m)
        BY <1>1, <2>0, Z3
      <4>4. (P + m) * (k * U) = k * (U * (P + m))
        BY <1>1, <2>0, Z3
      <4>5. k * (U * (P + m)) <= k * ((U + n) * P)
        BY <1>1, <1>3, <2>0, ProductMono, ProductNat
      <4>6. k * ((U + n) * P) = P * (k * (U + n))
        BY <2>0, Z3
      <4>7. P * ((P + m) * d) \in Int /\ k * (U * (P + m)) \in Nat /\ P * (k * (U + n)) \in Nat
        BY <1>1, <1>3, <2>0, <2>3, ProductNat, Z3
      <4> QED
        BY <1>3, <4>2, <4>3, <4>4, <4>5, <4>6, <4>7
    <3> QED
      BY <2>3, <3>1, Cancel
  <2>5. V < (P + m) * (S + n + 1)
    BY <2>2, <2>3, <2>4
  <2> HIDE DEF V
  <2> QED
    BY <1>2, <1>3, <2>5, DivBelow
<1> QED
  BY <1>2, <1>3, <1>4, <1>5 DEF AmountByShare, m, S

\* The LP tokens that a withdrawal of c tokens burns are worth at most c, and a pool that
\* burns them keeps at least all but c of what it owned.
LEMMA WithdrawalValue ==
    ASSUME NEW U \in Nat \ {0}, NEW P \in Nat \ {0}, NEW p \in 0 .. P, NEW c \in Nat,
           UnmintAmount(c, U, P) < p
    PROVE  LET l == UnmintAmount(c, U, P)
               o == AmountByShare(l, U, P)
           IN  /\ l \in Nat /\ o \in Nat /\ o <= c
               /\ AmountByShare(p - l, U - o, P - l) \in Nat
               /\ AmountByShare(p - l, U - o, P - l) >= AmountByShare(p, U, P) - c
<1> DEFINE l == UnmintAmount(c, U, P)
           o == AmountByShare(l, U, P)
           D == AmountByShare(p, U, P)
<1>1. l \in Nat /\ U * l <= c * P
  BY ProductNat, DivNat, DivBounds DEF UnmintAmount
<1>2. l < p
  OBVIOUS
<1> HIDE DEF l
<1>3. o \in 0 .. U /\ (U - o) * P >= U * (P - l)
  <2>1. l \in 0 .. P
    BY <1>1, <1>2
  <2> QED
    BY <2>1, WithdrawalKeepsSharePrice DEF o
<1>4. l * U \in Nat /\ P * o <= l * U
  BY <1>1, ProductNat, DivBounds DEF AmountByShare, o
<1>5. p * U \in Nat /\ D \in Nat /\ P * D <= p * U
  BY ProductNat, DivNat, DivBounds DEF AmountByShare
<1> HIDE DEF o, D
<1>6. o <= c
  <2>1. l * U = U * l /\ c * P = P * c /\ P * o \in Nat /\ P * c \in Nat
    BY <1>1, <1>3, ProductNat, Z3
  <2>2. P * o <= P * c
    BY <1>1, <1>4, <2>1
  <2> QED
    BY <1>3, <2>2, Cancel
<1>7. p - l \in Nat /\ P - l \in Nat \ {0} /\ U - o \in Nat /\ (p - l) * (U - o) \in Nat
  <2>1. p - l \in Nat /\ P - l \in Nat \ {0} /\ U - o \in Nat
    BY <1>1, <1>2, <1>3
  <2> QED
    BY <2>1, ProductNat
<1>8. (P - l) * (D - c) <= (p - l) * (U - o)
  <2>1. P * (D - c) <= (p - l) * U
    <3>1. P * (D - c) = P * D - P * c /\ (p - l) * U = p * U - l * U
      BY <1>1, <1>5, Z3
    <3>2. l * U = U * l /\ c * P = P * c /\ P * D \in Nat /\ P * c \in Nat
      BY <1>1, <1>5, ProductNat, Z3
    <3> QED
      BY <1>1, <1>4, <1>5, <3>1, <3>2
  <2>2. (P - l) * (P * (D - c)) <= (P - l) * ((p - l) * U)
    <3>1. P * (D - c) \in Int /\ (p - l) * U \in Int
      BY <1>5, <1>7, Z3
    <3> QED
      BY <1>7, <2>1, <3>1, ProductMono
  <2>3. (P - l) * ((p - l) * U) = (p - l) * (U * (P - l))
    BY <1>1, Z3
  <2>4. (p - l) * (U * (P - l)) <= (p - l) * ((U - o) * P)
    <3>1. U * (P - l) \in Int /\ (U - o) * P \in Int
      BY <1>7, Z3
    <3> QED
      BY <1>3, <1>7, <3>1, ProductMono
  <2>5. /\ (P - l) * (P * (D - c)) = P * ((P - l) * (D - c))
        /\ (p - l) * ((U - o) * P) = P * ((p - l) * (U - o))
    BY <1>1, <1>3, <1>5, Z3
  <2>6. (P - l) * (D - c) \in Int /\ P * ((P - l) * (D - c)) \in Int
        /\ P * ((p - l) * (U - o)) \in Int /\ (p - l) * (U * (P - l)) \in Int
    BY <1>5, <1>7, Z3
  <2>7. P * ((P - l) * (D - c)) <= P * ((p - l) * (U - o))
    BY <2>2, <2>3, <2>4, <2>5, <2>6
  <2> QED
    BY <1>7, <2>6, <2>7, Cancel
<1>9. /\ AmountByShare(p - l, U - o, P - l) \in Nat
      /\ D - c <= AmountByShare(p - l, U - o, P - l)
  <2>1. D - c \in Int
    BY <1>5
  <2>2. D - c <= ((p - l) * (U - o)) \div (P - l)
    BY <1>7, <1>8, <2>1, DivAtLeast
  <2>3. ((p - l) * (U - o)) \div (P - l) \in Nat
    BY <1>7, DivNat
  <2> QED
    BY <2>2, <2>3 DEF AmountByShare
<1> QED
  BY <1>1, <1>3, <1>5, <1>6, <1>9 DEF l, o, D

(***************************************************************************)
(* The constant-product curve.                                             *)
(***************************************************************************)

\* ceilDiv is the least number whose product with the divisor reaches the dividend.
LEMMA CeilBounds ==
    ASSUME NEW a \in Nat, NEW b \in Nat \ {0}
    PROVE  /\ CeilQuotient(a, b) \in Nat
           /\ b * CeilQuotient(a, b) >= a
           /\ \A q \in Int : b * q >= a => q >= CeilQuotient(a, b)
<1> DEFINE d == a \div b
<1>1. d \in Nat /\ b * d <= a /\ a < b * d + b /\ b * d \in Nat
  BY DivNat, DivBounds, ProductNat
<1>2. a = b * d + (a % b) /\ a % b \in Nat
  BY Remainder
<1>3. b * (d + 1) = b * d + b
  BY <1>1, Z3
<1>4. CeilQuotient(a, b) = IF a % b > 0 THEN d + 1 ELSE d
  BY DEF CeilQuotient
<1> HIDE DEF d
<1>5. CASE a % b > 0
  <2>1. CeilQuotient(a, b) = d + 1
    BY <1>4, <1>5
  <2>2. ASSUME NEW q \in Int, b * q >= a PROVE q >= d + 1
    <3>1. b * d < b * q
      BY <1>1, <1>2, <1>5, <2>2, Z3
    <3>2. d < q
      BY <1>1, <3>1, Cancel
    <3> QED
      BY <1>1, <3>2
  <2> QED
    BY <1>1, <1>3, <2>1, <2>2
<1>6. CASE ~(a % b > 0)
  <2>1. CeilQuotient(a, b) = d /\ a = b * d
    BY <1>1, <1>2, <1>4, <1>6
  <2>2. ASSUME NEW q \in Int, b * q >= a PROVE q >= d
    <3>1. b * d <= b * q
      BY <2>1, <2>2, <1>1, Z3
    <3> QED
      BY <1>1, <3>1, Cancel
  <2> QED
    BY <1>1, <2>1, <2>2
<1> QED
  BY <1>5, <1>6

\* What leaves a pool of S and D for x more of S is less than all of D, and the product of
\* what is there afterwards is at least S * D.
LEMMA CurveKeepsProduct ==
    ASSUME NEW S \in Nat, NEW D \in Nat, NEW x \in Int, CurveOut(x, S, D) # 0
    PROVE  /\ S + x \in Nat \ {0} /\ CurveOut(x, S, D) \in Int /\ CurveOut(x, S, D) <= D
           /\ (D - CurveOut(x, S, D)) * (S + x) >= S * D
           /\ CurveOut(x, S, D) * (S + x) <= D * x
           /\ x >= 0 => CurveOut(x, S, D) \in Nat
<1> DEFINE c == CurveOut(x, S, D)
           q == CeilQuotient(S * D, S + x)
<1>1. S + x \in Nat \ {0} /\ c = D - q
  BY DEF CurveOut
<1>2. q \in Nat /\ (S + x) * q >= S * D /\ S * D \in Nat
      /\ \A r \in Int : (S + x) * r >= S * D => r >= q
  BY <1>1, CeilBounds, ProductNat
<1> HIDE DEF c, q
<1>3. D - c = q /\ c \in Int /\ c <= D
  BY <1>1, <1>2
<1>4. (D - c) * (S + x) >= S * D
  BY <1>2, <1>3, Z3
<1>5. (D - c) * (S + x) = D * S + D * x - c * (S + x) /\ D * S = S * D
      /\ D * x \in Int /\ c * (S + x) \in Int
  BY <1>1, <1>3, Z3
<1>6. c * (S + x) <= D * x
  BY <1>2, <1>4, <1>5
<1>7. ASSUME x >= 0 PROVE c \in Nat
  <2>1. S <= S + x
    BY <1>7
  <2>2. S * D <= (S + x) * D
    BY <1>1, <2>1, ProductMono
  <2>3. D >= q
    BY <1>2, <2>2
  <2> QED
    BY <1>2, <1>3, <2>3
<1> QED
  BY <1>1, <1>3, <1>4, <1>6, <1>7 DEF c

\* The more comes in, the more leaves.
LEMMA CurveMono ==
    ASSUME NEW S \in Nat, NEW D \in Nat, NEW x \in Int, NEW y \in Int, x <= y,
           CurveOut(x, S, D) # 0, CurveOut(y, S, D) # 0
    PROVE  CurveOut(x, S, D) <= CurveOut(y, S, D)
<1> DEFINE q(z) == CeilQuotient(S * D, S + z)
<1>1. /\ S + x \in Nat \ {0} /\ CurveOut(x, S, D) = D - q(x)
      /\ S + y \in Nat \ {0} /\ CurveOut(y, S, D) = D - q(y)
  BY DEF CurveOut
<1>2. /\ q(x) \in Nat /\ (S + x) * q(x) >= S * D
      /\ q(y) \in Nat /\ \A r \in Int : (S + y) * r >= S * D => r >= q(y)
      /\ S * D \in Nat
  BY <1>1, CeilBounds, ProductNat
<1> HIDE DEF q
<1>3. (S + x) * q(x) <= (S + y) * q(x)
  <2>1. S + x <= S + y
    BY <1>1
  <2> QED
    BY <1>1, <1>2, <2>1, ProductMono
<1>4. (S + y) * q(x) >= S * D
  <2>1. (S + x) * q(x) \in Nat /\ (S + y) * q(x) \in Nat
    BY <1>1, <1>2, ProductNat
  <2> QED
    BY <1>2, <1>3, <2>1
<1>5. q(x) >= q(y)
  BY <1>2, <1>4
<1> QED
  BY <1>1, <1>2, <1>5

(***************************************************************************)
(* The quotes.                                                             *)
(***************************************************************************)

\* The books that a quote is asked of: both vaults have LP tokens and something unlocked,
\* the pool owns part of the LP tokens.
Books(st) ==
    /\ st.time \in Nat
    /\ st.vault \in [Sides -> VaultRecord]
    /\ st.poolLp \in [Sides -> Nat] /\ st.reserve \in [Sides -> Nat]
    /\ \A x \in Sides :
          /\ st.vault[x].supply > 0 /\ st.vault[x].report <= st.time
          /\ UnlockedAmount(st.vault[x], st.time) \in 1 .. st.vault[x].total
          /\ st.poolLp[x] <= st.vault[x].supply
          /\ st.reserve[x] <= st.vault[x].total

\* A pool has two sides.
LEMMA TwoSides ==
    ASSUME NEW x \in Sides
    PROVE  \/ x = "A" /\ Other(x) = "B"
           \/ x = "B" /\ Other(x) = "A"
BY DEF Sides, Other

\* One side of such books, in numbers.
LEMMA BooksOfSide ==
    ASSUME NEW st, Books(st), NEW x \in Sides
    PROVE  /\ UnlockedAmount(st.vault[x], st.time) \in Nat \ {0}
           /\ st.vault[x].supply \in Nat \ {0}
           /\ st.poolLp[x] \in 0 .. st.vault[x].supply
           /\ st.reserve[x] \in 0 .. st.vault[x].total
           /\ TokenAmount(st, x) \in 0 .. UnlockedAmount(st.vault[x], st.time)
           /\ Other(x) \in Sides /\ Other(x) # x /\ Other(Other(x)) = x
<1>1. /\ UnlockedAmount(st.vault[x], st.time) \in Nat \ {0}
      /\ st.vault[x].supply \in Nat \ {0}
      /\ st.poolLp[x] \in 0 .. st.vault[x].supply
      /\ st.reserve[x] \in 0 .. st.vault[x].total
  BY DEF Books, VaultRecord
<1>2. TokenAmount(st, x) \in 0 .. UnlockedAmount(st.vault[x], st.time)
  BY <1>1, WithdrawalKeepsSharePrice DEF TokenAmount
<1>3. Other(x) \in Sides /\ Other(x) # x /\ Other(Other(x)) = x
  BY DEF Sides, Other
<1> QED
  BY <1>1, <1>2, <1>3

\* calculateTradingFee and calculateProtocolTradingFee take at most what they are a share of.
LEMMA TsFees ==
    ASSUME NEW amount \in Nat
    PROVE  TsTradingFee(amount) \in 0 .. amount /\ TsProtocolFee(amount) \in 0 .. amount
<1>1. ASSUME NEW n \in Nat, NEW d \in Nat \ {0}, n <= d
      PROVE  (amount * n) \div d \in 0 .. amount
  <2>1. amount * n \in Nat /\ amount * n <= d * amount /\ d * amount \in Nat
    <3>1. amount * n <= amount * d /\ amount * d = d * amount
      BY <1>1, ProductMono, Z3
    <3> QED
      BY <3>1, ProductNat
  <2>2. (amount * n) \div d \in Nat
    BY <2>1, DivNat
  <2>3. (amount * n) \div d < amount + 1
    <3>1. d * (amount + 1) = d * amount + d
      BY Z3
    <3>2. amount * n < d * (amount + 1)
      BY <2>1, <3>1
    <3> QED
      BY <2>1, <3>2, DivBelow
  <2> QED
    BY <2>2, <2>3
<1> QED
  BY <1>1, FeeAssumption DEF TsTradingFee, TsProtocolFee

\* A fee of the quote library is at least the client's fee of as much or of less.
LEMMA RustFees ==
    ASSUME NEW a \in Nat, NEW b \in Nat, a <= b
    PROVE  /\ RustFee(b, TradeNum, TradeDen) \in Nat
           /\ TsTradingFee(a) <= RustFee(b, TradeNum, TradeDen)
           /\ RustFee(b, ProtocolNum, ProtocolDen) \in Nat
           /\ TsProtocolFee(a) <= RustFee(b, ProtocolNum, ProtocolDen)
<1>1. ASSUME NEW n \in Nat, NEW d \in Nat \ {0}
      PROVE  RustFee(b, n, d) \in Nat /\ (a * n) \div d <= RustFee(b, n, d)
  <2>1. a * n \in Nat /\ b * n \in Nat /\ a * n <= b * n
    BY <1>1, ProductNat, ProductMono
  <2>2. (a * n) \div d \in Nat /\ (b * n) \div d \in Nat /\ (a * n) \div d <= (b * n) \div d
    BY <2>1, DivNat, DivMono
  <2>3. CASE n = 0 \/ b = 0
    <3>1. b * n = 0
      BY <2>3, Z3
    <3>2. (b * n) \div d < 1
      <4>1. b * n < d * 1
        BY <3>1
      <4> QED
        BY <2>1, <4>1, DivBelow
    <3> QED
      BY <2>2, <2>3, <3>2 DEF RustFee
  <2>4. CASE ~(n = 0 \/ b = 0)
    <3>1. RustFee(b, n, d) = IF (b * n) \div d = 0 THEN 1 ELSE (b * n) \div d
      BY <2>4 DEF RustFee
    <3> QED
      BY <2>2, <3>1
  <2> QED
    BY <2>3, <2>4
<1> QED
  BY <1>1, FeeAssumption DEF TsTradingFee, TsProtocolFee

\* What a quote of the client is made of: what the deposit of the amount less the protocol
\* fee adds to the pool, less the pool's own fee, goes through the curve.
LEMMA TsQuoteParts ==
    ASSUME NEW st, NEW src, NEW amount, NEW w
    PROVE  LET dst == Other(src)
               U == UnlockedAmount(st.vault[src], st.time)
               V == UnlockedAmount(st.vault[dst], st.time)
               q == TsQuote(st, src, amount, w)
               net == amount - q.protocol
               c == CurveOut(q.curveIn, TokenAmount(st, src), TokenAmount(st, dst))
           IN  /\ q.protocol = TsProtocolFee(TsTradingFee(amount))
               /\ q.fee = TsTradingFee(amount) - q.protocol
               /\ q.lpIn = UnmintAmount(net, U, st.vault[src].supply)
               /\ q.curveIn = (AmountByShare(q.lpIn + st.poolLp[src], U + net,
                                             st.vault[src].supply + q.lpIn)
                               - TokenAmount(st, src)) - q.fee
               /\ q.lpOut = BNDiv(c * st.vault[dst].supply, V)
               /\ q.out = BNDiv(q.lpOut * V, st.vault[dst].supply)
               /\ q.ok => c # 0 /\ BelowMaxSwapOut(q.out, MaxSwapOut(st, dst))
BY DEF TsQuote

\* The same of the quote library, whose subtractions are checked.
LEMMA RustQuoteParts ==
    ASSUME NEW st, NEW src, NEW amount
    PROVE  LET dst == Other(src)
               U == UnlockedAmount(st.vault[src], st.time)
               V == UnlockedAmount(st.vault[dst], st.time)
               q == RustQuote(st, src, amount)
               net == amount - q.protocol
               c == CurveOut(q.curveIn, TokenAmount(st, src), TokenAmount(st, dst))
           IN  /\ q.fee = RustFee(amount, TradeNum, TradeDen)
               /\ q.protocol = RustFee(q.fee, ProtocolNum, ProtocolDen)
               /\ q.lpIn = UnmintAmount(net, U, st.vault[src].supply)
               /\ q.curveIn = (AmountByShare(q.lpIn + st.poolLp[src], U + net,
                                             st.vault[src].supply + q.lpIn)
                               - TokenAmount(st, src)) - q.fee
               /\ q.lpOut = UnmintAmount(c, V, st.vault[dst].supply)
               /\ q.out = AmountByShare(q.lpOut, V, st.vault[dst].supply)
               /\ q.ok => c # 0 /\ net >= 0 /\ q.curveIn >= 0
BY DEF RustQuote

\* What goes in: the pool's side grows by at most the amount less the protocol fee, of which
\* the pool's own fee stays out of the curve.
LEMMA TsQuoteIn ==
    ASSUME NEW st, Books(st), NEW src \in Sides, NEW amount \in Nat, NEW w
    PROVE  LET U == UnlockedAmount(st.vault[src], st.time)
               P == st.vault[src].supply
               q == TsQuote(st, src, amount, w)
               net == amount - q.protocol
               after == AmountByShare(q.lpIn + st.poolLp[src], U + net, P + q.lpIn)
           IN  /\ q.protocol \in 0 .. amount /\ net \in Nat /\ q.fee \in Nat
               /\ q.lpIn = UnmintAmount(net, U, P) /\ q.lpIn \in Nat
               /\ q.curveIn = (after - TokenAmount(st, src)) - q.fee /\ q.curveIn \in Int
               /\ after \in Nat /\ TokenAmount(st, src) <= after
               /\ after <= TokenAmount(st, src) + net
<1> DEFINE U == UnlockedAmount(st.vault[src], st.time)
           P == st.vault[src].supply
           p == st.poolLp[src]
           S == TokenAmount(st, src)
           q == TsQuote(st, src, amount, w)
           net == amount - q.protocol
           m == UnmintAmount(net, U, P)
<1>1. /\ U \in Nat \ {0} /\ P \in Nat \ {0} /\ p \in 0 .. P
      /\ S \in Nat /\ S = AmountByShare(p, U, P)
  BY BooksOfSide DEF TokenAmount
<1>2. /\ q.protocol = TsProtocolFee(TsTradingFee(amount))
      /\ q.fee = TsTradingFee(amount) - q.protocol
      /\ q.lpIn = m
      /\ q.curveIn = (AmountByShare(m + p, U + net, P + m) - S) - q.fee
  BY TsQuoteParts
<1>3. q.protocol \in 0 .. amount /\ net \in Nat /\ q.fee \in Nat
  <2>1. TsTradingFee(amount) \in 0 .. amount
    BY TsFees
  <2>2. TsProtocolFee(TsTradingFee(amount)) \in 0 .. TsTradingFee(amount)
    BY <2>1, TsFees
  <2> QED
    BY <1>2, <2>1, <2>2
<1> HIDE DEF U, P, p, S, q
<1>4. /\ m \in Nat /\ AmountByShare(m + p, U + net, P + m) \in Nat
      /\ S <= AmountByShare(m + p, U + net, P + m)
      /\ AmountByShare(m + p, U + net, P + m) <= S + net
  <2>1. m \in Nat
    BY <1>1, <1>3, DepositKeepsSharePrice
  <2> QED
    BY <1>1, <1>3, <2>1, DepositValue
<1> HIDE DEF net, m
<1>5. q.curveIn \in Int
  BY <1>1, <1>2, <1>3, <1>4
<1> QED
  BY <1>1, <1>2, <1>3, <1>4, <1>5 DEF U, P, p, S, q, net, m

\* What leaves, if what goes in is not negative: LP tokens that the pool has, for tokens that
\* the other vault has unlocked and at hand, and at most what the curve gives.
LEMMA TsQuoteOut ==
    ASSUME NEW st, Books(st), NEW src \in Sides, NEW amount \in Nat, NEW w,
           TsQuote(st, src, amount, w).ok, TsQuote(st, src, amount, w).curveIn >= 0
    PROVE  LET dst == Other(src)
               V == UnlockedAmount(st.vault[dst], st.time)
               P == st.vault[dst].supply
               q == TsQuote(st, src, amount, w)
               c == CurveOut(q.curveIn, TokenAmount(st, src), TokenAmount(st, dst))
           IN  /\ c # 0 /\ c \in Nat /\ q.curveIn \in Nat
               /\ q.lpOut = UnmintAmount(c, V, P)
               /\ q.lpOut \in Nat /\ q.lpOut < st.poolLp[dst]
               /\ q.out = AmountByShare(q.lpOut, V, P) /\ q.out \in Nat /\ q.out <= c
               /\ q.out < st.reserve[dst] /\ q.out < TokenAmount(st, dst)
<1> DEFINE dst == Other(src)
           V == UnlockedAmount(st.vault[dst], st.time)
           P == st.vault[dst].supply
           p == st.poolLp[dst]
           S == TokenAmount(st, src)
           D == TokenAmount(st, dst)
           q == TsQuote(st, src, amount, w)
           c == CurveOut(q.curveIn, S, D)
<1>1. dst \in Sides /\ S \in Nat
  BY BooksOfSide
<1>2. /\ V \in Nat \ {0} /\ P \in Nat \ {0} /\ p \in 0 .. P
      /\ st.reserve[dst] \in Nat /\ D \in Nat /\ D = AmountByShare(p, V, P)
  BY <1>1, BooksOfSide DEF TokenAmount
<1>3. /\ c # 0 /\ BelowMaxSwapOut(q.out, MaxSwapOut(st, dst))
      /\ q.lpOut = BNDiv(c * P, V) /\ q.out = BNDiv(q.lpOut * V, P)
  BY TsQuoteParts
<1>4. q.curveIn \in Nat
  BY TsQuoteIn
<1> HIDE DEF q
<1>5. c \in Nat
  BY <1>1, <1>2, <1>3, <1>4, CurveKeepsProduct
<1>6. q.lpOut = UnmintAmount(c, V, P) /\ q.lpOut \in Nat /\ V * q.lpOut <= c * P
  <2>1. c * P \in Nat
    BY <1>2, <1>5, ProductNat
  <2>2. q.lpOut = (c * P) \div V
    BY <1>3, <2>1 DEF BNDiv
  <2> HIDE DEF c, V, P
  <2> QED
    BY <1>2, <2>1, <2>2, DivNat, DivBounds DEF UnmintAmount
<1>7. q.out = AmountByShare(q.lpOut, V, P) /\ q.out \in Nat /\ P * q.out <= q.lpOut * V
  <2>1. q.lpOut * V \in Nat
    BY <1>2, <1>6, ProductNat
  <2>2. q.out = (q.lpOut * V) \div P
    BY <1>3, <2>1 DEF BNDiv
  <2> DEFINE n == q.lpOut * V
  <2> HIDE DEF c, V, P, n
  <2>3. n \in Nat /\ q.out = n \div P
    BY <2>1, <2>2 DEF n
  <2>4. P \in Nat \ {0} /\ n \in Int
    BY <1>2, <2>3
  <2>5. n \div P \in Nat
    BY <2>3, <2>4, DivNat
  <2>6. P * (n \div P) <= n
    BY <2>4, DivBounds
  <2> QED
    BY <2>3, <2>5, <2>6 DEF AmountByShare, n
<1>8. q.out < st.reserve[dst] /\ q.out < D
  BY <1>2, <1>3, <1>7 DEF BelowMaxSwapOut, MaxSwapOut
<1>9. q.out <= c
  <2> HIDE DEF c, V, P
  <2>1. q.lpOut * V = V * q.lpOut /\ c * P = P * c /\ P * q.out \in Nat /\ P * c \in Nat
        /\ V * q.lpOut \in Nat
    BY <1>2, <1>5, <1>6, <1>7, ProductNat, Z3
  <2>2. P * q.out <= P * c
    BY <1>6, <1>7, <2>1
  <2> QED
    BY <1>2, <1>5, <1>7, <2>2, Cancel
<1>10. q.lpOut < p
  <2> SUFFICES ASSUME p <= q.lpOut PROVE FALSE
    BY <1>2, <1>6
  <2>1. p * V <= q.lpOut * V /\ p * V \in Nat /\ q.lpOut * V \in Nat
    BY <1>2, <1>6, ProductMono, ProductNat
  <2>2. (p * V) \div P <= (q.lpOut * V) \div P
    BY <1>2, <2>1, DivMono
  <2> QED
    BY <1>2, <1>7, <1>8, <2>2 DEF AmountByShare
<1> QED
  BY <1>3, <1>4, <1>5, <1>6, <1>7, <1>8, <1>9, <1>10 DEF q

(***************************************************************************)
(* Steps.                                                                  *)
(***************************************************************************)

\* What TypeOK says of the pool and its vaults is what a quote needs to know of them.
LEMMA TypeGivesBooks == TypeOK => Books(Snapshot)
BY BoundsAssumption, Z3 DEF TypeOK, Books, Snapshot, VaultRecord

\* A landed swap changes each side on its own: its vault's total and LP supply, with the
\* locked profit left alone, and the pool's part of both.
LEMMA AfterSwapSides ==
    ASSUME vault \in [Sides -> VaultRecord], poolLp \in [Sides -> Nat],
           reserve \in [Sides -> Nat], NEW src \in Sides, NEW amount, NEW q
    PROVE  LET dst == Other(src)
               st == AfterSwap(Snapshot, src, amount, q)
           IN  /\ st.time = time
               /\ st.vault = [x \in Sides |->
                     IF x = src
                     THEN [total |-> vault[src].total + (amount - q.protocol),
                           supply |-> vault[src].supply + q.lpIn,
                           locked |-> vault[src].locked, report |-> vault[src].report]
                     ELSE [total |-> vault[dst].total - q.out,
                           supply |-> vault[dst].supply - q.lpOut,
                           locked |-> vault[dst].locked, report |-> vault[dst].report]]
               /\ st.poolLp = [x \in Sides |-> IF x = src THEN poolLp[src] + q.lpIn
                                               ELSE poolLp[dst] - q.lpOut]
               /\ st.reserve = [x \in Sides |->
                     IF x = src THEN reserve[src] + (amount - q.protocol)
                     ELSE reserve[dst] - q.out]
<1> DEFINE dst == Other(src)
           st == AfterSwap(Snapshot, src, amount, q)
           net == amount - q.protocol
<1>1. dst \in Sides /\ dst # src /\ Sides = {src, dst}
  BY DEF Sides, Other
<1>2. /\ st.time = time
      /\ st.vault = [vault EXCEPT
              ![src].total = @ + net,   ![src].supply = @ + q.lpIn,
              ![dst].total = @ - q.out, ![dst].supply = @ - q.lpOut]
      /\ st.poolLp = [poolLp EXCEPT ![src] = @ + q.lpIn, ![dst] = @ - q.lpOut]
      /\ st.reserve = [reserve EXCEPT ![src] = @ + net, ![dst] = @ - q.out]
  BY DEF AfterSwap, Snapshot
<1>3. \A x \in Sides : vault[x] = [total |-> vault[x].total, supply |-> vault[x].supply,
                                   locked |-> vault[x].locked, report |-> vault[x].report]
  BY DEF VaultRecord
<1> HIDE DEF dst, st, net
<1>4. st.poolLp = [x \in Sides |-> IF x = src THEN poolLp[src] + q.lpIn
                                   ELSE poolLp[dst] - q.lpOut]
  BY <1>1, <1>2
<1>5. st.reserve = [x \in Sides |-> IF x = src THEN reserve[src] + net ELSE reserve[dst] - q.out]
  BY <1>1, <1>2
<1>6. st.vault = [x \in Sides |->
                     IF x = src
                     THEN [total |-> vault[src].total + net,
                           supply |-> vault[src].supply + q.lpIn,
                           locked |-> vault[src].locked, report |-> vault[src].report]
                     ELSE [total |-> vault[dst].total - q.out,
                           supply |-> vault[dst].supply - q.lpOut,
                           locked |-> vault[dst].locked, report |-> vault[dst].report]]
  BY <1>1, <1>2, <1>3
<1> QED
  BY <1>2, <1>4, <1>5, <1>6 DEF dst, st, net

\* Locked profit depends on the profit recorded at the last report and on the clock only.
LEMMA SameLocked ==
    ASSUME NEW v, NEW w, NEW t, v.locked = w.locked, v.report = w.report
    PROVE  LockedProfit(v, t) = LockedProfit(w, t)
BY DEF LockedProfit

\* What a landed swap does to what the vaults have unlocked.
LEMMA AfterSwapUnlocked ==
    ASSUME TypeOK, NEW src \in Sides, NEW amount \in Nat, NEW w,
           TsQuote(Snapshot, src, amount, w).ok, TsQuote(Snapshot, src, amount, w).curveIn >= 0
    PROVE  LET dst == Other(src)
               q == TsQuote(Snapshot, src, amount, w)
               net == amount - q.protocol
               st == AfterSwap(Snapshot, src, amount, q)
           IN  /\ Books(st) /\ st.time = time
               /\ UnlockedAmount(st.vault[src], time) = UnlockedAmount(vault[src], time) + net
               /\ UnlockedAmount(st.vault[dst], time) = UnlockedAmount(vault[dst], time) - q.out
               /\ st.vault[src].supply = vault[src].supply + q.lpIn
               /\ st.vault[dst].supply = vault[dst].supply - q.lpOut
               /\ st.poolLp[src] = poolLp[src] + q.lpIn
               /\ st.poolLp[dst] = poolLp[dst] - q.lpOut
               /\ \A x \in Sides : st.vault[x].report <= time
<1> DEFINE dst == Other(src)
           q == TsQuote(Snapshot, src, amount, w)
           net == amount - q.protocol
           st == AfterSwap(Snapshot, src, amount, q)
           U(x) == UnlockedAmount(vault[x], time)
<1>1. Books(Snapshot) /\ dst \in Sides /\ dst # src /\ Sides = {src, dst}
  BY TypeGivesBooks DEF Sides, Other
<1>2. /\ net \in Nat /\ q.lpIn \in Nat
      /\ q.lpOut \in Nat /\ q.lpOut < poolLp[dst]
      /\ q.out \in Nat /\ q.out < reserve[dst] /\ q.out < TokenAmount(Snapshot, dst)
  BY <1>1, TsQuoteIn, TsQuoteOut DEF Snapshot
<1>3. /\ vault \in [Sides -> VaultRecord] /\ poolLp \in [Sides -> Nat]
      /\ reserve \in [Sides -> Nat] /\ time \in Nat
      /\ \A x \in Sides : /\ vault[x].supply > 0 /\ vault[x].report <= time
                          /\ U(x) \in 1 .. vault[x].total
                          /\ poolLp[x] <= vault[x].supply
                          /\ reserve[x] <= vault[x].total
  BY DEF TypeOK, VaultRecord
<1>4. TokenAmount(Snapshot, dst) <= U(dst) /\ TokenAmount(Snapshot, dst) \in Nat
  BY <1>1, BooksOfSide DEF Snapshot
<1> HIDE DEF q
<1>5. /\ st.time = time
      /\ st.vault = [x \in Sides |->
                     IF x = src
                     THEN [total |-> vault[src].total + net,
                           supply |-> vault[src].supply + q.lpIn,
                           locked |-> vault[src].locked, report |-> vault[src].report]
                     ELSE [total |-> vault[dst].total - q.out,
                           supply |-> vault[dst].supply - q.lpOut,
                           locked |-> vault[dst].locked, report |-> vault[dst].report]]
      /\ st.poolLp = [x \in Sides |-> IF x = src THEN poolLp[src] + q.lpIn
                                               ELSE poolLp[dst] - q.lpOut]
      /\ st.reserve = [x \in Sides |->
                     IF x = src THEN reserve[src] + net ELSE reserve[dst] - q.out]
  BY <1>3, AfterSwapSides
<1> HIDE DEF dst, net, st
<1>6. /\ st.vault[src] = [total |-> vault[src].total + net,
                          supply |-> vault[src].supply + q.lpIn,
                          locked |-> vault[src].locked, report |-> vault[src].report]
      /\ st.vault[dst] = [total |-> vault[dst].total - q.out,
                          supply |-> vault[dst].supply - q.lpOut,
                          locked |-> vault[dst].locked, report |-> vault[dst].report]
      /\ st.poolLp[src] = poolLp[src] + q.lpIn /\ st.poolLp[dst] = poolLp[dst] - q.lpOut
      /\ st.reserve[src] = reserve[src] + net /\ st.reserve[dst] = reserve[dst] - q.out
  BY <1>1, <1>5
<1>7. \A x \in Sides : /\ vault[x].total \in Nat /\ vault[x].supply \in Nat
                       /\ vault[x].locked \in Nat /\ vault[x].report \in Nat
                       /\ poolLp[x] \in Nat /\ reserve[x] \in Nat
                       /\ LockedProfit(vault[x], time) \in Nat
  BY <1>3, LockedProfitFalls DEF VaultRecord
<1>8. /\ UnlockedAmount(st.vault[src], time) = U(src) + net
      /\ UnlockedAmount(st.vault[dst], time) = U(dst) - q.out
  <2>1. /\ LockedProfit(st.vault[src], time) = LockedProfit(vault[src], time)
        /\ LockedProfit(st.vault[dst], time) = LockedProfit(vault[dst], time)
    BY <1>6, SameLocked
  <2>2. /\ st.vault[src].total = vault[src].total + net
        /\ st.vault[dst].total = vault[dst].total - q.out
    BY <1>6
  <2> QED
    BY <1>1, <1>2, <1>7, <2>1, <2>2 DEF UnlockedAmount
<1> HIDE DEF U
<1>9. /\ st.poolLp[src] \in 0 .. st.vault[src].supply /\ st.vault[src].supply \in Nat \ {0}
      /\ st.poolLp[dst] \in 0 .. st.vault[dst].supply /\ st.vault[dst].supply \in Nat \ {0}
      /\ st.reserve[src] \in 0 .. st.vault[src].total /\ st.vault[src].total \in Nat
      /\ st.reserve[dst] \in 0 .. st.vault[dst].total /\ st.vault[dst].total \in Nat
      /\ U(src) + net \in 1 .. st.vault[src].total
      /\ U(dst) - q.out \in 1 .. st.vault[dst].total
  BY <1>1, <1>2, <1>3, <1>4, <1>6, <1>7
<1>10. /\ st.vault \in [Sides -> VaultRecord] /\ st.poolLp \in [Sides -> Nat]
       /\ st.reserve \in [Sides -> Nat]
  <2>1. st.vault[src] \in VaultRecord /\ st.vault[dst] \in VaultRecord
    BY <1>1, <1>6, <1>7, <1>9 DEF VaultRecord
  <2>2. st.poolLp[src] \in Nat /\ st.poolLp[dst] \in Nat
        /\ st.reserve[src] \in Nat /\ st.reserve[dst] \in Nat
    BY <1>9
  <2>3. /\ DOMAIN st.vault = Sides /\ DOMAIN st.poolLp = Sides /\ DOMAIN st.reserve = Sides
        /\ st.vault = [x \in Sides |-> st.vault[x]]
        /\ st.poolLp = [x \in Sides |-> st.poolLp[x]]
        /\ st.reserve = [x \in Sides |-> st.reserve[x]]
    BY <1>5
  <2> QED
    BY <1>1, <2>1, <2>2, <2>3
<1>11. st.vault[src].report <= time /\ st.vault[dst].report <= time
  BY <1>1, <1>3, <1>6
<1>12. Books(st)
  BY <1>1, <1>3, <1>5, <1>8, <1>9, <1>10, <1>11 DEF Books
<1> QED
  BY <1>1, <1>5, <1>6, <1>8, <1>11, <1>12 DEF dst, q, net, st, U

\* What a landed swap does to the pool: the source side grows by what goes through the curve
\* and by the pool's fee, the other side falls by at most what the curve gives.
LEMMA AfterSwapTokens ==
    ASSUME TypeOK, NEW src \in Sides, NEW amount \in Nat, NEW w,
           TsQuote(Snapshot, src, amount, w).ok, TsQuote(Snapshot, src, amount, w).curveIn >= 0
    PROVE  LET dst == Other(src)
               q == TsQuote(Snapshot, src, amount, w)
               st == AfterSwap(Snapshot, src, amount, q)
               S == TokenAmount(Snapshot, src)
               D == TokenAmount(Snapshot, dst)
           IN  /\ S \in Nat /\ D \in Nat
               /\ TokenAmount(st, src) \in Nat /\ TokenAmount(st, src) = S + q.curveIn + q.fee
               /\ TokenAmount(st, dst) \in Nat
               /\ TokenAmount(st, dst) >= D - CurveOut(q.curveIn, S, D)
<1> DEFINE dst == Other(src)
           q == TsQuote(Snapshot, src, amount, w)
           net == amount - q.protocol
           st == AfterSwap(Snapshot, src, amount, q)
           S == TokenAmount(Snapshot, src)
           D == TokenAmount(Snapshot, dst)
           U == UnlockedAmount(vault[src], time)
           V == UnlockedAmount(vault[dst], time)
           after == AmountByShare(q.lpIn + poolLp[src], U + net, vault[src].supply + q.lpIn)
           c == CurveOut(q.curveIn, S, D)
<1>1. Books(Snapshot) /\ dst \in Sides
  BY TypeGivesBooks DEF Sides, Other
<1>2. /\ Snapshot.vault = vault /\ Snapshot.time = time /\ Snapshot.poolLp = poolLp
      /\ Snapshot.reserve = reserve
  BY DEF Snapshot
<1>3. /\ net \in Nat /\ q.lpIn \in Nat /\ q.fee \in Nat
      /\ q.curveIn = (after - S) - q.fee /\ q.curveIn \in Int /\ after \in Nat
  BY <1>1, <1>2, TsQuoteIn
<1>4. /\ c \in Nat /\ q.lpOut = UnmintAmount(c, V, vault[dst].supply) /\ q.lpOut \in Nat
      /\ q.lpOut < poolLp[dst]
      /\ q.out = AmountByShare(q.lpOut, V, vault[dst].supply) /\ q.out \in Nat
  BY <1>1, <1>2, TsQuoteOut
<1>5. /\ U \in Nat \ {0} /\ vault[src].supply \in Nat \ {0} /\ S \in Nat
      /\ V \in Nat \ {0} /\ vault[dst].supply \in Nat \ {0} /\ D \in Nat
      /\ poolLp[dst] \in 0 .. vault[dst].supply /\ poolLp[src] \in Nat
      /\ D = AmountByShare(poolLp[dst], V, vault[dst].supply)
  BY <1>1, <1>2, BooksOfSide DEF TokenAmount
<1>6. /\ st.time = time
      /\ UnlockedAmount(st.vault[src], time) = U + net
      /\ UnlockedAmount(st.vault[dst], time) = V - q.out
      /\ st.vault[src].supply = vault[src].supply + q.lpIn
      /\ st.vault[dst].supply = vault[dst].supply - q.lpOut
      /\ st.poolLp[src] = poolLp[src] + q.lpIn
      /\ st.poolLp[dst] = poolLp[dst] - q.lpOut
  BY AfterSwapUnlocked
<1> HIDE DEF q, st, net, U, V, S, D, c, dst
<1>7. TokenAmount(st, src) = after
  <2>1. poolLp[src] + q.lpIn = q.lpIn + poolLp[src]
    BY <1>3, <1>5
  <2> QED
    BY <1>6, <2>1 DEF TokenAmount
<1>8. S + q.curveIn + q.fee = after
  <2> HIDE DEF after
  <2> QED
    BY <1>3, <1>5
<1>9. TokenAmount(st, dst)
         = AmountByShare(poolLp[dst] - q.lpOut, V - q.out, vault[dst].supply - q.lpOut)
  BY <1>6 DEF TokenAmount
<1>10. TokenAmount(st, dst) \in Nat /\ TokenAmount(st, dst) >= D - c
  <2> DEFINE P == vault[dst].supply
             p == poolLp[dst]
  <2>1. /\ V \in Nat \ {0} /\ P \in Nat \ {0} /\ p \in 0 .. P /\ c \in Nat
        /\ UnmintAmount(c, V, P) < p
    BY <1>4, <1>5
  <2> HIDE DEF P, p
  <2>2. LET l == UnmintAmount(c, V, P)
            o == AmountByShare(l, V, P)
        IN  /\ AmountByShare(p - l, V - o, P - l) \in Nat
            /\ AmountByShare(p - l, V - o, P - l) >= AmountByShare(p, V, P) - c
    BY <2>1, WithdrawalValue
  <2> QED
    BY <1>4, <1>5, <1>9, <2>2 DEF P, p
<1> QED
  BY <1>3, <1>5, <1>7, <1>8, <1>10 DEF q, st, S, D, c, dst

\* A swap keeps the product of the pool's two token amounts: what the curve is given is in
\* the pool afterwards, and no more than what it gives has left.
LEMMA SwapKeepsProduct ==
    ASSUME TypeOK, NEW src \in Sides, NEW amount \in Nat, NEW w,
           TsQuote(Snapshot, src, amount, w).ok, TsQuote(Snapshot, src, amount, w).curveIn >= 0
    PROVE  LET st == AfterSwap(Snapshot, src, amount, TsQuote(Snapshot, src, amount, w))
           IN  TokenAmount(st, "A") * TokenAmount(st, "B") >= PoolProduct
<1> DEFINE dst == Other(src)
           q == TsQuote(Snapshot, src, amount, w)
           st == AfterSwap(Snapshot, src, amount, q)
           S == TokenAmount(Snapshot, src)
           D == TokenAmount(Snapshot, dst)
           x == q.curveIn
           c == CurveOut(x, S, D)
           T == TokenAmount(st, src)
           E == TokenAmount(st, dst)
<1>1. /\ S \in Nat /\ D \in Nat /\ T \in Nat /\ E \in Nat
      /\ T = S + x + q.fee /\ E >= D - c
  BY AfterSwapTokens
<1>2. Books(Snapshot)
  BY TypeGivesBooks
<1>3. x \in Int /\ x >= 0 /\ q.fee \in Nat
  BY <1>2, TsQuoteIn
<1>4. c # 0
  BY TsQuoteParts
<1> HIDE DEF q, st, S, D, x, T, E
<1>5. (D - c) * (S + x) >= S * D /\ c \in Int /\ c <= D /\ S + x \in Nat
  BY <1>1, <1>3, <1>4, CurveKeepsProduct
<1> HIDE DEF c
<1>6. (D - c) * (S + x) <= E * (S + x)
  <2>1. D - c \in Int
    BY <1>1, <1>5
  <2> QED
    BY <1>1, <1>5, <2>1, ProductMono
<1>7. E * (S + x) <= E * T
  <2>1. S + x <= T
    BY <1>1, <1>3
  <2> QED
    BY <1>1, <1>3, <1>5, <2>1, ProductMono
<1>8. E * T >= S * D
  <2>1. (D - c) * (S + x) \in Int /\ E * (S + x) \in Int /\ E * T \in Int /\ S * D \in Int
    BY <1>1, <1>5, Z3
  <2> QED
    BY <1>5, <1>6, <1>7, <2>1
<1>9. E * T = T * E /\ S * D = D * S
  BY <1>1, Z3
<1>10. \/ src = "A" /\ Other(src) = "B"
       \/ src = "B" /\ Other(src) = "A"
  BY TwoSides
<1>11. CASE src = "A"
  <2>1. dst = "B"
    BY <1>10, <1>11
  <2>2. T = TokenAmount(st, "A") /\ E = TokenAmount(st, "B") /\ PoolProduct = S * D
    BY <1>11, <2>1 DEF T, E, S, D, PoolProduct
  <2> QED
    BY <1>8, <1>9, <2>2 DEF q, st
<1>12. CASE src = "B"
  <2>1. dst = "A"
    BY <1>10, <1>12
  <2>2. T = TokenAmount(st, "B") /\ E = TokenAmount(st, "A") /\ PoolProduct = D * S
    BY <1>12, <2>1 DEF T, E, S, D, PoolProduct
  <2> QED
    BY <1>8, <1>9, <2>2 DEF q, st
<1> QED
  BY <1>10, <1>11, <1>12

\* What a vault earns is locked when it is reported: nobody's part grows at once.
LEMMA ReportKeepsUnlocked ==
    ASSUME TypeOK, NEW x \in Sides, NEW profit \in Profits, Report(x, profit)
    PROVE  /\ vault' \in [Sides -> VaultRecord]
           /\ \A y \in Sides :
                 /\ vault'[y].supply = vault[y].supply /\ vault'[y].report <= time'
                 /\ vault'[y].total >= vault[y].total
                 /\ UnlockedAmount(vault'[y], time') = UnlockedAmount(vault[y], time)
<1> DEFINE L == LockedProfit(vault[x], time)
<1>1. /\ vault \in [Sides -> VaultRecord] /\ time \in Nat
      /\ \A y \in Sides : vault[y].report <= time
      /\ profit \in Nat /\ time' = time
  BY BoundsAssumption, Z3 DEF TypeOK, VaultRecord, Report
<1>2. \A y \in Sides : /\ vault[y].total \in Nat /\ vault[y].supply \in Nat
                       /\ vault[y].locked \in Nat /\ vault[y].report \in Nat
                       /\ LockedProfit(vault[y], time) \in Nat
  BY <1>1, LockedProfitFalls DEF VaultRecord
<1>3. vault' = [vault EXCEPT ![x] = [vault[x] EXCEPT !.total = vault[x].total + profit,
                                        !.locked = L + profit, !.report = time]]
  BY DEF Report
<1> HIDE DEF L
<1>4. /\ vault'[x].total = vault[x].total + profit /\ vault'[x].supply = vault[x].supply
      /\ vault'[x].locked = L + profit /\ vault'[x].report = time
      /\ \A y \in Sides : y # x => vault'[y] = vault[y]
  BY <1>1, <1>3 DEF VaultRecord
<1>5. vault' \in [Sides -> VaultRecord]
  <2>1. L \in Nat
    BY <1>2 DEF L
  <2>2. ASSUME NEW v \in VaultRecord, NEW n \in Nat, NEW m \in Nat
        PROVE  [v EXCEPT !.total = n, !.locked = m, !.report = time] \in VaultRecord
    BY <1>1 DEF VaultRecord
  <2>3. vault[x].total + profit \in Nat /\ L + profit \in Nat /\ vault[x] \in VaultRecord
    BY <1>1, <1>2, <2>1
  <2>4. [vault[x] EXCEPT !.total = vault[x].total + profit,
                         !.locked = L + profit, !.report = time] \in VaultRecord
    BY <2>2, <2>3
  <2> QED
    BY <1>1, <1>3, <2>4
<1>6. UnlockedAmount(vault'[x], time) = UnlockedAmount(vault[x], time)
  <2>1. vault'[x] \in VaultRecord
    BY <1>5
  <2> DEFINE v == vault'[x]
  <2> HIDE DEF v
  <2>2. LockedProfit(v, time) = v.locked
    <3>1. v \in VaultRecord /\ v.report = time
      BY <1>4, <2>1 DEF v
    <3> QED
      BY <1>1, <3>1, LockedProfitFalls
  <2>3. v.total - v.locked = vault[x].total - L
    BY <1>1, <1>2, <1>4 DEF v, L
  <2> QED
    BY <2>2, <2>3 DEF UnlockedAmount, v, L
<1> QED
  BY <1>1, <1>2, <1>4, <1>5, <1>6

\* As time passes locked profit unlocks: no vault has less unlocked than before.
LEMMA TickUnlocks ==
    ASSUME TypeOK, Tick, NEW y \in Sides
    PROVE  /\ vault'[y] = vault[y]
           /\ UnlockedAmount(vault[y], time') \in UnlockedAmount(vault[y], time) .. vault[y].total
<1>1. /\ vault[y] \in VaultRecord /\ time \in Nat /\ vault[y].report <= time
      /\ time' = time + 1 /\ vault' = vault
  BY Z3 DEF TypeOK, VaultRecord, Tick
<1>2. /\ LockedProfit(vault[y], time) \in Nat
      /\ LockedProfit(vault[y], time + 1) \in 0 .. LockedProfit(vault[y], time)
      /\ vault[y].total \in Nat
  <2>1. /\ LockedProfit(vault[y], time) \in 0 .. vault[y].locked /\ vault[y].locked \in Nat
        /\ LockedProfit(vault[y], time + 1) \in 0 .. LockedProfit(vault[y], time)
    BY <1>1, LockedProfitFalls DEF VaultRecord
  <2> QED
    BY <1>1, <2>1 DEF VaultRecord
<1> QED
  BY <1>1, <1>2 DEF UnlockedAmount

\* The initial vaults have nothing locked.
LEMMA InitType == Init => TypeOK
<1> SUFFICES ASSUME Init PROVE TypeOK
  OBVIOUS
<1>1. PICK a \in Totals, b \in Totals :
          vault = [x \in Sides |-> [total |-> IF x = "A" THEN a ELSE b,
                                    supply |-> LpSupply, locked |-> 0, report |-> 0]]
  BY DEF Init
<1>2. /\ a \in Nat \ {0} /\ b \in Nat \ {0} /\ LpSupply \in Nat \ {0}
      /\ PoolShare \in 1 .. LpSupply /\ InitReserve \in Nat /\ InitReserve <= a
      /\ InitReserve <= b /\ MaxTime \in Nat /\ MaxSteps \in Nat
  BY BoundsAssumption
<1>3. /\ time = 0 /\ enabled = TRUE /\ steps = 0
      /\ poolLp = [x \in Sides |-> PoolShare] /\ reserve = [x \in Sides |-> InitReserve]
      /\ collected = [x \in Sides |-> 0]
  BY DEF Init
<1>4. \A x \in Sides :
          /\ vault[x].total \in Nat \ {0} /\ vault[x].supply = LpSupply
          /\ vault[x].locked = 0 /\ vault[x].report = 0
          /\ InitReserve <= vault[x].total
  BY <1>1, <1>2
<1>5. vault \in [Sides -> VaultRecord]
  BY <1>1, <1>2 DEF VaultRecord
<1>6. ASSUME NEW x \in Sides
      PROVE  UnlockedAmount(vault[x], time) \in 1 .. vault[x].total
  <2>1. LockedProfit(vault[x], 0) = 0
    BY <1>4, <1>5, LockedProfitFalls
  <2> QED
    BY <1>3, <1>4, <2>1 DEF UnlockedAmount
<1>7. /\ time \in 0 .. MaxTime /\ enabled \in BOOLEAN /\ steps \in 0 .. MaxSteps
      /\ poolLp \in [Sides -> Nat] /\ reserve \in [Sides -> Nat] /\ collected \in [Sides -> Nat]
  BY <1>2, <1>3
<1>8. \A x \in Sides : /\ vault[x].supply > 0 /\ vault[x].report <= time
                       /\ poolLp[x] <= vault[x].supply /\ reserve[x] <= vault[x].total
  BY <1>2, <1>3, <1>4
<1> QED
  BY <1>5, <1>6, <1>7, <1>8 DEF TypeOK, VaultRecord

\* A landed swap keeps the books.
LEMMA SwapType ==
    ASSUME TypeOK, NEW src \in Sides, NEW amount \in Amounts, NEW w \in BOOLEAN,
           Swap(src, amount, w)
    PROVE  TypeOK'
<1> DEFINE q == TsQuote(Snapshot, src, amount, w)
           st == AfterSwap(Snapshot, src, amount, q)
<1>1. /\ q.ok /\ q.curveIn >= 0 /\ Step /\ time' = time /\ enabled' = enabled
      /\ vault' = st.vault /\ poolLp' = st.poolLp /\ reserve' = st.reserve
      /\ collected' = [collected EXCEPT ![src] = @ + q.protocol]
  BY DEF Swap, Traded
<1>2. amount \in Nat
  BY BoundsAssumption
<1>3. Books(st) /\ st.time = time
  BY <1>1, <1>2, AfterSwapUnlocked
<1>4. q.protocol \in Nat
  <2>1. Books(Snapshot)
    BY TypeGivesBooks
  <2> QED
    BY <1>2, <2>1, TsQuoteIn
<1> HIDE DEF st, q
<1>5. collected' \in [Sides -> Nat]
  BY <1>1, <1>4 DEF TypeOK
<1>6. time' \in 0 .. MaxTime /\ enabled' \in BOOLEAN /\ steps' \in 0 .. MaxSteps
  BY <1>1, BoundsAssumption DEF TypeOK, Step
<1> QED
  BY <1>1, <1>3, <1>5, <1>6 DEF Books, TypeOK, VaultRecord

\* Every step keeps the books.
LEMMA NextType == TypeOK /\ [Next]_vars => TypeOK'
<1> SUFFICES ASSUME TypeOK, [Next]_vars PROVE TypeOK'
  OBVIOUS
<1> USE BoundsAssumption
<1>1. ASSUME NEW src \in Sides, NEW amount \in Amounts, NEW w \in BOOLEAN, Swap(src, amount, w)
      PROVE  TypeOK'
  BY <1>1, SwapType
<1>2. ASSUME NEW enable \in BOOLEAN, EnableOrDisablePool(enable)
      PROVE  TypeOK'
  BY <1>2 DEF EnableOrDisablePool, Step, TypeOK
<1>3. ASSUME NEW x \in Sides, NEW profit \in Profits, Report(x, profit)
      PROVE  TypeOK'
  <2>1. /\ vault' \in [Sides -> VaultRecord]
        /\ \A y \in Sides :
              /\ vault'[y].supply = vault[y].supply /\ vault'[y].report <= time'
              /\ vault'[y].total >= vault[y].total
              /\ UnlockedAmount(vault'[y], time') = UnlockedAmount(vault[y], time)
    BY <1>3, ReportKeepsUnlocked
  <2>2. /\ time' = time /\ enabled' = enabled /\ poolLp' = poolLp /\ reserve' = reserve
        /\ collected' = collected /\ steps' \in 0 .. MaxSteps
    BY <1>3 DEF Report, Step, TypeOK
  <2>3. \A y \in Sides : vault[y].total \in Nat /\ vault'[y].total \in Nat
                         /\ reserve[y] \in Nat /\ poolLp[y] \in Nat
    BY <2>1 DEF TypeOK, VaultRecord
  <2>4. \A y \in Sides : /\ vault'[y].supply > 0 /\ poolLp[y] <= vault'[y].supply
                         /\ UnlockedAmount(vault'[y], time') \in 1 .. vault'[y].total
                         /\ reserve[y] <= vault'[y].total
    BY <2>1, <2>3 DEF TypeOK
  <2> QED
    BY <2>1, <2>2, <2>4 DEF TypeOK, VaultRecord
<1>4. ASSUME NEW x \in Sides, Rebalance(x)
      PROVE  TypeOK'
  <2>1. PICK r \in {0, InitReserve, vault[x].total} :
              r <= vault[x].total /\ reserve' = [reserve EXCEPT ![x] = r]
    BY <1>4 DEF Rebalance
  <2>2. /\ time' = time /\ enabled' = enabled /\ poolLp' = poolLp /\ vault' = vault
        /\ collected' = collected /\ steps' \in 0 .. MaxSteps
    BY <1>4 DEF Rebalance, Step, TypeOK
  <2>3. r \in Nat
    BY <2>1 DEF TypeOK
  <2>4. reserve' \in [Sides -> Nat] /\ \A y \in Sides : reserve'[y] <= vault[y].total
    BY <2>1, <2>3 DEF TypeOK
  <2> QED
    BY <2>2, <2>4 DEF TypeOK
<1>5. CASE Tick
  <2>1. \A y \in Sides :
            UnlockedAmount(vault[y], time') \in UnlockedAmount(vault[y], time) .. vault[y].total
    BY <1>5, TickUnlocks
  <2>2. /\ time' \in 0 .. MaxTime /\ time <= time'
        /\ vault' = vault /\ poolLp' = poolLp /\ reserve' = reserve /\ enabled' = enabled
        /\ collected' = collected /\ steps' = steps /\ time \in Nat /\ time' \in Nat
    BY <1>5 DEF Tick, TypeOK
  <2>3. \A y \in Sides : /\ UnlockedAmount(vault[y], time') \in 1 .. vault[y].total
                         /\ vault[y].report <= time'
    BY <2>1, <2>2 DEF TypeOK
  <2> QED
    BY <2>2, <2>3 DEF TypeOK
<1>6. CASE UNCHANGED vars
  BY <1>6 DEF vars, TypeOK
<1> QED
  BY <1>1, <1>2, <1>3, <1>4, <1>5, <1>6 DEF Next

\* The books of the pool and its vaults stay in range, whatever the fees, the vaults, the
\* amounts and the order of swaps, reports and rebalances.
THEOREM TypeCorrect == Spec => []TypeOK
<1>1. Init => TypeOK
  BY InitType
<1>2. TypeOK /\ [Next]_vars => TypeOK'
  BY NextType
<1> QED
  BY <1>1, <1>2, PTL DEF Spec

\* No step lowers what an LP token of a vault stands for: a swap's deposit and withdrawal
\* leave it at least what it was, a report locks all the profit, and time only unlocks it.
LEMMA StepKeepsVaultShares == TypeOK /\ [Next]_vars => KeepsVaultShares
<1> SUFFICES ASSUME TypeOK, [Next]_vars, NEW x \in Sides
             PROVE  UnlockedAmount(vault'[x], time') * vault[x].supply
                       >= UnlockedAmount(vault[x], time) * vault'[x].supply
  BY DEF KeepsVaultShares
<1> DEFINE U == UnlockedAmount(vault[x], time)
           P == vault[x].supply
<1>1. Books(Snapshot)
  BY TypeGivesBooks
<1>2. U \in Nat \ {0} /\ P \in Nat \ {0} /\ poolLp[x] \in 0 .. P
  BY <1>1, BooksOfSide DEF Snapshot
<1>3. U * P \in Nat
  BY <1>2, ProductNat
<1> SUFFICES UnlockedAmount(vault'[x], time') * P >= U * vault'[x].supply
  OBVIOUS
<1> HIDE DEF U, P
<1>4. ASSUME NEW src \in Sides, NEW amount \in Amounts, NEW w \in BOOLEAN, Swap(src, amount, w)
      PROVE  UnlockedAmount(vault'[x], time') * P >= U * vault'[x].supply
  <2> DEFINE q == TsQuote(Snapshot, src, amount, w)
             st == AfterSwap(Snapshot, src, amount, q)
             net == amount - q.protocol
  <2>1. q.ok /\ q.curveIn >= 0 /\ time' = time /\ vault' = st.vault
    BY <1>4 DEF Swap, Traded
  <2>2. amount \in Nat
    BY BoundsAssumption
  <2>3. CASE x = src
    <3>1. /\ UnlockedAmount(vault'[x], time') = U + net
          /\ vault'[x].supply = P + q.lpIn
      BY <2>1, <2>2, <2>3, AfterSwapUnlocked DEF U, P
    <3>2. q.lpIn = UnmintAmount(net, U, P) /\ net \in Nat
      BY <1>1, <2>2, <2>3, TsQuoteIn DEF Snapshot, U, P
    <3>3. (U + net) * P >= U * (P + UnmintAmount(net, U, P))
      BY <1>2, <3>2, DepositKeepsSharePrice
    <3> QED
      BY <3>1, <3>2, <3>3
  <2>4. CASE x # src
    <3>1. x = Other(src)
      BY <2>4, TwoSides DEF Sides
    <3>2. /\ UnlockedAmount(vault'[x], time') = U - q.out
          /\ vault'[x].supply = P - q.lpOut
      BY <2>1, <2>2, <3>1, AfterSwapUnlocked DEF U, P
    <3>3. q.lpOut \in Nat /\ q.lpOut < poolLp[x] /\ q.out = AmountByShare(q.lpOut, U, P)
      BY <1>1, <2>1, <2>2, <3>1, TsQuoteOut DEF Snapshot, U, P
    <3>4. q.lpOut \in 0 .. P
      BY <1>2, <3>3
    <3>5. (U - AmountByShare(q.lpOut, U, P)) * P >= U * (P - q.lpOut)
      <4> HIDE DEF q
      <4> QED
        BY <1>2, <3>4, WithdrawalKeepsSharePrice
    <3> QED
      BY <3>2, <3>3, <3>5
  <2> QED
    BY <2>3, <2>4
<1>5. ASSUME NEW enable \in BOOLEAN, EnableOrDisablePool(enable)
      PROVE  UnlockedAmount(vault'[x], time') * P >= U * vault'[x].supply
  <2>1. vault' = vault /\ time' = time
    BY <1>5 DEF EnableOrDisablePool
  <2> QED
    BY <1>3, <2>1 DEF U, P
<1>6. ASSUME NEW y \in Sides, NEW profit \in Profits, Report(y, profit)
      PROVE  UnlockedAmount(vault'[x], time') * P >= U * vault'[x].supply
  <2>1. UnlockedAmount(vault'[x], time') = U /\ vault'[x].supply = P
    BY <1>6, ReportKeepsUnlocked DEF U, P
  <2> QED
    BY <1>3, <2>1
<1>7. ASSUME NEW y \in Sides, Rebalance(y)
      PROVE  UnlockedAmount(vault'[x], time') * P >= U * vault'[x].supply
  <2>1. vault' = vault /\ time' = time
    BY <1>7 DEF Rebalance
  <2> QED
    BY <1>3, <2>1 DEF U, P
<1>8. CASE Tick
  <2>1. /\ vault'[x] = vault[x] /\ vault[x].total \in Nat
        /\ UnlockedAmount(vault[x], time') \in U .. vault[x].total
    BY <1>8, TickUnlocks DEF U, TypeOK
  <2>2. /\ UnlockedAmount(vault'[x], time') \in Nat
        /\ U <= UnlockedAmount(vault'[x], time') /\ vault'[x].supply = P
    BY <1>2, <2>1 DEF P
  <2>3. U * P <= UnlockedAmount(vault'[x], time') * P
        /\ UnlockedAmount(vault'[x], time') * P \in Nat
    BY <1>2, <2>2, ProductMono, ProductNat
  <2> QED
    BY <1>3, <2>2, <2>3
<1>9. CASE UNCHANGED vars
  <2>1. vault' = vault /\ time' = time
    BY <1>9 DEF vars
  <2> QED
    BY <1>3, <2>1 DEF U, P
<1> QED
  BY <1>4, <1>5, <1>6, <1>7, <1>8, <1>9 DEF Next

\* The pool's deposits and withdrawals are never paid by the vault's other depositors.
THEOREM VaultSharesNeverDilutedHolds == Spec => VaultSharesNeverDiluted
<1>1. TypeOK /\ [Next]_vars => KeepsVaultShares
  BY StepKeepsVaultShares
<1>2. Spec => []TypeOK
  BY TypeCorrect
<1> QED
  BY <1>1, <1>2, PTL DEF Spec, VaultSharesNeverDiluted

\* A pool that keeps its LP tokens in vaults that keep their LP supply owns at least what
\* it did if the vaults have at least as much unlocked.
LEMMA MoreUnlockedIsMore ==
    ASSUME NEW U \in Nat, NEW V \in Nat, NEW P \in Nat \ {0}, NEW p \in Nat, U <= V
    PROVE  AmountByShare(p, U, P) \in Nat /\ AmountByShare(p, U, P) <= AmountByShare(p, V, P)
           /\ AmountByShare(p, V, P) \in Nat
<1>1. p * U <= p * V /\ p * U \in Nat /\ p * V \in Nat
  BY ProductMono, ProductNat
<1> QED
  BY <1>1, DivMono, DivNat DEF AmountByShare

\* No step lowers the product of the pool's two token amounts.
LEMMA StepKeepsPoolProduct == TypeOK /\ [Next]_vars => KeepsPoolProduct
<1> SUFFICES ASSUME TypeOK, [Next]_vars PROVE PoolProduct' >= PoolProduct
  BY DEF KeepsPoolProduct
<1>1. Books(Snapshot)
  BY TypeGivesBooks
<1>2. ASSUME \A x \in Sides :
                /\ vault'[x].supply = vault[x].supply /\ poolLp'[x] = poolLp[x]
                /\ UnlockedAmount(vault'[x], time') \in Nat
                /\ UnlockedAmount(vault'[x], time') >= UnlockedAmount(vault[x], time)
      PROVE  PoolProduct' >= PoolProduct
  <2>1. \A x \in Sides : TokenAmount(Snapshot, x) \in Nat
    BY <1>1, BooksOfSide
  <2>2. ASSUME NEW x \in Sides
        PROVE  TokenAmount(Snapshot', x) \in Nat
               /\ TokenAmount(Snapshot', x) >= TokenAmount(Snapshot, x)
    <3>1. /\ UnlockedAmount(vault[x], time) \in Nat /\ vault[x].supply \in Nat \ {0}
          /\ poolLp[x] \in Nat
      BY <1>1, BooksOfSide DEF Snapshot
    <3>2. TokenAmount(Snapshot, x)
             = AmountByShare(poolLp[x], UnlockedAmount(vault[x], time), vault[x].supply)
      BY DEF TokenAmount, Snapshot
    <3>3. TokenAmount(Snapshot', x)
             = AmountByShare(poolLp[x], UnlockedAmount(vault'[x], time'), vault[x].supply)
      BY <1>2 DEF TokenAmount, Snapshot
    <3> DEFINE U == UnlockedAmount(vault[x], time)
               V == UnlockedAmount(vault'[x], time')
               P == vault[x].supply
    <3>4. U \in Nat /\ V \in Nat /\ P \in Nat \ {0} /\ U <= V
      BY <1>2, <3>1
    <3> HIDE DEF U, V, P
    <3>5. /\ AmountByShare(poolLp[x], U, P) <= AmountByShare(poolLp[x], V, P)
          /\ AmountByShare(poolLp[x], U, P) \in Nat /\ AmountByShare(poolLp[x], V, P) \in Nat
      BY <3>1, <3>4, MoreUnlockedIsMore
    <3> QED
      BY <3>2, <3>3, <3>5 DEF U, V, P
  <2> DEFINE a == TokenAmount(Snapshot, "A")
             b == TokenAmount(Snapshot, "B")
             c == TokenAmount(Snapshot', "A")
             d == TokenAmount(Snapshot', "B")
  <2>3. a \in Nat /\ b \in Nat /\ c \in Nat /\ d \in Nat /\ a <= c /\ b <= d
    BY <2>1, <2>2 DEF Sides
  <2>4. PoolProduct = a * b /\ PoolProduct' = c * d
    BY DEF PoolProduct
  <2> HIDE DEF a, b, c, d
  <2>5. a * b <= c * b /\ c * b <= c * d /\ a * b \in Nat /\ c * b \in Nat /\ c * d \in Nat
    BY <2>3, ProductMono, ProductNat
  <2> QED
    BY <2>4, <2>5
<1>3. ASSUME NEW src \in Sides, NEW amount \in Amounts, NEW w \in BOOLEAN, Swap(src, amount, w)
      PROVE  PoolProduct' >= PoolProduct
  <2> DEFINE q == TsQuote(Snapshot, src, amount, w)
             st == AfterSwap(Snapshot, src, amount, q)
  <2>1. /\ q.ok /\ q.curveIn >= 0 /\ time' = time /\ vault' = st.vault
        /\ poolLp' = st.poolLp
    BY <1>3 DEF Swap, Traded
  <2>2. amount \in Nat
    BY BoundsAssumption
  <2>3. TokenAmount(st, "A") * TokenAmount(st, "B") >= PoolProduct /\ st.time = time
    BY <2>1, <2>2, SwapKeepsProduct, AfterSwapUnlocked
  <2> HIDE DEF st
  <2>4. \A x : TokenAmount(Snapshot', x) = TokenAmount(st, x)
    BY <2>1, <2>3 DEF TokenAmount, Snapshot
  <2>5. PoolProduct' = TokenAmount(Snapshot', "A") * TokenAmount(Snapshot', "B")
    BY DEF PoolProduct
  <2> QED
    BY <2>3, <2>4, <2>5
<1>4. ASSUME UNCHANGED <<time, vault, poolLp>>
      PROVE  PoolProduct' >= PoolProduct
  <2>1. \A x \in Sides : UnlockedAmount(vault[x], time) \in Nat
    BY <1>1, BooksOfSide DEF Snapshot
  <2> QED
    BY <1>2, <1>4, <2>1
<1>5. ASSUME NEW enable \in BOOLEAN, EnableOrDisablePool(enable)
      PROVE  PoolProduct' >= PoolProduct
  BY <1>4, <1>5 DEF EnableOrDisablePool
<1>6. ASSUME NEW y \in Sides, NEW profit \in Profits, Report(y, profit)
      PROVE  PoolProduct' >= PoolProduct
  <2>1. \A x \in Sides : /\ UnlockedAmount(vault'[x], time') = UnlockedAmount(vault[x], time)
                         /\ vault'[x].supply = vault[x].supply
    BY <1>6, ReportKeepsUnlocked
  <2>2. poolLp' = poolLp
    BY <1>6 DEF Report
  <2>3. \A x \in Sides : UnlockedAmount(vault[x], time) \in Nat
    BY <1>1, BooksOfSide DEF Snapshot
  <2> QED
    BY <1>2, <2>1, <2>2, <2>3
<1>7. ASSUME NEW y \in Sides, Rebalance(y)
      PROVE  PoolProduct' >= PoolProduct
  BY <1>4, <1>7 DEF Rebalance
<1>8. CASE Tick
  <2>1. \A x \in Sides :
            /\ vault'[x] = vault[x] /\ vault[x].total \in Nat
            /\ UnlockedAmount(vault[x], time) \in Nat
            /\ UnlockedAmount(vault[x], time')
                  \in UnlockedAmount(vault[x], time) .. vault[x].total
    BY <1>1, <1>8, TickUnlocks, BooksOfSide DEF Snapshot, TypeOK
  <2>2. poolLp' = poolLp
    BY <1>8 DEF Tick
  <2>3. \A x \in Sides : /\ UnlockedAmount(vault'[x], time') \in Nat
                         /\ UnlockedAmount(vault'[x], time') >= UnlockedAmount(vault[x], time)
    BY <2>1
  <2> QED
    BY <1>2, <2>1, <2>2, <2>3
<1>9. CASE UNCHANGED vars
  BY <1>4, <1>9 DEF vars
<1> QED
  BY <1>3, <1>5, <1>6, <1>7, <1>8, <1>9 DEF Next

\* All the roundings between a swap and the two vaults go the pool's way, in pools, vaults
\* and swaps of any size.
THEOREM PoolProductNeverFallsHolds == Spec => PoolProductNeverFalls
<1>1. TypeOK /\ [Next]_vars => KeepsPoolProduct
  BY StepKeepsPoolProduct
<1>2. Spec => []TypeOK
  BY TypeCorrect
<1> QED
  BY <1>1, <1>2, PTL DEF Spec, PoolProductNeverFalls

(***************************************************************************)
(* Two quotes.                                                             *)
(***************************************************************************)

\* A quote never promises more than the curve gives, and nothing if that is negative.
LEMMA OutWithinCurve ==
    ASSUME NEW V \in Nat \ {0}, NEW P \in Nat \ {0}, NEW c \in Int
    PROVE  LET o == BNDiv(BNDiv(c * P, V) * V, P)
           IN  o \in Int /\ (c >= 0 => o <= c) /\ (c < 0 => o <= 0)
<1> DEFINE l == BNDiv(c * P, V)
           o == BNDiv(l * V, P)
<1>1. CASE c >= 0
  <2>1. c \in Nat /\ c * P \in Nat
    BY <1>1, ProductNat
  <2> DEFINE n == c * P
  <2> HIDE DEF n
  <2>2. n \div V \in Nat /\ V * (n \div V) <= n
    BY <2>1, DivNat, DivBounds DEF n
  <2>3. l = n \div V
    BY <2>1 DEF BNDiv, n
  <2> HIDE DEF l
  <2>4. l \in Nat /\ V * l <= c * P
    BY <2>2, <2>3 DEF n
  <2>5. l * V \in Nat
    BY <2>4, ProductNat
  <2> DEFINE k == l * V
  <2> HIDE DEF k
  <2>6. k \in Nat /\ k \div P \in Nat /\ P * (k \div P) <= k
    BY <2>5, DivNat, DivBounds DEF k
  <2>7. o = k \div P
    BY <2>5 DEF BNDiv, k
  <2> HIDE DEF o
  <2>8. o \in Nat /\ P * o <= l * V
    BY <2>6, <2>7 DEF k
  <2>9. l * V = V * l /\ c * P = P * c /\ P * o \in Int /\ P * c \in Int /\ V * l \in Int
    BY <2>1, <2>4, <2>8, Z3
  <2>10. P * o <= P * c
    BY <2>4, <2>8, <2>9
  <2>11. o <= c
    BY <2>8, <2>10, Cancel
  <2> QED
    BY <1>1, <2>8, <2>11 DEF o, l
<1>2. CASE c < 0
  <2>1. -(c * P) \in Nat /\ ~(c * P >= 0) /\ c * P \in Int
    <3>1. -c \in Nat /\ (-c) * P \in Nat /\ -c > 0
      BY <1>2, ProductNat
    <3>2. (-c) * P > 0
      BY <3>1, Z3
    <3>3. (-c) * P = -(c * P) /\ c * P \in Int
      BY Z3
    <3> QED
      BY <3>1, <3>2, <3>3
  <2> DEFINE n == -(c * P)
  <2>2. l = -(n \div V)
    BY <2>1 DEF BNDiv
  <2> HIDE DEF n
  <2>3. n \div V \in Nat
    BY <2>1, DivNat DEF n
  <2> HIDE DEF l
  <2>4. -l \in Nat /\ l \in Int
    BY <2>2, <2>3
  <2> DEFINE k == -(l * V)
  <2>5. k \in Nat /\ l * V \in Int
    <3>1. (-l) * V \in Nat /\ (-l) * V = -(l * V) /\ l * V \in Int
      BY <2>4, ProductNat, Z3
    <3> QED
      BY <3>1
  <2>6. o = -(k \div P) \/ (k = 0 /\ l * V = 0 /\ o = (l * V) \div P)
    BY <2>5 DEF BNDiv
  <2> HIDE DEF k, o
  <2>7. k \div P \in Nat
    BY <2>5, DivNat
  <2>8. 0 \div P = 0
    BY Z3
  <2>9. o \in Int /\ o <= 0
    BY <2>6, <2>7, <2>8
  <2> QED
    BY <1>2, <2>9 DEF o, l
<1> QED
  BY <1>1, <1>2

\* Through the curve and straight back: where x of S gave c of D, giving back at most c to
\* what is left of D takes at most what came in, the pool's fee f of the way in included.
LEMMA CurveThereAndBack ==
    ASSUME NEW S \in Nat, NEW D \in Nat, NEW x \in Nat, NEW f \in Nat, NEW c \in Nat,
           NEW E \in Nat, NEW y \in Int, NEW b \in Int,
           c \in 1 .. D, c * (S + x) <= D * x,
           E >= D - c, y <= c, E + y > 0,
           b <= S + x + f, b * (E + y) <= (S + x + f) * y
    PROVE  b <= x + f
<1>1. CASE y <= 0
  <2>1. b * (E + y) <= 0
    <3>1. (S + x + f) * (-y) \in Nat /\ (S + x + f) * (-y) = -((S + x + f) * y)
      <4>1. S + x + f \in Nat /\ -y \in Nat
        BY <1>1
      <4> QED
        BY <4>1, ProductNat, Z3
    <3>2. b * (E + y) \in Int /\ (S + x + f) * y \in Int
      BY Z3
    <3> QED
      BY <3>1, <3>2
  <2>2. b <= 0
    <3> SUFFICES ASSUME b >= 1 PROVE FALSE
      OBVIOUS
    <3>1. 1 * (E + y) <= b * (E + y)
      BY ProductMono
    <3> QED
      BY <2>1, <3>1
  <2> QED
    BY <2>2
<1>2. CASE y > 0
  <2> DEFINE T == S + x + f
  <2>1. T \in Nat /\ y \in Nat /\ D - c \in Nat /\ E + y \in Nat
    BY <1>2
  <2>2. CASE b <= 0
    BY <2>2
  <2>3. CASE b > 0
    <3>0. b \in Nat /\ T - b \in Nat
      BY <2>1, <2>3
    <3>1. b * E <= (T - b) * y
      <4>1. b * (E + y) = b * E + b * y /\ (T - b) * y = T * y - b * y
            /\ b * E \in Int /\ b * y \in Int /\ T * y \in Int
        BY <2>1, Z3
      <4> HIDE DEF T
      <4> QED
        BY <4>1 DEF T
    <3> HIDE DEF T
    <3>2. (T - b) * y <= (T - b) * c
      BY <2>1, <3>0, ProductMono
    <3>3. b * (D - c) <= b * E
      BY <2>1, <3>0, ProductMono
    <3>4. b * D <= T * c
      <4>1. b * (D - c) = b * D - b * c /\ (T - b) * c = T * c - b * c
            /\ b * D \in Int /\ b * c \in Int /\ T * c \in Int
            /\ b * E \in Int /\ (T - b) * y \in Int
        BY <2>1, Z3
      <4> QED
        BY <3>1, <3>2, <3>3, <4>1
    <3>5. T * c = c * (S + x) + f * c /\ c * (S + x) \in Nat /\ f * c \in Nat
      <4>1. T * c = c * (S + x) + f * c
        BY Z3 DEF T
      <4> QED
        BY <4>1, ProductNat
    <3>6. f * c <= f * D
      BY ProductMono
    <3>7. D * (x + f) = D * x + f * D /\ D * x \in Nat /\ f * D \in Nat
      <4>1. D * (x + f) = D * x + f * D
        BY Z3
      <4> QED
        BY <4>1, ProductNat
    <3>8. b * D = D * b /\ D * b \in Int /\ D * (x + f) \in Int
      BY Z3
    <3>9. D * b <= D * (x + f)
      BY <3>4, <3>5, <3>6, <3>7, <3>8
    <3> QED
      BY <3>9, Cancel
  <2> QED
    BY <2>2, <2>3
<1> QED
  BY <1>1, <1>2

\* RoundTripNeverGains for one swap: the way back is quoted on the books that the swap leaves.
LEMMA RoundTrip ==
    ASSUME TypeOK, NEW src \in Sides, NEW amount \in Nat, NEW w, NEW u,
           TsQuote(Snapshot, src, amount, w).ok, TsQuote(Snapshot, src, amount, w).curveIn >= 0,
           TsQuote(Snapshot, src, amount, w).out > 0,
           NEW st, st = AfterSwap(Snapshot, src, amount, TsQuote(Snapshot, src, amount, w)),
           NEW back, back = TsQuote(st, Other(src), TsQuote(Snapshot, src, amount, w).out, u),
           back.ok
    PROVE  back.out <= amount
<1> DEFINE dst == Other(src)
           q == TsQuote(Snapshot, src, amount, w)
           S == TokenAmount(Snapshot, src)
           D == TokenAmount(Snapshot, dst)
           c == CurveOut(q.curveIn, S, D)
           T == TokenAmount(st, src)
           E == TokenAmount(st, dst)
           y == back.curveIn
           b == CurveOut(y, E, T)
           V == UnlockedAmount(st.vault[src], st.time)
           P == st.vault[src].supply
<1>1. Books(Snapshot) /\ Books(st)
  BY TypeGivesBooks, AfterSwapUnlocked
<1>2. /\ S \in Nat /\ D \in Nat /\ T \in Nat /\ E \in Nat
      /\ T = S + q.curveIn + q.fee /\ E >= D - c
  BY AfterSwapTokens
<1>3. /\ c # 0 /\ c \in Nat /\ q.curveIn \in Nat /\ q.out \in Nat /\ q.out <= c
  BY <1>1, TsQuoteOut
<1>4. q.fee \in Nat /\ q.curveIn + q.fee <= amount
  <2> DEFINE net == amount - q.protocol
             after == AmountByShare(q.lpIn + Snapshot.poolLp[src],
                         UnlockedAmount(Snapshot.vault[src], Snapshot.time) + net,
                         Snapshot.vault[src].supply + q.lpIn)
  <2>1. /\ q.protocol \in 0 .. amount /\ net \in Nat /\ q.fee \in Nat
        /\ q.curveIn = (after - S) - q.fee /\ after \in Nat /\ after <= S + net
    BY <1>1, TsQuoteIn
  <2> HIDE DEF after, q, S
  <2> QED
    BY <1>2, <2>1
<1>5. dst \in Sides /\ Other(dst) = src
  BY TwoSides DEF Sides
<1>6. y \in Int /\ y <= c
  <2> DEFINE net == q.out - back.protocol
             after == AmountByShare(back.lpIn + st.poolLp[dst],
                         UnlockedAmount(st.vault[dst], st.time) + net,
                         st.vault[dst].supply + back.lpIn)
  <2>1. /\ back.protocol \in 0 .. q.out /\ net \in Nat /\ back.fee \in Nat
        /\ y = (after - E) - back.fee /\ y \in Int /\ after \in Nat /\ after <= E + net
    BY <1>1, <1>3, <1>5, TsQuoteIn
  <2> HIDE DEF after, q, E, c, y
  <2> QED
    BY <1>2, <1>3, <2>1
<1>7. /\ b # 0 /\ back.lpOut = BNDiv(b * P, V) /\ back.out = BNDiv(back.lpOut * V, P)
  BY <1>5, TsQuoteParts
<1>8. V \in Nat \ {0} /\ P \in Nat \ {0}
  BY <1>1, BooksOfSide
<1> HIDE DEF q, S, D, T, E, y, V, P
<1>9. c \in 1 .. D /\ c * (S + q.curveIn) <= D * q.curveIn
  <2>1. c <= D /\ c * (S + q.curveIn) <= D * q.curveIn
    BY <1>2, <1>3, CurveKeepsProduct
  <2> QED
    BY <1>2, <1>3, <2>1
<1>10. E + y > 0 /\ b \in Int /\ b <= T /\ b * (E + y) <= T * y
  BY <1>2, <1>6, <1>7, CurveKeepsProduct
<1> HIDE DEF b, c
<1>11. b <= q.curveIn + q.fee
  BY <1>2, <1>3, <1>4, <1>6, <1>9, <1>10, CurveThereAndBack
<1>12. back.out \in Int /\ (b >= 0 => back.out <= b) /\ (b < 0 => back.out <= 0)
  BY <1>7, <1>8, <1>10, OutWithinCurve
<1> QED
  BY <1>3, <1>4, <1>10, <1>11, <1>12

\* Books in range are all that a swap there and back needs not to gain.
LEMMA TypeGivesRoundTrip == TypeOK => RoundTripNeverGains
<1> SUFFICES ASSUME TypeOK, NEW src \in Sides, NEW amount \in Amounts
             PROVE  LET q == TsQuote(Snapshot, src, amount, FALSE)
                        back == TsQuote(AfterSwap(Snapshot, src, amount, q), Other(src),
                                        q.out, FALSE)
                    IN  q.ok /\ q.curveIn >= 0 /\ q.out > 0 /\ back.ok => back.out <= amount
  BY DEF RoundTripNeverGains
<1>1. amount \in Nat
  BY BoundsAssumption
<1> QED
  BY <1>1, RoundTrip

\* Swapping and swapping the proceeds straight back never yields more than was put in, for
\* any fees, pool, vaults and amount.
THEOREM RoundTripNeverGainsHolds == Spec => []RoundTripNeverGains
<1>1. TypeOK => RoundTripNeverGains
  BY TypeGivesRoundTrip
<1>2. Spec => []TypeOK
  BY TypeCorrect
<1> QED
  BY <1>1, <1>2, PTL

\* The pool's part of a vault grows with what the pool deposits.
LEMMA DepositMono ==
    ASSUME NEW U \in Nat \ {0}, NEW P \in Nat \ {0}, NEW p \in 0 .. P,
           NEW n \in Nat, NEW k \in Nat, n <= k
    PROVE  AmountByShare(UnmintAmount(n, U, P) + p, U + n, P + UnmintAmount(n, U, P))
              <= AmountByShare(UnmintAmount(k, U, P) + p, U + k, P + UnmintAmount(k, U, P))
<1> DEFINE m == UnmintAmount(n, U, P)
           l == UnmintAmount(k, U, P)
           A == AmountByShare(m + p, U + n, P + m)
<1>1. m \in Nat /\ l \in Nat /\ m <= l
  <2>1. n * P \in Nat /\ k * P \in Nat /\ n * P <= k * P
    BY ProductNat, ProductMono
  <2> DEFINE a == n * P
             b == k * P
  <2> HIDE DEF a, b
  <2>2. a \in Nat /\ b \in Nat /\ a <= b
    BY <2>1 DEF a, b
  <2>3. a \div U \in Nat /\ b \div U \in Nat /\ a \div U <= b \div U
    BY <2>2, DivNat, DivMono
  <2> QED
    BY <2>3 DEF UnmintAmount, a, b
<1> HIDE DEF m, l
<1>2. /\ m + p \in Nat /\ l + p \in Nat /\ U + n \in Nat /\ U + k \in Nat
      /\ P + m \in Nat \ {0} /\ P + l \in Nat \ {0}
  BY <1>1
<1>3. /\ (m + p) * (U + n) \in Nat /\ (l + p) * (U + n) \in Nat
      /\ (l + p) * (U + k) \in Nat
  BY <1>2, ProductNat
<1>4. A \in Nat /\ (P + m) * A <= (m + p) * (U + n)
  <2> DEFINE v == (m + p) * (U + n)
  <2> HIDE DEF v
  <2>1. v \in Nat /\ A = v \div (P + m)
    BY <1>3 DEF v, AmountByShare
  <2> HIDE DEF A
  <2> DEFINE b == P + m
  <2> HIDE DEF b
  <2>2. b \in Nat \ {0} /\ A = v \div b
    BY <1>2, <2>1 DEF b
  <2>3. v \div b \in Nat
    BY <2>1, <2>2, DivNat
  <2>4. b * (v \div b) <= v
    BY <2>1, <2>2, DivBounds
  <2> QED
    BY <2>2, <2>3, <2>4 DEF v, b
<1> HIDE DEF A
<1>5. (m + p) * (P + l) <= (l + p) * (P + m)
  <2>1. (l + p) * (P + m) = (m + p) * (P + l) + (l - m) * (P - p)
    BY <1>1, Z3
  <2>2. (l - m) * (P - p) \in Nat /\ (m + p) * (P + l) \in Nat
    <3>1. l - m \in Nat /\ P - p \in Nat
      BY <1>1
    <3> QED
      BY <1>2, <3>1, ProductNat
  <2> QED
    BY <2>1, <2>2
<1>6. (P + m) * ((P + l) * A) <= (P + m) * ((l + p) * (U + k))
  <2>1. ((P + m) * A) * (P + l) <= ((m + p) * (U + n)) * (P + l)
    BY <1>2, <1>3, <1>4, ProductMono, ProductNat
  <2>2. ((m + p) * (P + l)) * (U + n) <= ((l + p) * (P + m)) * (U + n)
    BY <1>2, <1>5, ProductMono, ProductNat
  <2>3. ((l + p) * (P + m)) * (U + n) <= ((l + p) * (P + m)) * (U + k)
    <3>1. (l + p) * (P + m) \in Nat /\ U + n <= U + k
      BY <1>2, ProductNat
    <3> QED
      BY <1>2, <3>1, ProductMono
  <2>4. /\ ((P + m) * A) * (P + l) = (P + m) * ((P + l) * A)
        /\ ((m + p) * (U + n)) * (P + l) = ((m + p) * (P + l)) * (U + n)
        /\ ((l + p) * (P + m)) * (U + k) = (P + m) * ((l + p) * (U + k))
    BY <1>1, <1>4, Z3
  <2>5. /\ (P + m) * ((P + l) * A) \in Int /\ ((m + p) * (P + l)) * (U + n) \in Int
        /\ ((l + p) * (P + m)) * (U + n) \in Int /\ (P + m) * ((l + p) * (U + k)) \in Int
    BY <1>1, <1>4, Z3
  <2> QED
    BY <2>1, <2>2, <2>3, <2>4, <2>5
<1>7. (P + l) * A <= (l + p) * (U + k)
  <2>1. (P + l) * A \in Int
    BY <1>2, <1>4, ProductNat
  <2> QED
    BY <1>2, <1>3, <1>6, <2>1, Cancel
<1>8. A <= ((l + p) * (U + k)) \div (P + l)
  <2> DEFINE v == (l + p) * (U + k)
  <2> HIDE DEF v
  <2>1. v \in Nat /\ (P + l) * A <= v
    BY <1>3, <1>7 DEF v
  <2>2. A <= v \div (P + l)
    BY <1>2, <1>4, <2>1, DivAtLeast
  <2> QED
    BY <2>2 DEF v
<1> QED
  BY <1>8 DEF AmountByShare, m, l, A

\* What a quote gives for what leaves the curve grows with it.
LEMMA OutMono ==
    ASSUME NEW V \in Nat \ {0}, NEW P \in Nat \ {0}, NEW c \in Nat, NEW d \in Nat, c <= d
    PROVE  AmountByShare(UnmintAmount(c, V, P), V, P)
              <= BNDiv(BNDiv(d * P, V) * V, P)
<1> DEFINE a == c * P
           b == d * P
<1>1. a \in Nat /\ b \in Nat /\ a <= b
  BY ProductNat, ProductMono
<1> HIDE DEF a, b
<1>2. a \div V \in Nat /\ b \div V \in Nat /\ a \div V <= b \div V
  BY <1>1, DivNat, DivMono
<1> DEFINE e == (a \div V) * V
           f == (b \div V) * V
<1>3. e \in Nat /\ f \in Nat /\ e <= f
  <2> DEFINE g == a \div V
             h == b \div V
  <2> HIDE DEF g, h
  <2>1. g \in Nat /\ h \in Nat /\ g <= h
    BY <1>2 DEF g, h
  <2>2. g * V \in Nat /\ h * V \in Nat /\ g * V <= h * V
    BY <2>1, ProductNat, ProductMono
  <2> QED
    BY <2>2 DEF g, h
<1>4. AmountByShare(UnmintAmount(c, V, P), V, P) = e \div P
  BY DEF AmountByShare, UnmintAmount, a
<1>5. BNDiv(BNDiv(d * P, V) * V, P) = f \div P
  <2>1. BNDiv(d * P, V) = b \div V
    BY <1>1 DEF BNDiv, b
  <2> QED
    BY <1>3, <2>1 DEF BNDiv
<1> HIDE DEF e, f
<1>6. e \div P <= f \div P
  BY <1>3, DivMono
<1> QED
  BY <1>4, <1>5, <1>6

\* The quote library takes fees at least as high as the client and lets less through the
\* curve; the rest rounds alike.
LEMMA RustBelowTs ==
    ASSUME NEW st, Books(st), NEW src \in Sides, NEW amount \in Nat, NEW w,
           RustQuote(st, src, amount).ok, TsQuote(st, src, amount, w).ok
    PROVE  RustQuote(st, src, amount).out <= TsQuote(st, src, amount, w).out
<1> DEFINE dst == Other(src)
           U == UnlockedAmount(st.vault[src], st.time)
           P == st.vault[src].supply
           p == st.poolLp[src]
           V == UnlockedAmount(st.vault[dst], st.time)
           Q == st.vault[dst].supply
           S == TokenAmount(st, src)
           D == TokenAmount(st, dst)
           r == RustQuote(st, src, amount)
           q == TsQuote(st, src, amount, w)
           after(n) == AmountByShare(UnmintAmount(n, U, P) + p, U + n, P + UnmintAmount(n, U, P))
           n == amount - r.protocol
           k == amount - q.protocol
           c == CurveOut(r.curveIn, S, D)
           d == CurveOut(q.curveIn, S, D)
<1>1. /\ U \in Nat \ {0} /\ P \in Nat \ {0} /\ p \in 0 .. P /\ S \in Nat
  BY BooksOfSide
<1>2. V \in Nat \ {0} /\ Q \in Nat \ {0} /\ D \in Nat
  <2>1. dst \in Sides
    BY BooksOfSide
  <2> QED
    BY <2>1, BooksOfSide
<1>3. /\ r.fee = RustFee(amount, TradeNum, TradeDen)
      /\ r.protocol = RustFee(r.fee, ProtocolNum, ProtocolDen)
      /\ r.curveIn = (after(n) - S) - r.fee
      /\ r.out = AmountByShare(UnmintAmount(c, V, Q), V, Q)
      /\ c # 0 /\ n >= 0 /\ r.curveIn >= 0
  BY RustQuoteParts
<1>4. /\ q.protocol = TsProtocolFee(TsTradingFee(amount))
      /\ q.fee = TsTradingFee(amount) - q.protocol
      /\ q.curveIn = (after(k) - S) - q.fee
      /\ q.out = BNDiv(BNDiv(d * Q, V) * V, Q)
      /\ d # 0
  BY TsQuoteParts
<1>5. k \in Nat /\ q.protocol \in Nat /\ q.fee \in Nat /\ after(k) \in Nat /\ q.curveIn \in Int
  BY TsQuoteIn
<1> HIDE DEF U, P, p, V, Q, S, D, r, q, dst
<1>6. r.fee \in Nat /\ r.protocol \in Nat /\ q.protocol <= r.protocol /\ q.fee <= r.fee
  <2>1. r.fee \in Nat /\ TsTradingFee(amount) <= r.fee
    BY <1>3, RustFees
  <2>2. TsTradingFee(amount) \in Nat
    BY TsFees
  <2>3. r.protocol \in Nat /\ q.protocol <= r.protocol
    BY <1>3, <1>4, <2>1, <2>2, RustFees
  <2> QED
    BY <1>4, <1>5, <2>1, <2>2, <2>3
<1>7. n \in Nat /\ n <= k
  BY <1>3, <1>5, <1>6
<1> HIDE DEF n, k, c, d
<1>8. after(n) <= after(k) /\ after(n) \in Nat
  <2>1. UnmintAmount(n, U, P) \in Nat
    BY <1>1, <1>7, DepositKeepsSharePrice
  <2>2. after(n) <= after(k)
    BY <1>1, <1>5, <1>7, DepositMono
  <2>3. after(n) \in Nat
    BY <1>1, <1>7, <2>1, DepositValue
  <2> QED
    BY <2>2, <2>3
<1> HIDE DEF after
<1>9. r.curveIn \in Nat /\ r.curveIn <= q.curveIn
  BY <1>1, <1>3, <1>4, <1>5, <1>6, <1>8
<1>10. c \in Nat /\ c <= d /\ d \in Nat
  <2> DEFINE x == r.curveIn
             z == q.curveIn
  <2>1. c = CurveOut(x, S, D) /\ c # 0 /\ d = CurveOut(z, S, D) /\ d # 0
    BY <1>3, <1>4 DEF c, d
  <2> HIDE DEF x, z
  <2>2. x \in Nat /\ z \in Nat /\ x <= z
    BY <1>5, <1>9 DEF x, z
  <2>3. c <= d
    BY <1>1, <1>2, <2>1, <2>2, CurveMono
  <2>4. c \in Nat
    BY <1>1, <1>2, <2>1, <2>2, CurveKeepsProduct
  <2>5. d \in Nat
    BY <1>1, <1>2, <2>1, <2>2, CurveKeepsProduct
  <2> QED
    BY <2>3, <2>4, <2>5
<1>11. r.out <= q.out
  BY <1>2, <1>3, <1>4, <1>10, OutMono
<1> QED
  BY <1>11 DEF r, q

\* Books in range are all that the two quotes need to stay in order.
LEMMA TypeGivesRustBelow == TypeOK => RustNeverAboveTs
<1> SUFFICES ASSUME TypeOK, NEW src \in Sides, NEW amount \in Amounts
             PROVE  RustQuote(Snapshot, src, amount).ok
                    /\ TsQuote(Snapshot, src, amount, FALSE).ok
                    => RustQuote(Snapshot, src, amount).out
                          <= TsQuote(Snapshot, src, amount, FALSE).out
  BY DEF RustNeverAboveTs
<1>1. amount \in Nat /\ Books(Snapshot)
  BY BoundsAssumption, TypeGivesBooks
<1> QED
  BY <1>1, RustBelowTs

\* The on-chain quote library never promises more than the client, for any fees, pool,
\* vaults and amount.
THEOREM RustNeverAboveTsHolds == Spec => []RustNeverAboveTs
<1>1. TypeOK => RustNeverAboveTs
  BY TypeGivesRustBelow
<1>2. Spec => []TypeOK
  BY TypeCorrect
<1> QED
  BY <1>1, <1>2, PTL

(***************************************************************************)
(* The quote before a launch.                                              *)
(***************************************************************************)

\* BN div is exact on multiples.
LEMMA BNDivExact ==
    ASSUME NEW c \in Int, NEW d \in Nat \ {0}
    PROVE  BNDiv(c * d, d) = c
<1>1. ASSUME NEW e \in Nat
      PROVE  (e * d) \div d = e
  <2>1. e * d \in Nat /\ e * d = d * e /\ d * (e + 1) = d * e + d
    BY ProductNat, Z3
  <2>2. e <= (e * d) \div d
    BY <2>1, DivAtLeast
  <2>3. (e * d) \div d < e + 1
    BY <2>1, DivBelow
  <2>4. (e * d) \div d \in Nat
    BY <2>1, DivNat
  <2> QED
    BY <2>2, <2>3, <2>4
<1>2. CASE c >= 0
  <2>1. c \in Nat /\ c * d \in Nat
    BY <1>2, ProductNat
  <2> QED
    BY <1>1, <2>1 DEF BNDiv
<1>3. CASE c < 0
  <2>1. -c \in Nat \ {0}
    BY <1>3
  <2>2. (-c) * d = -(c * d) /\ (-c) * d > 0 /\ c * d \in Int
    BY <2>1, Z3
  <2>3. BNDiv(c * d, d) = -((-(c * d)) \div d)
    BY <2>2 DEF BNDiv
  <2> QED
    BY <1>1, <2>1, <2>2, <2>3
<1> QED
  BY <1>2, <1>3

\* LaunchQuoteIsExact for one launch and amount.
LEMMA LaunchQuote1 ==
    ASSUME TypeOK, NEW x \in Sides, NEW amount \in Nat,
           NEW deposits \in [Sides -> Nat \ {0}], NEW w,
           TsQuote(Launched(x, deposits), x, amount, w).ok
    PROVE  LET quoted == QuoteBeforeLaunch(vault[x], x, x, deposits, amount, time)
           IN  quoted.ok
               /\ quoted.out = TsQuote(Launched(x, deposits), x, amount, w).out
<1> DEFINE y == Other(x)
           s == Deposited([vault |-> vault[x], lp |-> 0], deposits[x], time)
           new == [total |-> deposits[y], supply |-> deposits[y], locked |-> 0, report |-> 0]
           st == Launched(x, deposits)
           then == TsQuote(st, x, amount, w)
           quoted == QuoteBeforeLaunch(vault[x], x, x, deposits, amount, time)
           d == deposits[y]
<1>0. then.ok
  OBVIOUS
<1>1. y \in Sides /\ y # x /\ Sides = {x, y} /\ Other(y) = x
  BY TwoSides DEF Sides
<1>2. d \in Nat \ {0} /\ time \in Nat
  BY <1>1 DEF TypeOK
<1>3. /\ st.time = time /\ st.vault[x] = s.vault /\ st.vault[y] = new
      /\ st.poolLp[x] = s.lp /\ st.poolLp[y] = d
  BY <1>1 DEF Launched
<1>4. UnlockedAmount(new, time) = d
  <2>1. new \in VaultRecord /\ new.report <= time /\ new.locked = 0 /\ new.total = d
    BY <1>2 DEF VaultRecord
  <2> HIDE DEF new
  <2>2. LockedProfit(new, time) \in 0 .. 0
    BY <1>2, <2>1, LockedProfitFalls
  <2> QED
    BY <1>2, <2>1, <2>2 DEF UnlockedAmount
<1>5. TokenAmount(st, y) = d
  <2>1. AmountByShare(d, d, d) = d
    <3> DEFINE n == d * d
    <3>1. n \in Nat /\ d * d <= n /\ n < d * (d + 1)
      BY <1>2, ProductNat, Z3
    <3> HIDE DEF n
    <3>2. d <= n \div d /\ n \div d < d + 1 /\ n \div d \in Nat
      BY <1>2, <3>1, DivAtLeast, DivBelow, DivNat
    <3> QED
      BY <1>2, <3>2 DEF AmountByShare, n
  <2> QED
    BY <1>3, <1>4, <2>1 DEF TokenAmount
<1>6. TokenAmount(st, x) = PoolTokens(s, time)
  BY <1>3 DEF TokenAmount, PoolTokens
<1> DEFINE m == UnmintAmount(deposits[x], UnlockedAmount(vault[x], time), vault[x].supply)
           U == UnlockedAmount(s.vault, time)
           P == s.vault.supply
<1>7. /\ s.lp = m /\ m \in Nat /\ P \in Nat \ {0} /\ U \in Nat \ {0}
      /\ s.vault.total \in Nat /\ LockedProfit(s.vault, time) \in Nat
      /\ s.vault \in VaultRecord
  <2>1. /\ vault[x] \in VaultRecord /\ vault[x].report <= time
        /\ UnlockedAmount(vault[x], time) \in Nat \ {0} /\ vault[x].supply \in Nat \ {0}
    BY DEF TypeOK, VaultRecord
  <2>2. m \in Nat
    BY <2>1, DepositKeepsSharePrice
  <2>3. /\ s.vault = [vault[x] EXCEPT !.total = @ + deposits[x], !.supply = @ + m]
        /\ s.lp = 0 + m
    BY DEF Deposited
  <2> HIDE DEF s, m
  <2>4. /\ s.vault \in VaultRecord /\ s.vault.total = vault[x].total + deposits[x]
        /\ s.vault.supply = vault[x].supply + m
        /\ s.vault.locked = vault[x].locked /\ s.vault.report = vault[x].report
    <3>1. /\ vault[x].total + deposits[x] \in Nat /\ vault[x].supply + m \in Nat
          /\ vault[x] \in VaultRecord
      BY <2>1, <2>2 DEF VaultRecord
    <3> DEFINE v == vault[x]
               n == vault[x].total + deposits[x]
               l == vault[x].supply + m
               u == [v EXCEPT !.total = n, !.supply = l]
    <3>2. s.vault = u
      BY <2>3
    <3> HIDE DEF v, n, l
    <3>3. v \in VaultRecord /\ n \in Nat /\ l \in Nat
      BY <3>1 DEF v, n, l
    <3>4. /\ u \in VaultRecord /\ u.total = n /\ u.supply = l
          /\ u.locked = v.locked /\ u.report = v.report
      BY <3>3 DEF VaultRecord
    <3> QED
      BY <3>2, <3>4 DEF v, n, l
  <2>5. LockedProfit(s.vault, time) = LockedProfit(vault[x], time)
    BY <2>4, SameLocked
  <2>6. LockedProfit(vault[x], time) \in Nat /\ vault[x].total \in Nat
    BY <1>2, <2>1, LockedProfitFalls DEF VaultRecord
  <2>7. U = UnlockedAmount(vault[x], time) + deposits[x]
    BY <2>4, <2>5, <2>6 DEF UnlockedAmount
  <2> QED
    BY <2>1, <2>2, <2>3, <2>4, <2>5, <2>6, <2>7
<1> DEFINE net == amount - TsProtocolFee(TsTradingFee(amount))
           k == UnmintAmount(net, U, P)
           after == AmountByShare(k + m, U + net, P + k)
           fee == TsTradingFee(amount) - TsProtocolFee(TsTradingFee(amount))
           c == CurveOut((after - PoolTokens(s, time)) - fee, PoolTokens(s, time), d)
<1>8. net \in Nat /\ k \in Nat
  <2>1. TsTradingFee(amount) \in 0 .. amount
    BY TsFees
  <2>2. TsProtocolFee(TsTradingFee(amount)) \in 0 .. TsTradingFee(amount)
    BY <2>1, TsFees
  <2>3. net \in Nat
    BY <2>1, <2>2
  <2> HIDE DEF net, U, P
  <2> QED
    BY <1>7, <2>3, DepositKeepsSharePrice
<1>9. c # 0 /\ then.out = BNDiv(BNDiv(c * d, d) * d, d)
  <2> HIDE DEF st, s, new, d, m
  <2>1. /\ then.protocol = TsProtocolFee(TsTradingFee(amount))
        /\ then.fee = TsTradingFee(amount) - then.protocol
        /\ then.lpIn = UnmintAmount(amount - then.protocol, UnlockedAmount(st.vault[x], st.time),
                                    st.vault[x].supply)
        /\ then.curveIn = (AmountByShare(then.lpIn + st.poolLp[x],
                              UnlockedAmount(st.vault[x], st.time) + (amount - then.protocol),
                              st.vault[x].supply + then.lpIn)
                           - TokenAmount(st, x)) - then.fee
        /\ then.lpOut = BNDiv(CurveOut(then.curveIn, TokenAmount(st, x), TokenAmount(st, y))
                                 * st.vault[y].supply,
                              UnlockedAmount(st.vault[y], st.time))
        /\ then.out = BNDiv(then.lpOut * UnlockedAmount(st.vault[y], st.time),
                            st.vault[y].supply)
        /\ CurveOut(then.curveIn, TokenAmount(st, x), TokenAmount(st, y)) # 0
    BY <1>0, TsQuoteParts
  <2> HIDE DEF then
  <2>2. /\ st.vault[y].supply = d /\ UnlockedAmount(st.vault[y], st.time) = d
    BY <1>3, <1>4 DEF new, d
  <2>3. /\ then.lpIn = k /\ then.fee = fee
        /\ then.curveIn = (after - PoolTokens(s, time)) - fee
    BY <1>3, <1>6, <1>7, <2>1
  <2> HIDE DEF after, fee, k, net
  <2> QED
    BY <1>5, <1>6, <2>1, <2>2, <2>3
<1>10. quoted.out = c /\ quoted.ok = (c # 0)
  <2> DEFINE t == Deposited(s, net, time)
  <2>1. t.vault = [s.vault EXCEPT !.total = @ + net, !.supply = @ + k] /\ t.lp = s.lp + k
    BY DEF Deposited
  <2> HIDE DEF t, s, k, net
  <2>2. /\ t.vault.total = s.vault.total + net /\ t.vault.supply = P + k
        /\ t.vault.locked = s.vault.locked /\ t.vault.report = s.vault.report
    BY <1>7, <2>1 DEF VaultRecord
  <2>3. UnlockedAmount(t.vault, time) = U + net
    <3>1. LockedProfit(t.vault, time) = LockedProfit(s.vault, time)
      BY <2>2, SameLocked
    <3> QED
      BY <1>7, <1>8, <2>2, <3>1 DEF UnlockedAmount
  <2>4. t.lp = k + m
    BY <1>7, <1>8, <2>1
  <2>5. PoolTokens(t, time) = after
    BY <2>2, <2>3, <2>4 DEF PoolTokens
  <2>6. c = CurveOut((PoolTokens(t, time) - PoolTokens(s, time)) - fee, PoolTokens(s, time), d)
    BY <2>5
  <2> HIDE DEF c, after
  <2> QED
    BY <1>1, <2>6 DEF QuoteBeforeLaunch, t, s, net
<1>12. c \in Int
  <2>1. PoolTokens(s, time) \in Nat
    <3>1. m * U \in Nat /\ P \in Nat \ {0}
      BY <1>7, ProductNat
    <3> HIDE DEF U, P, m
    <3>2. (m * U) \div P \in Nat
      BY <3>1, DivNat
    <3> QED
      BY <1>7, <3>2 DEF PoolTokens, AmountByShare, U, P
  <2>2. after \in Int
    <3>1. (k + m) * (U + net) \in Int /\ P + k \in Nat \ {0}
      BY <1>7, <1>8, ProductNat
    <3> HIDE DEF U, P, m, k, net
    <3>2. ((k + m) * (U + net)) \div (P + k) \in Int
      BY <3>1, DivBounds
    <3> QED
      BY <3>2 DEF AmountByShare
  <2>3. fee \in Int
    <3>1. TsTradingFee(amount) \in 0 .. amount
      BY TsFees
    <3>2. TsProtocolFee(TsTradingFee(amount)) \in 0 .. TsTradingFee(amount)
      BY <3>1, TsFees
    <3> QED
      BY <3>1, <3>2
  <2> HIDE DEF after, fee, s
  <2>4. (after - PoolTokens(s, time)) - fee \in Int /\ d \in Nat
    BY <1>2, <2>1, <2>2, <2>3
  <2> QED
    BY <1>9, <2>1, <2>4, CurveKeepsProduct
<1> HIDE DEF c, then, quoted, d
<1>11. BNDiv(BNDiv(c * d, d) * d, d) = c
  BY <1>2, <1>12, BNDivExact
<1> QED
  BY <1>9, <1>10, <1>11 DEF then, quoted

\* Books in range are all that the launcher's quote needs to be exact.
LEMMA TypeGivesLaunchQuote == TypeOK => LaunchQuoteIsExact
<1> SUFFICES ASSUME TypeOK, NEW x \in Sides, NEW amount \in Amounts,
                    NEW deposits \in [Sides -> LaunchDeposits]
             PROVE  LET quoted == QuoteBeforeLaunch(vault[x], x, x, deposits, amount, time)
                        then == TsQuote(Launched(x, deposits), x, amount, TRUE)
                    IN  then.ok => quoted.ok /\ quoted.out = then.out
  BY DEF LaunchQuoteIsExact
<1>1. amount \in Nat /\ deposits \in [Sides -> Nat \ {0}]
  BY BoundsAssumption
<1> QED
  BY <1>1, LaunchQuote1

\* The quote a launcher gets is what the launched pool answers, whatever the vault has
\* earned, locked and lent out, for any deposits and amount.
THEOREM LaunchQuoteIsExactHolds == Spec => []LaunchQuoteIsExact
<1>1. TypeOK => LaunchQuoteIsExact
  BY TypeGivesLaunchQuote
<1>2. Spec => []TypeOK
  BY TypeCorrect
<1> QED
  BY <1>1, <1>2, PTL
=============================================================================
